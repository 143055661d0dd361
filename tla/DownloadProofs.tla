--------------------------- MODULE DownloadProofs ---------------------------
(***************************************************************************)
(* Theorems about Download, for any packages, any number of local ports,   *)
(* streams of any length, a buffer of any size, and any number of faults   *)
(* of the network.                                                         *)
(***************************************************************************)
EXTENDS Download, SequenceTheorems, WellFoundedInduction, TLAPS

-----------------------------------------------------------------------------
(* Sequences.                                                              *)

\* The head and the tail of what is under way.
LEMMA HeadAndTail ==
  ASSUME NEW S, NEW s \in Seq(S), s # <<>>
  PROVE  /\ Head(s) = s[1] /\ 1 \in DOMAIN s /\ Head(s) \in S /\ Tail(s) \in Seq(S)
         /\ DOMAIN s \subseteq Nat \ {0} /\ DOMAIN Tail(s) \subseteq Nat \ {0}
         /\ \A i \in DOMAIN Tail(s) : i + 1 \in DOMAIN s /\ Tail(s)[i] = s[i + 1]
         /\ \A i \in DOMAIN s : i # 1 => i - 1 \in DOMAIN Tail(s) /\ s[i] = Tail(s)[i - 1]
<1> DEFINE t == Tail(s)
<1>1. /\ Head(s) = s[1] /\ Head(s) \in S /\ t \in Seq(S)
      /\ Len(s) \in Nat /\ Len(t) \in Nat /\ Len(s) # 0 /\ Len(t) = Len(s) - 1
      /\ DOMAIN s = 1 .. Len(s) /\ DOMAIN t = 1 .. Len(t)
      /\ \A i \in 1 .. Len(t) : t[i] = s[i + 1]
  BY HeadTailProperties, LenProperties, EmptySeq
<1> HIDE DEF t
<1>2. \A i \in DOMAIN t : i + 1 \in DOMAIN s /\ t[i] = s[i + 1]
  BY <1>1
<1>3. \A i \in DOMAIN s : i # 1 => i - 1 \in DOMAIN t /\ s[i] = t[i - 1]
  BY <1>1
<1> QED
  BY <1>1, <1>2, <1>3 DEF t

\* One more at the end.
LEMMA OneMore ==
  ASSUME NEW S, NEW s \in Seq(S), NEW e \in S
  PROVE  /\ Append(s, e) \in Seq(S) /\ Append(s, e) # <<>>
         /\ Len(s) \in Nat /\ Len(Append(s, e)) = Len(s) + 1
         /\ DOMAIN s = 1 .. Len(s) /\ DOMAIN Append(s, e) = 1 .. Len(s) + 1
         /\ Append(s, e)[Len(s) + 1] = e
         /\ \A i \in DOMAIN s : i < Len(s) + 1 /\ Append(s, e)[i] = s[i]
         /\ \A i \in DOMAIN Append(s, e) : i \in DOMAIN s \/ i = Len(s) + 1
<1> DEFINE t == Append(s, e)
<1>1. /\ t \in Seq(S) /\ t # <<>> /\ Len(t) = Len(s) + 1 /\ t[Len(s) + 1] = e
      /\ \A i \in 1 .. Len(s) : t[i] = s[i]
      /\ Len(s) \in Nat /\ DOMAIN s = 1 .. Len(s) /\ DOMAIN t = 1 .. Len(t)
  BY AppendProperties, LenProperties
<1> HIDE DEF t
<1>2. /\ \A i \in DOMAIN s : i < Len(s) + 1 /\ t[i] = s[i]
      /\ \A i \in DOMAIN t : i \in DOMAIN s \/ i = Len(s) + 1
      /\ DOMAIN t = 1 .. Len(s) + 1
  BY <1>1
<1> QED
  BY <1>1, <1>2 DEF t

\* The first header of a buffer is one.
LEMMA MinOfNats ==
  ASSUME NEW T \in SUBSET Nat, T # {}
  PROVE  Min(T) \in T /\ \A y \in T : Min(T) <= y
<1> DEFINE Less == {ss \in Nat \X Nat : ss[1] < ss[2]}
<1>1. IsWellFoundedOn(Less, Nat)
  BY NatLessThanWellFounded DEF OpToRel
<1> HIDE DEF Less
<1>2. PICK x \in T : \A y \in T : ~ (<<y, x>> \in Less)
  BY <1>1, WFMin
<1>3. ASSUME NEW a \in Nat, NEW b \in Nat, b < a PROVE <<b, a>> \in Less
  BY <1>3 DEF Less
<1>4. ASSUME NEW y \in T PROVE x <= y
  <2>1. x \in Nat /\ y \in Nat
    OBVIOUS
  <2>2. ~ (y < x)
    BY <1>2, <1>3, <2>1
  <2> QED
    BY <2>1, <2>2
<1>5. \E m \in T : \A y \in T : m <= y
  BY <1>4
<1> QED
  BY <1>5 DEF Min

\* One less, or another order, and nothing that was not there.
LEMMA OneLess ==
  ASSUME NEW S, NEW s \in Seq(S), NEW n \in DOMAIN s
  PROVE  /\ RemoveAt(s, n) \in Seq(S) /\ <<s[n]>> \o RemoveAt(s, n) \in Seq(S)
         /\ \A i \in DOMAIN RemoveAt(s, n) :
              \E j \in DOMAIN s : RemoveAt(s, n)[i] = s[j]
         /\ \A i \in DOMAIN (<<s[n]>> \o RemoveAt(s, n)) :
              \E j \in DOMAIN s : (<<s[n]>> \o RemoveAt(s, n))[i] = s[j]
<1> DEFINE E == {s[j] : j \in DOMAIN s}
           a == SubSeq(s, 1, n - 1)
           b == SubSeq(s, n + 1, Len(s))
           r == RemoveAt(s, n)
           q == <<s[n]>> \o r
<1>1. Len(s) \in Nat /\ DOMAIN s = 1 .. Len(s) /\ n \in 1 .. Len(s) /\ n \in Int
      /\ n - 1 \in Int /\ n + 1 \in Int /\ Len(s) \in Int
  BY LenProperties
<1>2. \A i \in 1 .. n - 1 : s[i] \in E
  BY <1>1
<1>3. \A i \in n + 1 .. Len(s) : s[i] \in E
  BY <1>1
<1>4. E \subseteq S /\ s[n] \in E
  BY ElementOfSeq, <1>1
<1> HIDE DEF E
<1>5. a \in Seq(E) /\ b \in Seq(E)
  BY <1>1, <1>2, <1>3, SubSeqProperties
<1>6. r = a \o b
  BY DEF RemoveAt
<1> HIDE DEF a, b, r
<1>7. r \in Seq(E) /\ <<s[n]>> \in Seq(E)
  BY <1>4, <1>5, <1>6, ConcatProperties
<1>8. q \in Seq(E)
  BY <1>7, ConcatProperties
<1> HIDE DEF q
<1>9. r \in Seq(S) /\ q \in Seq(S)
  BY <1>4, <1>7, <1>8, SeqMonotonic
<1>10. (\A i \in DOMAIN r : r[i] \in E) /\ (\A i \in DOMAIN q : q[i] \in E)
  BY <1>7, <1>8, ElementOfSeq, LenProperties
<1> QED
  BY <1>9, <1>10 DEF E, r, q

-----------------------------------------------------------------------------
(* What is under way.                                                      *)

Pieces    == Ports \X (1 .. Length)
Answers   == {m \in Segments : m.kind \in {"data", "data-fin"} => m.k # 0}
Sockets   == [state : 0 .. 2, port : Ports \cup {None}, seq : Nat]
Questions == [kind : {"syn", "get"}, port : Ports, url : Urls \cup {None}, seq : Nat]

\* A piece of the stream of port p, and whether p's stream was ever asked for.
IsData(m, p) == m.kind \in {"data", "data-fin"} /\ m.port = p
Asked(p) == \/ conn[p].url # None \/ conn[p].sent # 0
            \/ \E m \in toServer : m.kind = "get" /\ m.port = p
            \/ \E i \in DOMAIN toClient : IsData(toClient[i], p)

TypeInv ==
  /\ TypeOK
  /\ browser_tcp \in Sockets
  /\ browser_tcp.state # 0 => browser_tcp.port \in Ports
  /\ toServer \subseteq Questions
  /\ toClient \in Seq(Answers)
  /\ saved.segments \in Seq(Pieces)
  /\ faulted \in Nat

\* A port that was not drawn yet has no stream, and what the buffer has is of one
\* stream: that of the open connection, from when it is asked for.
Drawn     == /\ \A p \in Ports : ~conn[p].used => ~Asked(p)
             /\ browser_tcp.port \in Ports => conn[browser_tcp.port].used
OneBuffer == \A i, j \in DOMAIN buffer : buffer[i][1] = buffer[j][1]
ItsBuffer == browser_tcp.port \in Ports /\ Asked(browser_tcp.port) =>
               \A i \in DOMAIN buffer : buffer[i][1] = browser_tcp.port
StreamInv == TypeInv /\ Drawn /\ OneBuffer /\ ItsBuffer /\ OneStream

\* On a network without faults: the segments of a stream come in its order and
\* none is missing, a FIN is behind the last, the buffer is a run of pieces, and
\* the next one is the next to come.
InSequence ==
  \A i \in DOMAIN toClient : \A p \in Ports : IsData(toClient[i], p) =>
    /\ toClient[i].k <= conn[p].sent
    /\ \A k \in toClient[i].k + 1 .. conn[p].sent :
         \E j \in DOMAIN toClient : j > i /\ IsData(toClient[j], p) /\ toClient[j].k = k
    /\ \A j \in DOMAIN toClient : j > i /\ IsData(toClient[j], p) =>
         toClient[j].k > toClient[i].k
FinLast ==
  \A i \in DOMAIN toClient : toClient[i].kind = "fin" =>
    /\ conn[toClient[i].port].sent = Length
    /\ \A j \in DOMAIN toClient : IsData(toClient[j], toClient[i].port) => j < i
Run(b)  == \A i \in DOMAIN b : b[i][2] = b[1][2] + i - 1
LastPiece    == buffer[Len(buffer)][2]
NextPiece ==
  browser_tcp.state # 0 /\ Asked(browser_tcp.port)
  /\ buffer # <<>> /\ Len(buffer) + 1 < BufferSize
    => /\ LastPiece <= conn[browser_tcp.port].sent
       /\ \A k \in LastPiece + 1 .. conn[browser_tcp.port].sent :
            \E i \in DOMAIN toClient :
              IsData(toClient[i], browser_tcp.port) /\ toClient[i].k = k
       /\ \A i \in DOMAIN toClient :
            IsData(toClient[i], browser_tcp.port) => toClient[i].k > LastPiece
Whole == ended = "fin" /\ buffer # <<>> /\ Length < BufferSize => LastPiece = Length
InOrder == faulted = 0 => InSequence /\ FinLast /\ Run(buffer) /\ NextPiece /\ Whole

\* A FIN closes the connection, and with faults or without: what opens after it is
\* asked for nothing until its own SYN-ACK.
Closed == ended = "fin" /\ browser_tcp.state # 0 => ~Asked(browser_tcp.port)

OrderInv == StreamInv /\ Closed /\ InOrder /\ NoGap /\ WholeAfterFin

-----------------------------------------------------------------------------
(* Types.                                                                  *)

Conns == [used : BOOLEAN, up : BOOLEAN, url : Urls \cup {None}, sent : 0 .. Length]

\* What the client and the servers change of a connection.
LEMMA ConnDrawn ==
  ASSUME NEW c \in [Ports -> Conns], NEW p \in Ports
  PROVE  /\ [c EXCEPT ![p].used = TRUE] \in [Ports -> Conns]
         /\ [c EXCEPT ![p].used = TRUE][p].used
         /\ \A q \in Ports : /\ [c EXCEPT ![p].used = TRUE][q].url = c[q].url
                             /\ [c EXCEPT ![p].used = TRUE][q].sent = c[q].sent
                             /\ q # p => [c EXCEPT ![p].used = TRUE][q] = c[q]
  BY DEF Conns

\* A connection that is opened or closed.
LEMMA ConnUp ==
  ASSUME NEW c \in [Ports -> Conns], NEW p \in Ports, NEW b \in BOOLEAN
  PROVE  /\ [c EXCEPT ![p].up = b] \in [Ports -> Conns]
         /\ \A q \in Ports : /\ [c EXCEPT ![p].up = b][q].url = c[q].url
                             /\ [c EXCEPT ![p].up = b][q].sent = c[q].sent
                             /\ [c EXCEPT ![p].up = b][q].used = c[q].used
  BY DEF Conns

\* A connection that has been asked for a file.
LEMMA ConnUrl ==
  ASSUME NEW c \in [Ports -> Conns], NEW p \in Ports, NEW u \in Urls \cup {None}
  PROVE  /\ [c EXCEPT ![p].url = u] \in [Ports -> Conns]
         /\ \A q \in Ports : /\ [c EXCEPT ![p].url = u][q].sent = c[q].sent
                             /\ [c EXCEPT ![p].url = u][q].used = c[q].used
                             /\ q # p => [c EXCEPT ![p].url = u][q] = c[q]
  BY DEF Conns

\* A connection that has sent one segment more.
LEMMA ConnSent ==
  ASSUME NEW c \in [Ports -> Conns], NEW p \in Ports, c[p].sent + 1 \in 0 .. Length,
         NEW b \in BOOLEAN
  PROVE  LET d == [c EXCEPT ![p].sent = @ + 1, ![p].up = b]
         IN  /\ d \in [Ports -> Conns] /\ d[p].sent = c[p].sent + 1
             /\ \A q \in Ports : /\ d[q].url = c[q].url /\ d[q].used = c[q].used
                                 /\ q # p => d[q] = c[q]
<1> DEFINE e == [c EXCEPT ![p].sent = @ + 1]
           d == [c EXCEPT ![p].sent = @ + 1, ![p].up = b]
<1>1. /\ e \in [Ports -> Conns] /\ e[p].sent = c[p].sent + 1
      /\ \A q \in Ports : /\ e[q].url = c[q].url /\ e[q].used = c[q].used
                          /\ q # p => e[q] = c[q]
  BY DEF Conns
<1>2. d = [e EXCEPT ![p].up = b]
  OBVIOUS
<1> HIDE DEF e, d
<1>3. /\ d \in [Ports -> Conns] /\ d[p].sent = e[p].sent
      /\ \A q \in Ports : /\ d[q].url = e[q].url /\ d[q].used = e[q].used
                          /\ q # p => d[q] = e[q]
  BY <1>1, <1>2 DEF Conns
<1>4. d \in [Ports -> Conns] /\ d[p].sent = c[p].sent + 1
  BY <1>1, <1>3
<1>5. \A q \in Ports : /\ d[q].url = c[q].url /\ d[q].used = c[q].used
                      /\ q # p => d[q] = c[q]
  BY <1>1, <1>3
<1> QED
  BY <1>4, <1>5 DEF d

\* What the client changes of its socket.
LEMMA SocketChanges ==
  ASSUME NEW r \in Sockets
  PROVE  /\ [r EXCEPT !.state = 0] \in Sockets
         /\ [r EXCEPT !.state = 0].state = 0 /\ [r EXCEPT !.state = 0].port = r.port
         /\ [r EXCEPT !.state = 2, !.seq = @ + 2] \in Sockets
         /\ [r EXCEPT !.state = 2, !.seq = @ + 2].state = 2
         /\ [r EXCEPT !.state = 2, !.seq = @ + 2].port = r.port
<1> DEFINE q == [r EXCEPT !.state = 2]
           t == [r EXCEPT !.state = 2, !.seq = @ + 2]
<1>1. q \in Sockets /\ q.state = 2 /\ q.port = r.port
  BY DEF Sockets
<1>2. t = [q EXCEPT !.seq = @ + 2]
  OBVIOUS
<1> HIDE DEF q, t
<1>3. t \in Sockets /\ t.state = q.state /\ t.port = q.port
  BY <1>1, <1>2 DEF Sockets
<1>4. /\ [r EXCEPT !.state = 0] \in Sockets
      /\ [r EXCEPT !.state = 0].state = 0 /\ [r EXCEPT !.state = 0].port = r.port
  BY DEF Sockets
<1> QED
  BY <1>1, <1>3, <1>4 DEF t

\* Nothing is under way at the start.
LEMMA InitTypes == Init => TypeInv
<1> SUFFICES ASSUME Init PROVE TypeInv
  OBVIOUS
<1>0. 0 \in 0 .. Length /\ 0 \in 0 .. Frames + 1 /\ 0 \in 0 .. Frames
  BY NetAssumption
<1>1. buffer \in Seq(Pieces) /\ toClient \in Seq(Segments)
  BY DEF Init
<1>2. conn \in [Ports -> Conns]
  <2>1. [used |-> FALSE, up |-> FALSE, url |-> None, sent |-> 0] \in Conns
    BY <1>0 DEF Conns
  <2> QED
    BY <2>1 DEF Init
<1>3. /\ browser_tcp \in Sockets
      /\ browser_tcp.state = 0
  BY DEF Init, Sockets
<1>4. saved.segments = <<>>
  BY DEF Init, NoFile
<1>5. TypeOK
  <2>1. /\ router_mac \in {"none", "known", "cut"}
        /\ browser_tcp.state \in 0 .. 2 /\ browser_tcp.port \in Ports \cup {None}
        /\ browser_tcp.seq \in Nat
        /\ browser_url \in Urls \cup {None} /\ pkg_target_ip \in Urls \cup {None}
    BY DEF Init
  <2>2. /\ ended \in {"no", "fin", "rst", "idle"} /\ pkg_download_active \in BOOLEAN
        /\ pkg_last_download_len \in Nat /\ pkg_idle_frames \in 0 .. Frames + 1
        /\ pkg_syn_retry_cooldown \in 0 .. Frames
        /\ toDns \subseteq Named /\ toArp \in BOOLEAN
    BY <1>0 DEF Init
  <2> QED
    BY <1>1, <1>2, <2>1, <2>2 DEF TypeOK, Pieces, Conns
<1> QED
  BY <1>1, <1>3, <1>4, <1>5 DEF TypeInv, Init

\* A SYN, or the ARP request instead.
LEMMA SynTypes ==
  ASSUME TypeInv, NEW ip, NEW mac, send_tcp_syn(ip, mac)
  PROVE  /\ browser_tcp' \in Sockets
         /\ browser_tcp'.state # 0 => browser_tcp'.port \in Ports
         /\ conn' \in [Ports -> Conns] /\ toServer' \subseteq Questions
         /\ toArp' \in BOOLEAN
<1>1. conn \in [Ports -> Conns]
  BY DEF TypeInv, TypeOK, Conns
<1>2. CASE mac = "none"
  BY <1>1, <1>2 DEF send_tcp_syn, TypeInv, TypeOK
<1>3. CASE mac # "none"
  <2>1. PICK p \in FreePorts :
         /\ browser_tcp' = [state |-> 1, port |-> p, seq |-> 0]
         /\ conn' = [conn EXCEPT ![p].used = TRUE]
         /\ toServer' = IF Delivered(mac) /\ ip # Nowhere
                        THEN toServer \cup {[kind |-> "syn", port |-> p,
                                             url |-> None, seq |-> 0]}
                        ELSE toServer
         /\ UNCHANGED toArp
    BY <1>3 DEF send_tcp_syn
  <2>2. p \in Ports
    BY DEF FreePorts
  <2>3. conn' \in [Ports -> Conns]
    BY <1>1, <2>1, <2>2, ConnDrawn
  <2>4. browser_tcp' \in Sockets
        /\ browser_tcp'.port \in Ports
    BY <2>1, <2>2 DEF Sockets
  <2>5. [kind |-> "syn", port |-> p, url |-> None, seq |-> 0] \in Questions
    BY <2>2 DEF Questions
  <2>6. toServer' \subseteq Questions
    <3> HIDE DEF Questions
    <3> QED
      BY <2>1, <2>5 DEF TypeInv
  <2> QED
    BY <2>1, <2>3, <2>4, <2>6 DEF TypeInv, TypeOK
<1> QED
  BY <1>2, <1>3

\* The header is a piece of the buffer, and the file what follows it.
LEMMA PayloadFollows ==
  ASSUME NEW b \in Seq(Pieces)
  PROVE  /\ Payload(b) \in Seq(Pieces)
         /\ Payload(b) # <<>> =>
              \E h \in DOMAIN b :
                /\ b[h][2] = 1 /\ Len(Payload(b)) = Len(b) - h
                /\ \A i \in DOMAIN Payload(b) : h + i \in DOMAIN b /\ Payload(b)[i] = b[h + i]
<1> DEFINE I == {i \in 1 .. Len(b) : b[i][2] = 1}
           h == IF I # {} THEN Min(I) ELSE 0
<1>1. Payload(b) = IF h = 0 THEN <<>> ELSE SubSeq(b, h + 1, Len(b))
  BY DEF Payload, SelectInSeq
<1>2. I # {} => h \in I
  <2>1. I \in SUBSET Nat
    OBVIOUS
  <2> HIDE DEF I
  <2> QED
    BY <2>1, MinOfNats
<1>3. Len(b) \in Nat /\ DOMAIN b = 1 .. Len(b)
  BY LenProperties
<1>4. h = 0 \/ (h \in DOMAIN b /\ b[h][2] = 1)
  BY <1>2, <1>3
<1> HIDE DEF h
<1>5. CASE h = 0
  BY <1>1, <1>5
<1>6. CASE h \in DOMAIN b /\ b[h][2] = 1
  <2> DEFINE f == SubSeq(b, h + 1, Len(b))
  <2>1. h \in Nat \ {0} /\ h <= Len(b) /\ h + 1 \in Int /\ Len(b) \in Int
    BY <1>3, <1>6
  <2>2. \A i \in h + 1 .. Len(b) : b[i] \in Pieces
    BY <1>3, <2>1, ElementOfSeq
  <2>3. /\ f \in Seq(Pieces)
        /\ Len(f) = IF h + 1 <= Len(b) THEN Len(b) - (h + 1) + 1 ELSE 0
        /\ \A i \in 1 .. Len(b) - (h + 1) + 1 : f[i] = b[h + 1 + i - 1]
    BY <2>1, <2>2, SubSeqProperties
  <2> HIDE DEF f
  <2>4. Len(f) = Len(b) - h /\ DOMAIN f = 1 .. Len(f)
    BY <1>3, <2>1, <2>3, LenProperties
  <2>5. \A i \in DOMAIN f : h + i \in DOMAIN b /\ f[i] = b[h + i]
    <3> SUFFICES ASSUME NEW i \in DOMAIN f PROVE h + i \in DOMAIN b /\ f[i] = b[h + i]
      OBVIOUS
    <3>1. i \in Nat \ {0} /\ i <= Len(b) - h
      BY <1>3, <2>1, <2>4
    <3>2. h + 1 + i - 1 = h + i /\ i \in 1 .. Len(b) - (h + 1) + 1
      BY <1>3, <2>1, <3>1
    <3>3. f[i] = b[h + i]
      BY <2>3, <3>2
    <3> QED
      BY <1>3, <2>1, <3>1, <3>3
  <2>6. Payload(b) = f
    BY <1>1, <2>1 DEF f
  <2> QED
    BY <1>6, <2>3, <2>4, <2>5, <2>6
<1> QED
  BY <1>4, <1>5, <1>6

\* What the types say before a step.
LEMMA Before ==
  ASSUME TypeInv
  PROVE  /\ conn \in [Ports -> Conns] /\ buffer \in Seq(Pieces)
         /\ browser_tcp \in Sockets
         /\ Urls \cap {None} = {} /\ Named \subseteq Urls /\ Length \in Nat \ {0}
         /\ Frames \in Nat \ {0}
  BY NetAssumption DEF TypeInv, TypeOK, Conns, Pieces

\* A segment that has come.
LEMMA ReceiverTypes ==
  ASSUME TypeInv, check_rx
  PROVE  TypeInv'
<1> DEFINE m == Head(toClient)
<1>1. toClient \in Seq(Answers) /\ toClient # <<>> /\ toClient' = Tail(toClient)
  BY DEF TypeInv, check_rx
<1>2. m \in Answers /\ toClient' \in Seq(Answers)
  BY <1>1, HeadAndTail
<1>3. syn_ack(m) \/ data(m) \/ fin(m) \/ rst(m) \/ stray(m)
  BY DEF check_rx
<1> HIDE DEF m
<1>4. UNCHANGED <<router_mac, browser_url, pkg, tick, saved, conn, toDns, toArp, faulted>>
  BY DEF check_rx
<1>5. /\ browser_tcp' \in Sockets
      /\ browser_tcp'.state # 0 => browser_tcp'.port \in Ports
      /\ toServer' \subseteq Questions /\ buffer' \in Seq(Pieces)
      /\ ended' \in {"no", "fin", "rst", "idle"}
  <2> USE Before
  <2>1. CASE syn_ack(m)
    <3>1. /\ browser_tcp' \in Sockets
          /\ browser_tcp'.port = browser_tcp.port /\ browser_tcp.state # 0
          /\ m.port = browser_tcp.port
      BY <2>1, SocketChanges DEF syn_ack, Mine
    <3>2. Get(m.port) \subseteq Questions
      BY <3>1 DEF Get, Questions, TypeInv, TypeOK
    <3> HIDE DEF Questions
    <3> QED
      BY <2>1, <3>1, <3>2 DEF syn_ack, TypeInv
  <2>2. CASE data(m)
    <3>1. m.port \in Ports /\ m.k \in 1 .. Length
      BY <1>2, <2>2 DEF data, Answers, Segments
    <3>2. <<m.port, m.k>> \in Pieces
      BY <3>1 DEF Pieces
    <3> HIDE DEF Pieces
    <3>3. buffer' \in Seq(Pieces)
      BY <2>2, <3>2, OneMore DEF data
    <3> QED
      BY <2>2, <3>3 DEF data, TypeInv, TypeOK
  <2>3. CASE fin(m) \/ rst(m)
    <3>1. browser_tcp' \in Sockets /\ browser_tcp'.state = 0
      BY <2>3, SocketChanges DEF fin, rst
    <3> QED
      BY <2>3, <3>1 DEF fin, rst, TypeInv
  <2>4. CASE stray(m)
    BY <2>4 DEF stray, TypeInv, TypeOK
  <2> QED
    BY <1>3, <2>1, <2>2, <2>3, <2>4
<1>6. toClient' \in Seq(Segments)
  BY <1>2, SeqMonotonic DEF Answers
<1>7. TypeOK'
  BY <1>4, <1>5, <1>6 DEF TypeInv, TypeOK, pkg, tick, Pieces, Sockets
<1> QED
  BY <1>2, <1>4, <1>5, <1>7 DEF TypeInv

\* The answers of the name server and of the gateway, and the commands.
LEMMA AnswerTypes ==
  ASSUME TypeInv,
         \/ arp_reply \/ apply_static_ip
         \/ \E u \in Urls : command(u) \/ dns_answer(u)
  PROVE  TypeInv'
<1> USE Before
<1>1. CASE arp_reply \/ apply_static_ip
  BY <1>1 DEF arp_reply, apply_static_ip, TypeInv, TypeOK, client, pkg, tick
<1>2. ASSUME NEW u \in Urls, dns_answer(u) PROVE TypeInv'
  <2>1. send_tcp_syn(u, router_mac) /\ toDns' = toDns \ {u}
        /\ UNCHANGED <<router_mac, browser_url, buffer, ended, pkg, tick, saved, toClient,
                 faulted>>
    BY <1>2 DEF dns_answer
  <2>2. /\ browser_tcp' \in Sockets
        /\ browser_tcp'.state # 0 => browser_tcp'.port \in Ports
        /\ conn' \in [Ports -> Conns] /\ toServer' \subseteq Questions
        /\ toArp' \in BOOLEAN
    BY <2>1, SynTypes
  <2>3. TypeOK'
    BY <2>1, <2>2 DEF TypeInv, TypeOK, pkg, tick, Conns, Sockets
  <2> QED
    BY <2>1, <2>2, <2>3 DEF TypeInv
<1>3. ASSUME NEW u \in Urls, command(u) PROVE TypeInv'
  <2>1. /\ router_mac' \in {"none", "known", "cut"} /\ browser_url' = u /\ buffer' = <<>>
        /\ ended' = "no" /\ pkg_download_active' = TRUE
        /\ UNCHANGED <<tick, saved, toClient, faulted>>
    BY <1>3 DEF command, WritesClosed, TypeInv, TypeOK
  <2>2. /\ browser_tcp' \in Sockets
        /\ browser_tcp'.state # 0 => browser_tcp'.port \in Ports
        /\ conn' \in [Ports -> Conns] /\ toServer' \subseteq Questions
        /\ toArp' \in BOOLEAN /\ pkg_target_ip' \in Urls \cup {None}
        /\ toDns' \subseteq Named
    <3>1. CASE u \in Named
      BY <1>3, <3>1 DEF command, TypeInv, TypeOK
    <3>2. CASE u \notin Named
      <4>1. pkg_target_ip' = u /\ send_tcp_syn(u, router_mac') /\ toDns' = toDns
        BY <1>3, <3>2 DEF command
      <4> QED
        BY <4>1, SynTypes DEF TypeInv, TypeOK
    <3> QED
      BY <3>1, <3>2
  <2>3. buffer' \in Seq(Pieces)
    BY <2>1
  <2>4. TypeOK'
    BY <2>1, <2>2, <2>3 DEF TypeInv, TypeOK, tick, Conns, Pieces, Sockets
  <2> QED
    BY <2>1, <2>2, <2>4 DEF TypeInv
<1> QED
  BY <1>1, <1>2, <1>3

\* One frame of the main loop.
LEMMA FrameTypes ==
  ASSUME TypeInv, frame
  PROVE  TypeInv'
<1> USE Before
<1>1. UNCHANGED <<router_mac, browser_url, buffer, pkg_target_ip, toClient, toDns, faulted>>
  BY DEF frame
<1>2. /\ browser_tcp' \in Sockets
      /\ browser_tcp'.state # 0 => browser_tcp'.port \in Ports
      /\ conn' \in [Ports -> Conns] /\ toServer' \subseteq Questions
      /\ toArp' \in BOOLEAN /\ pkg_syn_retry_cooldown' \in 0 .. Frames
  <2>1. CASE UNCHANGED <<browser_tcp, conn, toServer, toArp, pkg_syn_retry_cooldown>>
    BY <2>1 DEF TypeInv, TypeOK
  <2>2. CASE retry
    <3>1. pkg_syn_retry_cooldown \in 0 .. Frames
      BY DEF TypeInv, TypeOK
    <3>2. pkg_syn_retry_cooldown' \in 0 .. Frames
      BY <2>2, <3>1 DEF retry
    <3>3. \/ UNCHANGED <<browser_tcp, conn, toServer, toArp>>
          \/ \E ip, mac : send_tcp_syn(ip, mac)
      BY <2>2 DEF retry
    <3>4. CASE UNCHANGED <<browser_tcp, conn, toServer, toArp>>
      BY <3>2, <3>4 DEF TypeInv, TypeOK
    <3> QED
      BY <3>2, <3>3, <3>4, SynTypes
  <2> QED
    BY <2>1, <2>2 DEF frame
<1>3. /\ ended' \in {"no", "fin", "rst", "idle"} /\ pkg_idle_frames' \in 0 .. Frames + 1
      /\ pkg_last_download_len' \in Nat
  <2>1. /\ ended \in {"no", "fin", "rst", "idle"} /\ pkg_idle_frames \in 0 .. Frames + 1
        /\ pkg_last_download_len \in Nat /\ Len(buffer) \in Nat
    BY LenProperties DEF TypeInv, TypeOK
  <2>2. CASE UNCHANGED <<ended, pkg_last_download_len, pkg_idle_frames>>
    BY <2>1, <2>2
  <2>3. CASE idle
    BY <2>1, <2>3 DEF idle
  <2> QED
    BY <2>2, <2>3 DEF frame
<1>4. pkg_download_active' \in BOOLEAN /\ saved'.segments \in Seq(Pieces)
  <2>1. /\ saved.segments \in Seq(Pieces) /\ pkg_download_active \in BOOLEAN
        /\ Payload(buffer) \in Seq(Pieces)
    BY PayloadFollows DEF TypeInv, TypeOK
  <2>2. \/ UNCHANGED <<pkg_download_active, saved>>
        \/ pkg_download_active' = FALSE /\ saved' = saved
        \/ pkg_download_active' = FALSE /\ saved'.segments = Payload(buffer)
    <3>1. finish
      BY DEF frame
    <3> QED
      BY <3>1 DEF finish
  <2> QED
    BY <2>1, <2>2
<1>5. TypeOK'
  BY <1>1, <1>2, <1>3, <1>4 DEF TypeInv, TypeOK, Conns, Pieces, Sockets
<1> QED
  BY <1>1, <1>2, <1>4, <1>5 DEF TypeInv

\* What a server sends is appended.
LEMMA SendsOne ==
  ASSUME TypeInv, NEW m \in Answers, Sends(m)
  PROVE  toClient' \in Seq(Answers) /\ toClient' = Append(toClient, m)
         /\ toClient' \in Seq(Segments)
<1>1. toClient' \in Seq(Answers) /\ toClient' = Append(toClient, m)
  BY OneMore DEF Sends, TypeInv
<1> QED
  BY <1>1, SeqMonotonic DEF Answers

\* The segments that the servers make.
LEMMA SegmentTypes ==
  ASSUME NEW p \in Ports
  PROVE  /\ \A kind \in {"syn-ack", "rst", "fin"} :
              Segment(kind, p, 0) \in Answers /\ ~ IsData(Segment(kind, p, 0), p)
         /\ \A kind \in {"data", "data-fin"}, k \in 1 .. Length : Segment(kind, p, k) \in Answers
  BY NetAssumption DEF Segment, Answers, Segments, IsData

\* The servers.
LEMMA ServerTypes ==
  ASSUME TypeInv,
         \/ \E m \in toServer : server_get(m)
         \/ \E m \in toServer, answer \in {"syn-ack", "rst"} : server_syn(m, answer)
         \/ \E p \in Ports, kind \in {"data", "data-fin"} : server_send(p, kind)
         \/ \E p \in Ports : server_fin(p)
  PROVE  TypeInv'
<1> USE Before
<1>1. UNCHANGED <<client, toDns, toArp, faulted>>
  BY DEF server_get, server_syn, server_send, server_fin
<1>2. /\ conn' \in [Ports -> Conns] /\ toServer' \subseteq Questions
      /\ toClient' \in Seq(Answers) /\ toClient' \in Seq(Segments)
  <2>0. toServer \subseteq Questions /\ toClient \in Seq(Answers) /\ toClient \in Seq(Segments)
    BY DEF TypeInv, TypeOK
  <2>1. ASSUME NEW m \in toServer, server_get(m)
        PROVE  <1>2!:
    <3>1. m.port \in Ports /\ m.url \in Urls \cup {None}
      BY <2>0 DEF Questions
    <3>2. conn' \in [Ports -> Conns]
      BY <2>1, <3>1, ConnUrl DEF server_get
    <3> QED
      BY <2>0, <2>1, <3>2 DEF server_get
  <2>2. ASSUME NEW m \in toServer, NEW answer \in {"syn-ack", "rst"}, server_syn(m, answer)
        PROVE  <1>2!:
    <3>1. m.port \in Ports /\ (answer = "syn-ack") \in BOOLEAN
      BY <2>0 DEF Questions
    <3>2. conn' \in [Ports -> Conns]
      BY <2>2, <3>1, ConnUp DEF server_syn
    <3>3. Segment(answer, m.port, 0) \in Answers
      BY <3>1, SegmentTypes
    <3> QED
      BY <2>0, <2>2, <3>2, <3>3, SendsOne DEF server_syn
  <2>3. ASSUME NEW p \in Ports, NEW kind \in {"data", "data-fin"}, server_send(p, kind)
        PROVE  <1>2!:
    <3>1. conn[p].sent + 1 \in 1 .. Length /\ conn[p].sent + 1 \in 0 .. Length
          /\ (kind = "data") \in BOOLEAN
      BY <2>3 DEF server_send, Conns
    <3>2. conn' \in [Ports -> Conns]
      BY <2>3, <3>1, ConnSent DEF server_send
    <3>3. Segment(kind, p, conn[p].sent + 1) \in Answers
      BY <3>1, SegmentTypes
    <3> QED
      BY <2>0, <2>3, <3>2, <3>3, SendsOne DEF server_send
  <2>4. ASSUME NEW p \in Ports, server_fin(p)
        PROVE  <1>2!:
    <3>1. conn' \in [Ports -> Conns]
      BY <2>4, ConnUp DEF server_fin
    <3>2. Segment("fin", p, 0) \in Answers
      BY SegmentTypes
    <3> QED
      BY <2>0, <2>4, <3>1, <3>2, SendsOne DEF server_fin
  <2> QED
    BY <2>1, <2>2, <2>3, <2>4
<1>3. TypeOK'
  BY <1>1, <1>2 DEF TypeInv, TypeOK, Conns, client, pkg, tick
<1> QED
  BY <1>1, <1>2, <1>3 DEF TypeInv, client

\* The faults of the network: nothing is under way that was not.
LEMMA FaultTypes ==
  ASSUME TypeInv, lose \/ duplicate \/ reorder
  PROVE  /\ TypeInv' /\ UNCHANGED <<client, conn>> /\ faulted' # 0
         /\ toServer' \subseteq toServer
         /\ \A i \in DOMAIN toClient' : \E j \in DOMAIN toClient : toClient'[i] = toClient[j]
<1>1. /\ UNCHANGED <<client, conn, toArp>> /\ faulted' = faulted + 1 /\ faulted \in Nat
      /\ toServer' \subseteq toServer /\ toDns' \subseteq toDns
  BY DEF lose, duplicate, reorder, Fault, TypeInv
<1>2. toClient \in Seq(Answers) /\ toServer \subseteq Questions
  BY DEF TypeInv
<1>3. /\ toClient' \in Seq(Answers)
      /\ \A i \in DOMAIN toClient' : \E j \in DOMAIN toClient : toClient'[i] = toClient[j]
  <2>1. CASE toClient' = toClient
    BY <1>2, <2>1
  <2>2. ASSUME NEW n \in DOMAIN toClient,
               \/ toClient' = RemoveAt(toClient, n)
               \/ toClient' = <<toClient[n]>> \o RemoveAt(toClient, n)
        PROVE  <1>3!:
    <3> DEFINE r == RemoveAt(toClient, n)
               q == <<toClient[n]>> \o RemoveAt(toClient, n)
    <3>1. /\ r \in Seq(Answers) /\ q \in Seq(Answers)
          /\ \A i \in DOMAIN r : \E j \in DOMAIN toClient : r[i] = toClient[j]
          /\ \A i \in DOMAIN q : \E j \in DOMAIN toClient : q[i] = toClient[j]
      BY <1>2, OneLess
    <3>2. toClient' = r \/ toClient' = q
      BY <2>2
    <3> HIDE DEF r, q
    <3> QED
      BY <3>1, <3>2
  <2>3. ASSUME NEW n \in DOMAIN toClient, Sends(toClient[n]) PROVE <1>3!:
    <3>1. toClient[n] \in Answers
      BY <1>2, ElementOfSeq, LenProperties
    <3>2. toClient' = Append(toClient, toClient[n])
      BY <2>3 DEF Sends
    <3> QED
      BY <1>2, <3>1, <3>2, OneMore
  <2> QED
    BY <2>1, <2>2, <2>3 DEF lose, duplicate, reorder
<1>4. toClient' \in Seq(Segments)
  BY <1>3, SeqMonotonic DEF Answers
<1>5. TypeOK'
  BY <1>1, <1>4 DEF TypeInv, TypeOK, client, pkg, tick
<1> QED
  BY <1>1, <1>2, <1>3, <1>5 DEF TypeInv, client

\* Every step keeps the types.
LEMMA NextTypes == TypeInv /\ [Next]_vars => TypeInv'
<1> SUFFICES ASSUME TypeInv, [Next]_vars PROVE TypeInv'
  OBVIOUS
<1>1. CASE UNCHANGED vars
  BY <1>1 DEF vars, client, net, pkg, tick, TypeInv, TypeOK
<1> QED
  BY <1>1, ReceiverTypes, AnswerTypes, FrameTypes, ServerTypes, FaultTypes DEF Next

\* Whatever the network does and however many connections are opened: no counter
\* leaves its range, no buffer and no file holds a segment that is none.
THEOREM DownloadTypes == Spec => []TypeOK
<1>1. TypeInv => TypeOK
  BY DEF TypeInv
<1> QED
  BY <1>1, InitTypes, NextTypes, PTL DEF Spec

-----------------------------------------------------------------------------
(* One file, one stream.                                                   *)

\* A step that asks for no other stream, and keeps the socket's port and the buffer.
LEMMA StreamsKept ==
  ASSUME StreamInv, TypeInv', browser_tcp'.port = browser_tcp.port,
         \A p \in Ports : Asked(p)' => Asked(p),
         \A p \in Ports : conn[p].used => conn'[p].used,
         buffer' = buffer \/ buffer' = <<>>, OneStream'
  PROVE  StreamInv'
<1>1. Drawn'
  <2>1. \A p \in Ports : ~ conn'[p].used => ~ Asked(p)'
    BY DEF StreamInv, Drawn
  <2>2. browser_tcp'.port \in Ports => conn'[browser_tcp'.port].used
    BY DEF StreamInv, Drawn
  <2>3. ASSUME NEW p \in Ports, ~ conn'[p].used PROVE ~ Asked(p)'
    BY <2>1, <2>3
  <2> QED
    BY <2>2, <2>3 DEF Drawn
<1>2. OneBuffer' /\ ItsBuffer'
  BY DEF StreamInv, OneBuffer, ItsBuffer
<1> QED
  BY <1>1, <1>2 DEF StreamInv

\* A new connection has a port whose stream nobody asked for.
LEMMA SynStreams ==
  ASSUME StreamInv, TypeInv', NEW ip, NEW mac, send_tcp_syn(ip, mac), toClient' = toClient,
         buffer' = buffer \/ buffer' = <<>>, OneStream'
  PROVE  /\ StreamInv' /\ \A p \in Ports : Asked(p)' <=> Asked(p)
         /\ \/ UNCHANGED <<browser_tcp, conn>>
            \/ browser_tcp'.port \in Ports /\ ~ Asked(browser_tcp.port)'
         /\ \A p \in Ports : conn'[p].sent = conn[p].sent
<1>0. TypeInv /\ conn \in [Ports -> Conns]
  BY Before DEF StreamInv
<1>1. CASE mac = "none"
  <2>1. UNCHANGED <<browser_tcp, conn, toServer>>
    BY <1>1 DEF send_tcp_syn
  <2>2. \A p : Asked(p)' <=> Asked(p)
    BY <2>1 DEF Asked, IsData
  <2> QED
    BY <2>1, <2>2, StreamsKept
<1>2. CASE mac # "none"
  <2>1. PICK p \in FreePorts :
         /\ browser_tcp' = [state |-> 1, port |-> p, seq |-> 0]
         /\ conn' = [conn EXCEPT ![p].used = TRUE]
         /\ toServer' = IF Delivered(mac) /\ ip # Nowhere
                        THEN toServer \cup {[kind |-> "syn", port |-> p,
                                             url |-> None, seq |-> 0]}
                        ELSE toServer
    BY <1>2 DEF send_tcp_syn
  <2>2. p \in Ports /\ ~conn[p].used /\ browser_tcp'.port = p
    BY <2>1 DEF FreePorts
  <2>3. /\ conn'[p].used
        /\ \A q \in Ports : conn'[q].url = conn[q].url /\ conn'[q].sent = conn[q].sent
                              /\ (q # p => conn'[q] = conn[q])
    BY <1>0, <2>1, <2>2, ConnDrawn
  <2>4. \A m : m \in toServer' /\ m.kind = "get" <=> m \in toServer /\ m.kind = "get"
    BY <2>1
  <2>5. \A q \in Ports : Asked(q)' <=> Asked(q)
    BY <2>3, <2>4 DEF Asked, IsData
  <2>6. \A q \in Ports : ~ conn[q].used => ~ Asked(q)
    BY DEF StreamInv, Drawn
  <2>7. Drawn'
    <3>1. ASSUME NEW q \in Ports, ~ conn'[q].used PROVE ~ Asked(q)'
      BY <2>3, <2>5, <2>6, <3>1
    <3> QED
      BY <2>2, <2>3, <3>1 DEF Drawn
  <2>8. ~ Asked(p)'
    BY <2>2, <2>5, <2>6
  <2>9. OneBuffer' /\ ItsBuffer'
    <3>1. OneBuffer'
      BY DEF StreamInv, OneBuffer
    <3>2. ItsBuffer'
      BY <2>2, <2>8 DEF ItsBuffer
    <3> QED
      BY <3>1, <3>2
  <2>10. StreamInv'
    BY <2>7, <2>9 DEF StreamInv
  <2>11. browser_tcp'.port \in Ports /\ ~ Asked(browser_tcp.port)'
    BY <2>2, <2>8
  <2>12. \A q \in Ports : conn'[q].sent = conn[q].sent
    BY <2>3
  <2> HIDE DEF StreamInv, Asked
  <2> QED
    BY <2>5, <2>10, <2>11, <2>12
<1> QED
  BY <1>1, <1>2

\* A segment that has come: the stream it asks for finds an empty buffer.
LEMMA ReceiverStreams ==
  ASSUME StreamInv, check_rx
  PROVE  StreamInv'
<1> DEFINE m == Head(toClient)
           t == Tail(toClient)
<1>0. TypeInv /\ TypeInv' /\ conn' = conn /\ saved' = saved
  BY ReceiverTypes DEF StreamInv, check_rx
<1>1. /\ toClient \in Seq(Answers) /\ toClient # <<>> /\ toClient' = t
  BY <1>0 DEF TypeInv, check_rx
<1>2. /\ m = toClient[1] /\ 1 \in DOMAIN toClient /\ m \in Answers
      /\ \A i \in DOMAIN t : i + 1 \in DOMAIN toClient /\ t[i] = toClient[i + 1]
  BY <1>1, HeadAndTail
<1>3. syn_ack(m) \/ data(m) \/ fin(m) \/ rst(m) \/ stray(m)
  BY DEF check_rx
<1>4. browser_tcp \in Sockets /\ buffer \in Seq(Pieces) /\ OneStream'
  BY <1>0, Before DEF StreamInv, OneStream
<1> HIDE DEF m, t
<1>5. ASSUME toServer' = toServer PROVE \A p \in Ports : Asked(p)' => Asked(p)
  BY <1>0, <1>1, <1>2, <1>5 DEF Asked, IsData
<1>6. CASE syn_ack(m)
  <2>1. browser_tcp'.port = browser_tcp.port /\ m.port = browser_tcp.port /\ buffer' = <<>>
        /\ toServer' = toServer \cup Get(m.port)
    BY <1>4, <1>6, SocketChanges DEF syn_ack, Mine
  <2>2. \A p \in Ports : Asked(p)' => Asked(p) \/ p = browser_tcp.port
    BY <1>0, <1>1, <1>2, <2>1 DEF Asked, IsData, Get
  <2>3. Drawn'
    <3>1. ASSUME NEW p \in Ports, ~ conn'[p].used PROVE ~ Asked(p)'
      BY <1>0, <2>2, <3>1 DEF StreamInv, Drawn
    <3>2. browser_tcp'.port \in Ports => conn'[browser_tcp'.port].used
      BY <1>0, <2>1 DEF StreamInv, Drawn
    <3> QED
      BY <3>1, <3>2 DEF Drawn
  <2>4. OneBuffer' /\ ItsBuffer'
    BY <2>1 DEF OneBuffer, ItsBuffer
  <2> QED
    BY <1>0, <1>4, <2>3, <2>4 DEF StreamInv
<1>7. CASE data(m)
  <2>1. /\ UNCHANGED <<browser_tcp, toServer>>
        /\ IsData(m, m.port) /\ m.port = browser_tcp.port /\ browser_tcp.state # 0
        /\ buffer' = buffer \/ buffer' = Append(buffer, <<m.port, m.k>>)
    BY <1>7 DEF data, Mine, IsData
  <2>2. m.port \in Ports /\ m.k \in 1 .. Length
    BY <1>2, <1>7 DEF data, Answers, Segments
  <2>3. Asked(m.port)
    BY <1>2, <2>1 DEF Asked
  <2>4. \A i \in DOMAIN buffer : buffer[i][1] = m.port
    BY <2>1, <2>2, <2>3 DEF StreamInv, ItsBuffer
  <2>5. CASE buffer' = buffer
    BY <1>0, <1>4, <1>5, <2>1, <2>5, StreamsKept
  <2>6. CASE buffer' = Append(buffer, <<m.port, m.k>>)
    <3>1. <<m.port, m.k>> \in Pieces
      BY <2>2 DEF Pieces
    <3>2. \A i \in DOMAIN buffer' : buffer'[i] = <<m.port, m.k>> \/
             \E j \in DOMAIN buffer : buffer'[i] = buffer[j]
      BY <1>4, <2>6, <3>1, OneMore
    <3>3. \A i \in DOMAIN buffer' : buffer'[i][1] = m.port
      BY <2>4, <3>2
    <3>4. Drawn'
      BY <1>0, <1>5, <2>1 DEF StreamInv, Drawn
    <3>5. OneBuffer' /\ ItsBuffer'
      BY <2>1, <3>3 DEF OneBuffer, ItsBuffer
    <3> QED
      BY <1>0, <1>4, <3>4, <3>5 DEF StreamInv
  <2> QED
    BY <2>1, <2>5, <2>6
<1>8. CASE fin(m) \/ rst(m) \/ stray(m)
  <2>1. browser_tcp'.port = browser_tcp.port /\ buffer' = buffer /\ toServer' = toServer
    BY <1>4, <1>8, SocketChanges DEF fin, rst, stray
  <2> QED
    BY <1>0, <1>4, <1>5, <2>1, StreamsKept
<1> QED
  BY <1>3, <1>6, <1>7, <1>8

\* A file that is written is taken from the buffer.
LEMMA FileFromBuffer ==
  ASSUME TypeInv, frame
  PROVE  \/ saved' = saved
         \/ /\ saved'.segments = Payload(buffer) /\ Payload(buffer) # <<>>
            /\ saved'.ended = ended' /\ saved'.url = browser_url
<1>1. finish
  BY DEF frame
<1> QED
  BY <1>1 DEF finish

\* One frame: a file has pieces of the buffer only.
LEMMA FrameStreams ==
  ASSUME StreamInv, frame
  PROVE  StreamInv'
<1>0. TypeInv /\ TypeInv' /\ UNCHANGED <<buffer, toClient>> /\ buffer \in Seq(Pieces)
  BY FrameTypes, Before DEF StreamInv, frame
<1>1. OneStream'
  <2>1. CASE saved' = saved
    BY <2>1 DEF StreamInv, OneStream
  <2>2. CASE saved'.segments = Payload(buffer) /\ Payload(buffer) # <<>>
    <3>1. PICK h \in DOMAIN buffer :
            \A i \in DOMAIN Payload(buffer) :
              h + i \in DOMAIN buffer /\ Payload(buffer)[i] = buffer[h + i]
      BY <1>0, <2>2, PayloadFollows
    <3>2. \A i, j \in DOMAIN buffer : buffer[i][1] = buffer[j][1]
      BY DEF StreamInv, OneBuffer
    <3>3. ASSUME NEW i \in DOMAIN saved'.segments, NEW j \in DOMAIN saved'.segments
          PROVE  saved'.segments[i][1] = saved'.segments[j][1]
      <4>1. /\ h + i \in DOMAIN buffer /\ saved'.segments[i] = buffer[h + i]
            /\ h + j \in DOMAIN buffer /\ saved'.segments[j] = buffer[h + j]
        BY <2>2, <3>1, <3>3
      <4> QED
        BY <3>2, <4>1
    <3> QED
      BY <3>3 DEF OneStream
  <2> QED
    BY <1>0, <2>1, <2>2, FileFromBuffer
<1>2. UNCHANGED <<browser_tcp, conn, toServer>> \/ \E ip, mac : send_tcp_syn(ip, mac)
  BY DEF frame, retry
<1>3. CASE UNCHANGED <<browser_tcp, conn, toServer>>
  <2>1. \A p \in Ports : Asked(p)' <=> Asked(p)
    BY <1>0, <1>3 DEF Asked, IsData
  <2> QED
    BY <1>0, <1>1, <1>3, <2>1, StreamsKept
<1> QED
  BY <1>0, <1>1, <1>2, <1>3, SynStreams

\* The name server, the gateway and the commands.
LEMMA AnswerStreams ==
  ASSUME StreamInv,
         \/ arp_reply \/ apply_static_ip
         \/ \E u \in Urls : command(u) \/ dns_answer(u)
  PROVE  StreamInv'
<1>0. TypeInv /\ TypeInv' /\ UNCHANGED <<toClient, saved>>
  BY AnswerTypes DEF StreamInv, arp_reply, apply_static_ip, command, dns_answer, client
<1>1. OneStream'
  BY <1>0 DEF StreamInv, OneStream
<1>2. buffer' = buffer \/ buffer' = <<>>
  BY DEF arp_reply, apply_static_ip, command, dns_answer, client
<1>3. UNCHANGED <<browser_tcp, conn, toServer>> \/ \E ip, mac : send_tcp_syn(ip, mac)
  BY DEF arp_reply, apply_static_ip, command, dns_answer, client
<1>4. CASE UNCHANGED <<browser_tcp, conn, toServer>>
  <2>1. \A p \in Ports : Asked(p)' <=> Asked(p)
    BY <1>0, <1>4 DEF Asked, IsData
  <2> QED
    BY <1>0, <1>1, <1>2, <1>4, <2>1, StreamsKept
<1> QED
  BY <1>0, <1>1, <1>2, <1>3, <1>4, SynStreams

\* What the servers do to the streams: only server_send adds to one.
LEMMA ServerEffects ==
  ASSUME TypeInv,
         \/ \E m \in toServer : server_get(m)
         \/ \E m \in toServer, answer \in {"syn-ack", "rst"} : server_syn(m, answer)
         \/ \E p \in Ports, kind \in {"data", "data-fin"} : server_send(p, kind)
         \/ \E p \in Ports : server_fin(p)
  PROVE  /\ \A p \in Ports : Asked(p)' => Asked(p)
         /\ \A p \in Ports : conn'[p].used = conn[p].used
         /\ \/ \E p \in Ports, kind \in {"data", "data-fin"} :
                 /\ toClient' = Append(toClient, Segment(kind, p, conn[p].sent + 1))
                 /\ conn'[p].sent = conn[p].sent + 1 /\ conn[p].sent + 1 \in 1 .. Length
                 /\ conn[p].url # None
                 /\ \A q \in Ports : q # p => conn'[q].sent = conn[q].sent
            \/ /\ \A p \in Ports : conn'[p].sent = conn[p].sent
               /\ \/ toClient' = toClient
                  \/ \E p \in Ports, kind \in {"syn-ack", "rst", "fin"} :
                       /\ toClient' = Append(toClient, Segment(kind, p, 0))
                       /\ kind = "fin" => conn[p].sent = Length
<1>0. toServer \subseteq Questions /\ conn \in [Ports -> Conns] /\ toClient \in Seq(Answers)
  BY Before DEF TypeInv
<1>1. \A p \in Ports : \A kind \in {"syn-ack", "rst", "fin"} :
        /\ Segment(kind, p, 0) \in Answers
        /\ \A q : ~ IsData(Segment(kind, p, 0), q)
  BY SegmentTypes DEF IsData, Segment
<1>2. ASSUME NEW m \in toServer, server_get(m)
      PROVE  /\ \A p \in Ports : Asked(p)' => Asked(p)
             /\ \A p \in Ports : conn'[p].used = conn[p].used /\ conn'[p].sent = conn[p].sent
             /\ toClient' = toClient
  <2>1. m.port \in Ports /\ m.url \in Urls \cup {None}
    BY <1>0 DEF Questions
  <2>2. conn' = conn \/ conn' = [conn EXCEPT ![m.port].url = m.url]
    BY <1>2 DEF server_get
  <2>3. \A p \in Ports : /\ conn'[p].used = conn[p].used /\ conn'[p].sent = conn[p].sent
                         /\ p # m.port => conn'[p] = conn[p]
    <3>1. CASE conn' = conn
      BY <3>1
    <3>2. CASE conn' = [conn EXCEPT ![m.port].url = m.url]
      BY <1>0, <2>1, <3>2, ConnUrl
    <3> QED
      BY <2>2, <3>1, <3>2
  <2>4. Asked(m.port)
    BY <1>2 DEF server_get, Asked
  <2>5. toServer' \subseteq toServer /\ toClient' = toClient
    BY <1>2 DEF server_get
  <2>6. \A p \in Ports : p # m.port => (Asked(p)' => Asked(p))
    BY <2>3, <2>5 DEF Asked, IsData
  <2> QED
    BY <2>3, <2>4, <2>5, <2>6
<1>3. ASSUME NEW p \in Ports, NEW kind \in {"syn-ack", "rst", "fin"},
             toClient' = Append(toClient, Segment(kind, p, 0)),
             toServer' \subseteq toServer, NEW b \in BOOLEAN,
             conn' = [conn EXCEPT ![p].up = b]
      PROVE  /\ \A q \in Ports : Asked(q)' => Asked(q)
             /\ \A q \in Ports : conn'[q].used = conn[q].used /\ conn'[q].sent = conn[q].sent
  <2>1. \A q \in Ports : conn'[q].used = conn[q].used /\ conn'[q].sent = conn[q].sent
                           /\ conn'[q].url = conn[q].url
    BY <1>0, <1>3, ConnUp
  <2>2. \A i \in DOMAIN toClient' :
          toClient'[i] = Segment(kind, p, 0) \/
          \E j \in DOMAIN toClient : toClient'[i] = toClient[j]
    BY <1>0, <1>1, <1>3, OneMore
  <2>3. \A q \in Ports : (\E i \in DOMAIN toClient' : IsData(toClient'[i], q))
          => \E i \in DOMAIN toClient : IsData(toClient[i], q)
    BY <1>1, <2>2
  <2>4. \A q \in Ports : Asked(q)' => Asked(q)
    <3>1. ASSUME NEW q \in Ports
          PROVE  Asked(q)' <=> \/ conn'[q].url # None \/ conn'[q].sent # 0
                               \/ \E m \in toServer' : m.kind = "get" /\ m.port = q
                               \/ \E i \in DOMAIN toClient' : IsData(toClient'[i], q)
      BY DEF Asked, IsData
    <3> QED
      BY <1>3, <2>1, <2>3, <3>1 DEF Asked
  <2> QED
    BY <2>1, <2>4
<1>4. ASSUME NEW m \in toServer, NEW answer \in {"syn-ack", "rst"}, server_syn(m, answer)
      PROVE  /\ \A p \in Ports : Asked(p)' => Asked(p)
             /\ \A p \in Ports : conn'[p].used = conn[p].used /\ conn'[p].sent = conn[p].sent
             /\ toClient' = Append(toClient, Segment(answer, m.port, 0)) /\ m.port \in Ports
  <2>1. m.port \in Ports /\ (answer = "syn-ack") \in BOOLEAN
    BY <1>0 DEF Questions
  <2>2. /\ toClient' = Append(toClient, Segment(answer, m.port, 0))
        /\ toServer' \subseteq toServer
        /\ conn' = [conn EXCEPT ![m.port].up = (answer = "syn-ack")]
    BY <1>4 DEF server_syn, Sends
  <2> QED
    BY <1>3, <2>1, <2>2
<1>5. ASSUME NEW p \in Ports, server_fin(p)
      PROVE  /\ \A q \in Ports : Asked(q)' => Asked(q)
             /\ \A q \in Ports : conn'[q].used = conn[q].used /\ conn'[q].sent = conn[q].sent
             /\ toClient' = Append(toClient, Segment("fin", p, 0)) /\ conn[p].sent = Length
  <2>1. /\ toClient' = Append(toClient, Segment("fin", p, 0)) /\ conn[p].sent = Length
        /\ toServer' = toServer /\ conn' = [conn EXCEPT ![p].up = FALSE]
    BY <1>5 DEF server_fin, Sends
  <2> QED
    BY <1>3, <2>1
<1>6. ASSUME NEW p \in Ports, NEW kind \in {"data", "data-fin"}, server_send(p, kind)
      PROVE  /\ \A q \in Ports : Asked(q)' => Asked(q)
             /\ \A q \in Ports : conn'[q].used = conn[q].used
             /\ toClient' = Append(toClient, Segment(kind, p, conn[p].sent + 1))
             /\ conn'[p].sent = conn[p].sent + 1 /\ conn[p].sent + 1 \in 1 .. Length
             /\ conn[p].url # None
             /\ \A q \in Ports : q # p => conn'[q].sent = conn[q].sent
  <2> DEFINE s == Segment(kind, p, conn[p].sent + 1)
  <2>1. /\ toClient' = Append(toClient, s) /\ toServer' = toServer /\ conn[p].url # None
        /\ conn' = [conn EXCEPT ![p].sent = @ + 1, ![p].up = (kind = "data")]
        /\ conn[p].sent < Length
    BY <1>6 DEF server_send, Sends
  <2>2. conn[p].sent + 1 \in 1 .. Length /\ conn[p].sent + 1 \in 0 .. Length
        /\ (kind = "data") \in BOOLEAN
    BY <1>0, <2>1, NetAssumption DEF Conns
  <2>3. /\ conn'[p].sent = conn[p].sent + 1
        /\ \A q \in Ports : conn'[q].url = conn[q].url /\ conn'[q].used = conn[q].used
                              /\ (q # p => conn'[q] = conn[q])
    BY <1>0, <2>1, <2>2, ConnSent
  <2>4. s \in Answers /\ s.port = p
    BY <2>2, SegmentTypes DEF Segment
  <2> HIDE DEF s
  <2>5. \A i \in DOMAIN toClient' :
          toClient'[i] = s \/ \E j \in DOMAIN toClient : toClient'[i] = toClient[j]
    BY <1>0, <2>1, <2>4, OneMore
  <2>6. Asked(p)
    BY <2>1 DEF Asked
  <2>7. ASSUME NEW q \in Ports, q # p, Asked(q)' PROVE Asked(q)
    <3>1. \A i \in DOMAIN toClient' : IsData(toClient'[i], q) =>
            \E j \in DOMAIN toClient : IsData(toClient[j], q)
      BY <2>4, <2>5, <2>7 DEF IsData
    <3>2. \/ conn'[q].url # None \/ conn'[q].sent # 0
          \/ \E m \in toServer' : m.kind = "get" /\ m.port = q
          \/ \E i \in DOMAIN toClient' : IsData(toClient'[i], q)
      BY <2>7 DEF Asked, IsData
    <3> QED
      BY <2>1, <2>3, <2>7, <3>1, <3>2 DEF Asked
  <2> QED
    BY <2>1, <2>2, <2>3, <2>6, <2>7 DEF s
<1> QED
  BY <1>2, <1>4, <1>5, <1>6

\* The server's steps add no segment of a port that nobody asked.
LEMMA ServerStreams ==
  ASSUME StreamInv,
         \/ \E m \in toServer : server_get(m)
         \/ \E m \in toServer, answer \in {"syn-ack", "rst"} : server_syn(m, answer)
         \/ \E p \in Ports, kind \in {"data", "data-fin"} : server_send(p, kind)
         \/ \E p \in Ports : server_fin(p)
  PROVE  StreamInv'
<1>1. TypeInv /\ TypeInv' /\ UNCHANGED <<browser_tcp, buffer, saved>>
  BY ServerTypes DEF StreamInv, server_get, server_syn, server_send, server_fin, client
<1>2. OneStream'
  BY <1>1 DEF StreamInv, OneStream
<1>3. /\ \A p \in Ports : Asked(p)' => Asked(p)
      /\ \A p \in Ports : conn'[p].used = conn[p].used
  BY <1>1, ServerEffects
<1> QED
  BY <1>1, <1>2, <1>3, StreamsKept

\* Losing, repeating and reordering add no segment.
LEMMA FaultStreams ==
  ASSUME StreamInv, lose \/ duplicate \/ reorder
  PROVE  StreamInv'
<1>1. /\ TypeInv' /\ UNCHANGED <<browser_tcp, buffer, saved, conn>> /\ toServer' \subseteq toServer
      /\ \A i \in DOMAIN toClient' : \E j \in DOMAIN toClient : toClient'[i] = toClient[j]
  BY FaultTypes DEF StreamInv, client
<1>2. \A p \in Ports : Asked(p)' => Asked(p)
  BY <1>1 DEF Asked, IsData
<1>3. OneStream'
  BY <1>1 DEF StreamInv, OneStream
<1> QED
  BY <1>1, <1>2, <1>3, StreamsKept

\* Every step keeps the streams apart.
LEMMA NextStreams == StreamInv /\ [Next]_vars => StreamInv'
<1> SUFFICES ASSUME StreamInv, [Next]_vars PROVE StreamInv'
  OBVIOUS
<1>1. CASE UNCHANGED vars
  <2>1. /\ TypeInv' /\ UNCHANGED <<browser_tcp, buffer, saved, conn, toServer, toClient>>
    BY <1>1, NextTypes DEF StreamInv, vars, client, net
  <2>2. \A p \in Ports : Asked(p)' => Asked(p)
    BY <2>1 DEF Asked, IsData
  <2>3. OneStream'
    BY <2>1 DEF StreamInv, OneStream
  <2> QED
    BY <2>1, <2>2, <2>3, StreamsKept
<1> QED
  BY <1>1, ReceiverStreams, AnswerStreams, FrameStreams, ServerStreams, FaultStreams DEF Next

\* No stream at the start.
LEMMA InitStreams == Init => StreamInv
<1> SUFFICES ASSUME Init PROVE StreamInv
  OBVIOUS
<1>1. TypeInv
  BY InitTypes
<1>2. \A p \in Ports : ~ Asked(p)
  BY DEF Init, Asked
<1>3. Drawn /\ OneBuffer /\ ItsBuffer
  BY <1>2, NetAssumption DEF Init, Drawn, OneBuffer, ItsBuffer
<1>4. OneStream
  BY DEF Init, OneStream, NoFile
<1> QED
  BY <1>1, <1>3, <1>4 DEF StreamInv

\* A file never mixes two streams, whatever the network loses, repeats or reorders,
\* and however many connections are opened one over the other: a stream is asked for
\* when its SYN-ACK empties the buffer, and its segments count for its port only.
THEOREM StreamsAreNotMixed == Spec => []OneStream
<1>1. StreamInv => OneStream
  BY DEF StreamInv
<1> QED
  BY <1>1, InitStreams, NextStreams, PTL DEF Spec

-----------------------------------------------------------------------------
(* A network that loses nothing: no gap, and with the FIN the whole stream. *)

\* The numbers of what is under way and of what has come.
LEMMA Numbers ==
  ASSUME TypeInv
  PROVE  /\ Length \in Nat \ {0} /\ BufferSize \in Nat
         /\ \A p \in Ports : conn[p].sent \in 0 .. Length
         /\ toClient \in Seq(Answers) /\ DOMAIN toClient \subseteq Nat \ {0}
         /\ \A i \in DOMAIN toClient : toClient[i].port \in Ports /\ toClient[i].k \in 0 .. Length
         /\ buffer \in Seq(Pieces) /\ Len(buffer) \in Nat /\ DOMAIN buffer = 1 .. Len(buffer)
         /\ \A i \in DOMAIN buffer : buffer[i][2] \in 1 .. Length
         /\ buffer # <<>> => 1 \in DOMAIN buffer /\ Len(buffer) \in DOMAIN buffer
<1>1. /\ conn \in [Ports -> Conns] /\ buffer \in Seq(Pieces) /\ toClient \in Seq(Answers)
      /\ Length \in Nat \ {0} /\ BufferSize \in Nat
  BY Before, NetAssumption DEF TypeInv
<1>2. /\ Len(toClient) \in Nat /\ DOMAIN toClient = 1 .. Len(toClient)
      /\ Len(buffer) \in Nat /\ DOMAIN buffer = 1 .. Len(buffer)
      /\ buffer # <<>> => Len(buffer) # 0
  BY <1>1, LenProperties, EmptySeq
<1>3. \A i \in DOMAIN toClient : toClient[i] \in Answers
  BY <1>1, <1>2, ElementOfSeq
<1>4. \A i \in DOMAIN buffer : buffer[i] \in Pieces
  BY <1>1, <1>2, ElementOfSeq
<1>5. \A i \in DOMAIN toClient : toClient[i].port \in Ports /\ toClient[i].k \in 0 .. Length
  BY <1>3 DEF Answers, Segments
<1>6. \A i \in DOMAIN buffer : buffer[i][2] \in 1 .. Length
  BY <1>4 DEF Pieces
<1>7. \A p \in Ports : conn[p].sent \in 0 .. Length
  BY <1>1 DEF Conns
<1>8. DOMAIN toClient \subseteq Nat \ {0}
  BY <1>2
<1>9. buffer # <<>> => 1 \in DOMAIN buffer /\ Len(buffer) \in DOMAIN buffer
  BY <1>2
<1> QED
  BY <1>1, <1>2, <1>5, <1>6, <1>7, <1>8, <1>9

\* Nothing is sent and nothing comes.
LEMMA WayKept ==
  ASSUME TypeInv, InSequence, FinLast, toClient' = toClient,
         \A p \in Ports : conn'[p].sent = conn[p].sent
  PROVE  InSequence' /\ FinLast'
<1>1. InSequence'
  BY DEF InSequence
<1>2. FinLast'
  BY Numbers DEF FinLast
<1> QED
  BY <1>1, <1>2

\* The first segment is taken: the others keep their order.
LEMMA WayTaken ==
  ASSUME TypeInv, InSequence, FinLast, toClient # <<>>, toClient' = Tail(toClient),
         conn' = conn
  PROVE  InSequence' /\ FinLast'
<1> DEFINE t == Tail(toClient)
<1>1. /\ DOMAIN toClient \subseteq Nat \ {0} /\ DOMAIN t \subseteq Nat \ {0}
      /\ \A i \in DOMAIN t : i + 1 \in DOMAIN toClient /\ t[i] = toClient[i + 1]
      /\ \A i \in DOMAIN toClient : i # 1 => i - 1 \in DOMAIN t /\ toClient[i] = t[i - 1]
  BY Numbers, HeadAndTail
<1>2. toClient' = t
  OBVIOUS
<1> HIDE DEF t
<1>3. InSequence'
  <2>1. ASSUME NEW i \in DOMAIN t, NEW p \in Ports, IsData(t[i], p)
        PROVE  /\ t[i].k <= conn[p].sent
               /\ \A k \in t[i].k + 1 .. conn[p].sent :
                    \E j \in DOMAIN t : j > i /\ IsData(t[j], p) /\ t[j].k = k
               /\ \A j \in DOMAIN t : j > i /\ IsData(t[j], p) => t[j].k > t[i].k
    <3>1. i + 1 \in DOMAIN toClient /\ t[i] = toClient[i + 1] /\ IsData(toClient[i + 1], p)
      BY <1>1, <2>1
    <3>2. t[i].k <= conn[p].sent
      BY <3>1 DEF InSequence
    <3>3. ASSUME NEW k \in t[i].k + 1 .. conn[p].sent
          PROVE  \E j \in DOMAIN t : j > i /\ IsData(t[j], p) /\ t[j].k = k
      <4>1. PICK j \in DOMAIN toClient :
              j > i + 1 /\ IsData(toClient[j], p) /\ toClient[j].k = k
        BY <3>1, <3>3 DEF InSequence
      <4>2. j - 1 \in DOMAIN t /\ toClient[j] = t[j - 1] /\ j - 1 > i
        BY <1>1, <4>1
      <4> QED
        BY <4>1, <4>2
    <3>4. ASSUME NEW j \in DOMAIN t, j > i, IsData(t[j], p) PROVE t[j].k > t[i].k
      <4>1. j + 1 \in DOMAIN toClient /\ t[j] = toClient[j + 1] /\ j + 1 > i + 1
        BY <1>1, <3>4
      <4> QED
        BY <3>1, <3>4, <4>1 DEF InSequence
    <3> QED
      BY <3>2, <3>3, <3>4
  <2> QED
    BY <1>2, <2>1 DEF InSequence
<1>4. FinLast'
  <2>1. ASSUME NEW i \in DOMAIN t, t[i].kind = "fin"
        PROVE  /\ conn[t[i].port].sent = Length
               /\ \A j \in DOMAIN t : IsData(t[j], t[i].port) => j < i
    <3>1. i + 1 \in DOMAIN toClient /\ t[i] = toClient[i + 1]
      BY <1>1, <2>1
    <3>2. /\ conn[t[i].port].sent = Length
          /\ \A j \in DOMAIN toClient : IsData(toClient[j], t[i].port) => j < i + 1
      BY <2>1, <3>1 DEF FinLast
    <3>3. ASSUME NEW j \in DOMAIN t, IsData(t[j], t[i].port) PROVE j < i
      <4>1. j + 1 \in DOMAIN toClient /\ t[j] = toClient[j + 1] /\ j + 1 < i + 1
        BY <1>1, <3>2, <3>3
      <4> QED
        BY <1>1, <4>1
    <3> QED
      BY <3>2, <3>3
  <2> QED
    BY <1>2, <2>1 DEF FinLast
<1> QED
  BY <1>3, <1>4

\* A segment without data is sent.
LEMMA WayClosed ==
  ASSUME TypeInv, InSequence, FinLast, NEW p \in Ports,
         NEW kind \in {"syn-ack", "rst", "fin"},
         toClient' = Append(toClient, Segment(kind, p, 0)),
         kind = "fin" => conn[p].sent = Length,
         \A q \in Ports : conn'[q].sent = conn[q].sent
  PROVE  InSequence' /\ FinLast'
<1> DEFINE s == Segment(kind, p, 0)
           t == Append(toClient, s)
           n == Len(toClient) + 1
<1>1. s \in Answers /\ s.kind = kind /\ s.port = p /\ \A q : ~ IsData(s, q)
  BY SegmentTypes DEF Segment, IsData
<1>2. toClient' = t
  OBVIOUS
<1> HIDE DEF s
<1>3. /\ Len(toClient) \in Nat /\ DOMAIN toClient = 1 .. Len(toClient) /\ DOMAIN t = 1 .. n
      /\ t[n] = s /\ \A i \in DOMAIN toClient : i \in DOMAIN t /\ i < n /\ t[i] = toClient[i]
      /\ \A i \in DOMAIN t : i \in DOMAIN toClient \/ i = n
  BY <1>1, Numbers, OneMore
<1>4. \A i \in DOMAIN toClient : toClient[i].port \in Ports
  BY Numbers
<1> HIDE DEF t, n
<1>5. InSequence'
  <2>1. ASSUME NEW i \in DOMAIN t, NEW q \in Ports, IsData(t[i], q)
        PROVE  /\ t[i].k <= conn[q].sent
               /\ \A k \in t[i].k + 1 .. conn[q].sent :
                    \E j \in DOMAIN t : j > i /\ IsData(t[j], q) /\ t[j].k = k
               /\ \A j \in DOMAIN t : j > i /\ IsData(t[j], q) => t[j].k > t[i].k
    <3>1. i \in DOMAIN toClient /\ t[i] = toClient[i]
      BY <1>1, <1>3, <2>1
    <3>2. /\ t[i].k <= conn[q].sent
          /\ \A k \in t[i].k + 1 .. conn[q].sent : \E j \in DOMAIN toClient :
               j > i /\ IsData(toClient[j], q) /\ toClient[j].k = k
          /\ \A j \in DOMAIN toClient : j > i /\ IsData(toClient[j], q) =>
               toClient[j].k > t[i].k
      BY <2>1, <3>1 DEF InSequence
    <3>3. \A j \in DOMAIN t : IsData(t[j], q) => j \in DOMAIN toClient /\ t[j] = toClient[j]
      BY <1>1, <1>3
    <3> QED
      BY <1>3, <3>2, <3>3
  <2> QED
    BY <1>2, <2>1 DEF InSequence
<1>6. FinLast'
  <2>1. ASSUME NEW i \in DOMAIN t, t[i].kind = "fin"
        PROVE  /\ t[i].port \in Ports /\ conn[t[i].port].sent = Length
               /\ \A j \in DOMAIN t : IsData(t[j], t[i].port) => j < i
    <3>1. \A q : \A j \in DOMAIN t : IsData(t[j], q) =>
            j \in DOMAIN toClient /\ t[j] = toClient[j] /\ j < n
      BY <1>1, <1>3
    <3>2. CASE i = n
      BY <1>1, <1>3, <2>1, <3>1, <3>2
    <3>3. CASE i \in DOMAIN toClient
      BY <1>3, <1>4, <2>1, <3>1, <3>3 DEF FinLast
    <3> QED
      BY <1>3, <3>2, <3>3
  <2> QED
    BY <1>2, <2>1 DEF FinLast
<1> QED
  BY <1>5, <1>6

\* The next piece of a stream is sent.
LEMMA WaySent ==
  ASSUME TypeInv, InSequence, FinLast, NEW p \in Ports, NEW kind \in {"data", "data-fin"},
         toClient' = Append(toClient, Segment(kind, p, conn[p].sent + 1)),
         conn'[p].sent = conn[p].sent + 1, conn[p].sent + 1 \in 1 .. Length,
         \A q \in Ports : q # p => conn'[q].sent = conn[q].sent
  PROVE  InSequence' /\ FinLast'
<1> DEFINE N == conn[p].sent + 1
           s == Segment(kind, p, N)
           t == Append(toClient, s)
           n == Len(toClient) + 1
<1>1. /\ s \in Answers /\ s.kind = kind /\ s.port = p /\ s.k = N
      /\ \A q : IsData(s, q) <=> q = p
  BY SegmentTypes DEF Segment, IsData
<1>2. toClient' = t /\ conn'[p].sent = N /\ N \in 1 .. Length /\ conn[p].sent = N - 1
  BY Numbers
<1> HIDE DEF s, N
<1>3. /\ Len(toClient) \in Nat /\ DOMAIN toClient = 1 .. Len(toClient) /\ DOMAIN t = 1 .. n
      /\ t[n] = s /\ \A i \in DOMAIN toClient : i \in DOMAIN t /\ i < n /\ t[i] = toClient[i]
      /\ \A i \in DOMAIN t : i \in DOMAIN toClient \/ i = n
      /\ n \in DOMAIN t
  BY <1>1, Numbers, OneMore
<1>4. \A i \in DOMAIN toClient : toClient[i].port \in Ports /\ toClient[i].k \in Nat
  BY Numbers
<1>5. Length \in Nat /\ \A q \in Ports : conn[q].sent \in 0 .. Length
  BY Numbers
<1> HIDE DEF t, n
<1>6. InSequence'
  <2>1. ASSUME NEW i \in DOMAIN t, NEW q \in Ports, IsData(t[i], q)
        PROVE  /\ t[i].k <= conn'[q].sent
               /\ \A k \in t[i].k + 1 .. conn'[q].sent :
                    \E j \in DOMAIN t : j > i /\ IsData(t[j], q) /\ t[j].k = k
               /\ \A j \in DOMAIN t : j > i /\ IsData(t[j], q) => t[j].k > t[i].k
    <3>1. CASE i = n
      <4>1. q = p /\ t[i].k = N /\ \A j \in DOMAIN t : ~ (j > i)
        BY <1>1, <1>3, <2>1, <3>1
      <4> QED
        BY <1>2, <4>1
    <3>2. CASE i \in DOMAIN toClient
      <4>1. t[i] = toClient[i] /\ IsData(toClient[i], q)
        BY <1>3, <2>1, <3>2
      <4>2. /\ t[i].k <= conn[q].sent
            /\ \A k \in t[i].k + 1 .. conn[q].sent : \E j \in DOMAIN toClient :
                 j > i /\ IsData(toClient[j], q) /\ toClient[j].k = k
            /\ \A j \in DOMAIN toClient : j > i /\ IsData(toClient[j], q) =>
                 toClient[j].k > t[i].k
        BY <3>2, <4>1 DEF InSequence
      <4>3. \A k \in t[i].k + 1 .. conn[q].sent :
              \E j \in DOMAIN t : j > i /\ IsData(t[j], q) /\ t[j].k = k
        BY <1>3, <4>2
      <4>4. t[i].k \in Nat
        BY <1>4, <3>2, <4>1
      <4>5. CASE q # p
        <5>1. conn'[q].sent = conn[q].sent
          BY <4>5
        <5>2. \A j \in DOMAIN t : IsData(t[j], q) => j \in DOMAIN toClient /\ t[j] = toClient[j]
          BY <1>1, <1>3, <4>5
        <5> QED
          BY <4>2, <4>3, <5>1, <5>2
      <4>6. CASE q = p
        <5>1. t[i].k <= N /\ t[i].k < N
          BY <1>2, <4>2, <4>4, <4>6
        <5>2. ASSUME NEW k \in t[i].k + 1 .. N
              PROVE  \E j \in DOMAIN t : j > i /\ IsData(t[j], q) /\ t[j].k = k
          <6>1. CASE k = N
            BY <1>1, <1>3, <3>2, <4>6, <6>1
          <6>2. CASE k # N
            <7>1. k \in t[i].k + 1 .. conn[q].sent
              BY <1>2, <4>4, <4>6, <6>2
            <7> QED
              BY <4>3, <7>1
          <6> QED
            BY <6>1, <6>2
        <5>3. ASSUME NEW j \in DOMAIN t, j > i, IsData(t[j], q) PROVE t[j].k > t[i].k
          <6>1. CASE j = n
            BY <1>1, <1>2, <1>3, <4>4, <5>1, <6>1
          <6>2. CASE j \in DOMAIN toClient
            BY <1>3, <4>2, <5>3, <6>2
          <6> QED
            BY <1>3, <6>1, <6>2
        <5> QED
          BY <1>2, <4>6, <5>1, <5>2, <5>3
      <4> QED
        BY <4>5, <4>6
    <3> QED
      BY <1>3, <3>1, <3>2
  <2> QED
    BY <1>2, <2>1 DEF InSequence
<1>7. FinLast'
  <2>1. ASSUME NEW i \in DOMAIN t, t[i].kind = "fin"
        PROVE  /\ conn'[t[i].port].sent = Length
               /\ \A j \in DOMAIN t : IsData(t[j], t[i].port) => j < i
    <3>1. i \in DOMAIN toClient /\ t[i] = toClient[i]
      BY <1>1, <1>3, <2>1
    <3>2. /\ conn[t[i].port].sent = Length /\ t[i].port \in Ports
          /\ \A j \in DOMAIN toClient : IsData(toClient[j], t[i].port) => j < i
      BY <1>4, <2>1, <3>1 DEF FinLast
    <3>3. t[i].port # p
      BY <1>2, <1>5, <3>2
    <3>4. \A j \in DOMAIN t : IsData(t[j], t[i].port) =>
            j \in DOMAIN toClient /\ t[j] = toClient[j]
      BY <1>1, <1>3, <3>3
    <3> QED
      BY <3>2, <3>3, <3>4
  <2> QED
    BY <1>2, <2>1 DEF FinLast
<1> QED
  BY <1>6, <1>7

\* A step that sends nothing and takes nothing: the buffer is kept or emptied, and the
\* connection is the same, or a new one that is asked for nothing yet.
LEMMA OrderKept ==
  ASSUME OrderInv, UNCHANGED <<toClient, faulted>>,
         \A p \in Ports : conn'[p].sent = conn[p].sent,
         ended' = "fin" => ended = "fin",
         buffer' = buffer \/ buffer' = <<>>,
         \/ browser_tcp' = browser_tcp /\ \A p \in Ports : Asked(p)' => Asked(p)
         \/ ~ Asked(browser_tcp.port)'
  PROVE  Closed' /\ InOrder'
<1>0. TypeInv /\ (browser_tcp.state # 0 => browser_tcp.port \in Ports)
  BY DEF OrderInv, StreamInv, TypeInv
<1>1. Closed'
  BY <1>0 DEF OrderInv, Closed
<1>2. ASSUME faulted = 0 PROVE InSequence' /\ FinLast' /\ Run(buffer)' /\ NextPiece' /\ Whole'
  <2>1. InSequence /\ FinLast /\ Run(buffer) /\ NextPiece /\ Whole
    BY <1>2 DEF OrderInv, InOrder
  <2>2. InSequence' /\ FinLast'
    BY <1>0, <2>1, WayKept
  <2>3. Run(buffer)'
    BY <2>1 DEF Run
  <2>4. Whole'
    BY <2>1 DEF Whole, LastPiece
  <2>5. NextPiece'
    <3>1. CASE ~ (browser_tcp'.state # 0 /\ Asked(browser_tcp.port)' /\ buffer' # <<>>)
      BY <3>1 DEF NextPiece
    <3>2. CASE browser_tcp'.state # 0 /\ Asked(browser_tcp.port)' /\ buffer' # <<>>
      <4>1. browser_tcp' = browser_tcp /\ buffer' = buffer /\ Asked(browser_tcp.port)
            /\ conn'[browser_tcp.port].sent = conn[browser_tcp.port].sent
        BY <1>0, <3>2
      <4> QED
        BY <2>1, <4>1 DEF NextPiece, LastPiece
    <3> QED
      BY <3>1, <3>2
  <2> QED
    BY <2>2, <2>3, <2>4, <2>5
<1> QED
  BY <1>1, <1>2 DEF InOrder

\* One more piece of the open stream comes: the run goes on with the next number.
LEMMA RunGoesOn ==
  ASSUME TypeInv, InSequence, NextPiece, Run(buffer), toClient # <<>>,
         IsData(toClient[1], browser_tcp.port), browser_tcp.state # 0,
         Asked(browser_tcp.port), Len(buffer) + 1 < BufferSize,
         buffer' = Append(buffer, <<browser_tcp.port, toClient[1].k>>),
         toClient[1].k # 0
  PROVE  Run(buffer)' /\ buffer' # <<>> /\ LastPiece' = toClient[1].k
<1> DEFINE P == browser_tcp.port
           K == toClient[1].k
           n == Len(buffer)
           e == <<P, K>>
           b == Append(buffer, e)
<1>1. /\ 1 \in DOMAIN toClient /\ P \in Ports /\ K \in 1 .. Length /\ e \in Pieces
      /\ e[2] = K /\ Length \in Nat
  <2>1. 1 \in DOMAIN toClient
    BY Numbers, HeadAndTail
  <2>2. P \in Ports /\ K \in 1 .. Length /\ Length \in Nat
    BY <2>1, Numbers DEF TypeInv
  <2> QED
    BY <2>1, <2>2 DEF Pieces
<1>2. buffer' = b
  OBVIOUS
<1>3. /\ b # <<>> /\ n \in Nat /\ Len(b) = n + 1 /\ DOMAIN buffer = 1 .. n
      /\ DOMAIN b = 1 .. n + 1 /\ b[n + 1] = e
      /\ \A i \in DOMAIN buffer : i < n + 1 /\ b[i] = buffer[i]
      /\ \A i \in DOMAIN b : i \in DOMAIN buffer \/ i = n + 1
  <2> HIDE DEF e
  <2> QED
    BY <1>1, Numbers, OneMore
<1>4. /\ \A i \in DOMAIN buffer : buffer[i][2] \in Nat
      /\ buffer # <<>> => 1 \in DOMAIN buffer /\ n \in DOMAIN buffer
  BY Numbers
<1>5. LastPiece' = K
  BY <1>1, <1>2, <1>3 DEF LastPiece
<1>6. CASE buffer = <<>>
  <2>1. n = 0
    BY <1>6
  <2>2. \A i \in DOMAIN b : i = 1 /\ b[i][2] = b[1][2] + i - 1
    BY <1>1, <1>3, <2>1
  <2> QED
    BY <1>2, <1>3, <1>5, <2>2 DEF Run
<1>7. CASE buffer # <<>>
  <2> DEFINE l == LastPiece
  <2>1. /\ l \in Nat /\ l = buffer[1][2] + n - 1
    BY <1>4, <1>7 DEF LastPiece, Run
  <2>2. /\ l <= conn[P].sent
        /\ \A k \in l + 1 .. conn[P].sent :
             \E i \in DOMAIN toClient : IsData(toClient[i], P) /\ toClient[i].k = k
        /\ K > l
    BY <1>1, <1>7 DEF NextPiece
  <2>3. /\ K <= conn[P].sent
        /\ \A j \in DOMAIN toClient : j > 1 /\ IsData(toClient[j], P) => toClient[j].k > K
    BY <1>1 DEF InSequence
  <2> HIDE DEF l
  <2>4. K = l + 1
    <3>1. conn[P].sent \in Nat /\ DOMAIN toClient \subseteq Nat \ {0}
      BY <1>1, Numbers
    <3>2. l + 1 \in l + 1 .. conn[P].sent
      BY <1>1, <2>1, <2>2, <2>3, <3>1
    <3>3. PICK i \in DOMAIN toClient : IsData(toClient[i], P) /\ toClient[i].k = l + 1
      BY <2>2, <3>2
    <3>4. i = 1 \/ i > 1
      BY <3>1
    <3>5. ~ (l + 1 > K)
      BY <1>1, <2>1, <2>2
    <3> QED
      BY <2>3, <3>3, <3>4, <3>5
  <2>5. b[1] = buffer[1] /\ b[1][2] \in Nat
    BY <1>3, <1>4, <1>7
  <2>6. ASSUME NEW i \in DOMAIN b PROVE b[i][2] = b[1][2] + i - 1
    <3>1. CASE i = n + 1
      BY <1>1, <1>3, <2>1, <2>4, <2>5, <3>1
    <3>2. CASE i \in DOMAIN buffer
      BY <1>3, <2>5, <3>2 DEF Run
    <3> QED
      BY <1>3, <3>1, <3>2
  <2> QED
    BY <1>2, <1>3, <1>5, <2>6 DEF Run
<1> QED
  BY <1>6, <1>7

\* The FIN of the open connection comes when the last piece is in the buffer.
LEMMA FinIsLast ==
  ASSUME TypeInv, FinLast, NextPiece, Run(buffer), toClient # <<>>,
         toClient[1].kind = "fin", toClient[1].port = browser_tcp.port,
         browser_tcp.state # 0, buffer # <<>>, Length < BufferSize
  PROVE  LastPiece = Length
<1> DEFINE P == browser_tcp.port
           l == LastPiece
           n == Len(buffer)
<1>1. /\ 1 \in DOMAIN toClient /\ DOMAIN toClient \subseteq Nat \ {0} /\ P \in Ports
      /\ Length \in Nat \ {0} /\ BufferSize \in Nat
  BY Numbers, HeadAndTail DEF TypeInv
<1>2. conn[P].sent = Length /\ \A j \in DOMAIN toClient : ~ IsData(toClient[j], P)
  <2>1. conn[P].sent = Length /\ \A j \in DOMAIN toClient : IsData(toClient[j], P) => j < 1
    BY <1>1 DEF FinLast
  <2>2. \A j \in DOMAIN toClient : ~ (j < 1)
    BY <1>1
  <2> QED
    BY <2>1, <2>2
<1>3. Asked(P)
  BY <1>1, <1>2 DEF Asked
<1>4. /\ n \in Nat \ {0} /\ l \in 1 .. Length /\ buffer[1][2] \in 1 .. Length
      /\ l = buffer[1][2] + n - 1
  <2>1. /\ n \in Nat /\ 1 \in DOMAIN buffer /\ n \in DOMAIN buffer /\ DOMAIN buffer = 1 .. n
        /\ \A i \in DOMAIN buffer : buffer[i][2] \in 1 .. Length
    BY Numbers
  <2> QED
    BY <2>1 DEF Run, LastPiece
<1>5. CASE n + 1 < BufferSize
  <2>1. \A k \in l + 1 .. conn[P].sent :
          \E i \in DOMAIN toClient : IsData(toClient[i], P) /\ toClient[i].k = k
    BY <1>3, <1>5 DEF NextPiece
  <2>2. ~ (l + 1 \in l + 1 .. Length)
    BY <1>2, <2>1
  <2> HIDE DEF l
  <2>3. l = Length
    BY <1>1, <1>4, <2>2
  <2> QED
    BY <2>3 DEF l
<1>6. CASE ~ (n + 1 < BufferSize)
  <2> HIDE DEF l, n
  <2>1. l = Length
    BY <1>1, <1>4, <1>6
  <2> QED
    BY <2>1 DEF l
<1> QED
  BY <1>5, <1>6

\* A segment that has come.
LEMMA ReceiverOrder ==
  ASSUME OrderInv, check_rx
  PROVE  OrderInv'
<1> DEFINE m == Head(toClient)
           t == Tail(toClient)
<1>0. /\ TypeInv /\ StreamInv' /\ conn' = conn /\ saved' = saved /\ faulted' = faulted
      /\ StreamInv /\ Closed
  BY ReceiverStreams DEF OrderInv, StreamInv, check_rx
<1>1. toClient \in Seq(Answers) /\ toClient # <<>> /\ toClient' = t
  BY <1>0 DEF TypeInv, check_rx
<1>2. /\ m = toClient[1] /\ 1 \in DOMAIN toClient /\ m \in Answers
      /\ DOMAIN toClient \subseteq Nat \ {0} /\ DOMAIN t \subseteq Nat \ {0}
      /\ \A i \in DOMAIN t : i + 1 \in DOMAIN toClient /\ t[i] = toClient[i + 1]
      /\ \A i \in DOMAIN toClient : i # 1 => i - 1 \in DOMAIN t /\ toClient[i] = t[i - 1]
  BY <1>1, HeadAndTail
<1>3. syn_ack(m) \/ data(m) \/ fin(m) \/ rst(m) \/ stray(m)
  BY DEF check_rx
<1>4. browser_tcp \in Sockets /\ buffer \in Seq(Pieces)
  BY <1>0, Before
<1> HIDE DEF m, t
<1>5. ASSUME toServer' = toServer PROVE \A p \in Ports : Asked(p)' => Asked(p)
  BY <1>0, <1>1, <1>2, <1>5 DEF Asked, IsData
<1>6. NoGap' /\ WholeAfterFin'
  BY <1>0 DEF OrderInv, NoGap, WholeAfterFin
<1>7. ASSUME faulted = 0
      PROVE  /\ InSequence /\ FinLast /\ Run(buffer) /\ NextPiece /\ Whole
             /\ InSequence' /\ FinLast'
  <2>1. InSequence /\ FinLast /\ Run(buffer) /\ NextPiece /\ Whole
    BY <1>7 DEF OrderInv, InOrder
  <2> QED
    BY <1>0, <1>1, <2>1, WayTaken DEF t
<1>8. CASE syn_ack(m)
  <2>1. buffer' = <<>> /\ ended' = "no"
    BY <1>8 DEF syn_ack
  <2>2. Closed' /\ Run(buffer)' /\ NextPiece' /\ Whole'
    BY <2>1 DEF Closed, Run, NextPiece, Whole
  <2>3. InOrder'
    BY <1>0, <1>7, <2>2 DEF InOrder
  <2> QED
    BY <1>0, <1>6, <2>2, <2>3 DEF OrderInv
<1>9. CASE data(m)
  <2>1. /\ UNCHANGED <<browser_tcp, toServer, ended>> /\ browser_tcp.state # 0
        /\ IsData(m, browser_tcp.port) /\ m.port = browser_tcp.port
        /\ buffer' = IF Len(buffer) + 1 < BufferSize
                     THEN Append(buffer, <<browser_tcp.port, m.k>>) ELSE buffer
    BY <1>9 DEF data, Mine, IsData
  <2>2. m.port \in Ports /\ m.k \in 1 .. Length
    BY <1>2, <1>9 DEF data, Answers, Segments
  <2>3. Asked(browser_tcp.port)
    BY <1>2, <2>1 DEF Asked
  <2>4. ended # "fin"
    BY <1>0, <2>1, <2>3 DEF Closed
  <2>5. Closed' /\ Whole'
    BY <2>1, <2>4 DEF Closed, Whole
  <2>6. ASSUME faulted = 0 PROVE Run(buffer)' /\ NextPiece'
    <3>1. CASE Len(buffer) + 1 < BufferSize
      <4>1. m.k # 0 /\ toClient[1] = m
        BY <1>2, <2>2
      <4>2. Run(buffer)' /\ buffer' # <<>> /\ LastPiece' = m.k
        BY <1>0, <1>1, <1>7, <2>1, <2>3, <2>6, <3>1, <4>1, RunGoesOn
      <4>3. /\ m.k <= conn[m.port].sent
            /\ \A k \in m.k + 1 .. conn[m.port].sent : \E j \in DOMAIN toClient :
                 j > 1 /\ IsData(toClient[j], m.port) /\ toClient[j].k = k
            /\ \A j \in DOMAIN toClient : j > 1 /\ IsData(toClient[j], m.port) =>
                 toClient[j].k > m.k
        BY <1>2, <1>7, <2>1, <2>2, <2>6 DEF InSequence
      <4>4. \A k \in m.k + 1 .. conn[m.port].sent :
              \E i \in DOMAIN t : IsData(t[i], m.port) /\ t[i].k = k
        <5>1. ASSUME NEW k \in m.k + 1 .. conn[m.port].sent
              PROVE  \E i \in DOMAIN t : IsData(t[i], m.port) /\ t[i].k = k
          <6>1. PICK j \in DOMAIN toClient :
                  j > 1 /\ IsData(toClient[j], m.port) /\ toClient[j].k = k
            BY <4>3, <5>1
          <6>2. j - 1 \in DOMAIN t /\ toClient[j] = t[j - 1]
            BY <1>2, <6>1
          <6> QED
            BY <6>1, <6>2
        <5> QED
          BY <5>1
      <4>5. \A i \in DOMAIN t : IsData(t[i], m.port) => t[i].k > m.k
        <5>1. ASSUME NEW i \in DOMAIN t, IsData(t[i], m.port) PROVE t[i].k > m.k
          <6>1. i + 1 \in DOMAIN toClient /\ t[i] = toClient[i + 1] /\ i + 1 > 1
            BY <1>2, <5>1
          <6> QED
            BY <4>3, <5>1, <6>1
        <5> QED
          BY <5>1
      <4>6. NextPiece'
        BY <1>0, <1>1, <2>1, <4>2, <4>3, <4>4, <4>5 DEF NextPiece
      <4> QED
        BY <4>2, <4>6
    <3>2. CASE ~ (Len(buffer) + 1 < BufferSize)
      <4>1. buffer' = buffer
        BY <2>1, <3>2
      <4> QED
        BY <1>7, <2>6, <3>2, <4>1 DEF Run, NextPiece
    <3> QED
      BY <3>1, <3>2
  <2>7. InOrder'
    BY <1>0, <1>7, <2>5, <2>6 DEF InOrder
  <2> QED
    BY <1>0, <1>6, <2>5, <2>7 DEF OrderInv
<1>10. CASE fin(m) \/ rst(m)
  <2>1. /\ browser_tcp'.state = 0 /\ buffer' = buffer /\ Mine(m)
        /\ (ended' = "fin" /\ m.kind = "fin") \/ ended' = "rst"
    BY <1>4, <1>10, SocketChanges DEF fin, rst
  <2>2. Closed'
    BY <2>1 DEF Closed
  <2>3. ASSUME faulted = 0 PROVE Run(buffer)' /\ NextPiece' /\ Whole'
    <3>1. Run(buffer)' /\ NextPiece'
      BY <1>7, <2>1, <2>3 DEF Run, NextPiece
    <3>2. ASSUME ended' = "fin", buffer' # <<>>, Length < BufferSize PROVE LastPiece' = Length
      <4>1. /\ toClient[1].kind = "fin" /\ toClient[1].port = browser_tcp.port
            /\ browser_tcp.state # 0 /\ buffer # <<>>
        BY <1>2, <2>1, <3>2 DEF Mine
      <4>2. LastPiece = Length
        BY <1>0, <1>1, <1>7, <2>3, <3>2, <4>1, FinIsLast
      <4> QED
        BY <2>1, <4>2 DEF LastPiece
    <3> QED
      BY <3>1, <3>2 DEF Whole
  <2>4. InOrder'
    BY <1>0, <1>7, <2>3 DEF InOrder
  <2> QED
    BY <1>0, <1>6, <2>2, <2>4 DEF OrderInv
<1>11. CASE stray(m)
  <2>1. UNCHANGED <<browser_tcp, buffer, toServer, ended>> /\ ~ Mine(m)
    BY <1>11 DEF stray
  <2>2. Closed'
    BY <1>0, <1>5, <2>1 DEF Closed, TypeInv
  <2>3. ASSUME faulted = 0 PROVE Run(buffer)' /\ NextPiece' /\ Whole'
    <3>1. Run(buffer)' /\ Whole'
      BY <1>7, <2>1, <2>3 DEF Run, Whole, LastPiece
    <3>2. ASSUME browser_tcp.state # 0, Asked(browser_tcp.port)', buffer # <<>>,
                 Len(buffer) + 1 < BufferSize
          PROVE  /\ LastPiece <= conn[browser_tcp.port].sent
                 /\ \A k \in LastPiece + 1 .. conn[browser_tcp.port].sent :
                      \E i \in DOMAIN t : IsData(t[i], browser_tcp.port) /\ t[i].k = k
                 /\ \A i \in DOMAIN t : IsData(t[i], browser_tcp.port) => t[i].k > LastPiece
      <4> DEFINE l == LastPiece
                 P == browser_tcp.port
      <4>1. Asked(P) /\ ~ IsData(toClient[1], P)
        BY <1>0, <1>2, <1>5, <2>1, <3>2 DEF TypeInv, Mine, IsData
      <4>2. /\ l <= conn[P].sent
            /\ \A k \in l + 1 .. conn[P].sent :
                 \E i \in DOMAIN toClient : IsData(toClient[i], P) /\ toClient[i].k = k
            /\ \A i \in DOMAIN toClient : IsData(toClient[i], P) => toClient[i].k > l
        BY <1>7, <2>3, <3>2, <4>1 DEF NextPiece
      <4> HIDE DEF l, P
      <4>3. \A i \in DOMAIN toClient : IsData(toClient[i], P) =>
              i - 1 \in DOMAIN t /\ toClient[i] = t[i - 1]
        BY <1>2, <4>1
      <4>4. \A k \in l + 1 .. conn[P].sent :
              \E i \in DOMAIN t : IsData(t[i], P) /\ t[i].k = k
        BY <4>2, <4>3
      <4>5. \A i \in DOMAIN t : IsData(t[i], P) => t[i].k > l
        BY <1>2, <4>2
      <4> QED
        BY <4>2, <4>4, <4>5 DEF l, P
    <3>3. NextPiece'
      BY <1>0, <1>1, <2>1, <3>2 DEF NextPiece, LastPiece
    <3> QED
      BY <3>1, <3>3
  <2>4. InOrder'
    BY <1>0, <1>7, <2>3 DEF InOrder
  <2> QED
    BY <1>0, <1>6, <2>2, <2>4 DEF OrderInv
<1> QED
  BY <1>3, <1>8, <1>9, <1>10, <1>11

\* What the servers send.
LEMMA ServerOrder ==
  ASSUME OrderInv,
         \/ \E m \in toServer : server_get(m)
         \/ \E m \in toServer, answer \in {"syn-ack", "rst"} : server_syn(m, answer)
         \/ \E p \in Ports, kind \in {"data", "data-fin"} : server_send(p, kind)
         \/ \E p \in Ports : server_fin(p)
  PROVE  OrderInv'
<1>0. /\ TypeInv /\ StreamInv' /\ UNCHANGED <<browser_tcp, buffer, ended, saved, faulted>>
      /\ Closed /\ (browser_tcp.state # 0 => browser_tcp.port \in Ports)
  BY ServerStreams DEF OrderInv, StreamInv, TypeInv, server_get, server_syn, server_send,
                       server_fin, client
<1>1. NoGap' /\ WholeAfterFin'
  BY <1>0 DEF OrderInv, NoGap, WholeAfterFin
<1> DEFINE Piece(p, kind) ==
             /\ toClient' = Append(toClient, Segment(kind, p, conn[p].sent + 1))
             /\ conn'[p].sent = conn[p].sent + 1 /\ conn[p].sent + 1 \in 1 .. Length
             /\ conn[p].url # None
             /\ \A q \in Ports : q # p => conn'[q].sent = conn[q].sent
           Other(p, kind) ==
             /\ toClient' = Append(toClient, Segment(kind, p, 0))
             /\ kind = "fin" => conn[p].sent = Length
<1>2. /\ \A p \in Ports : Asked(p)' => Asked(p)
      /\ \/ \E p \in Ports, kind \in {"data", "data-fin"} : Piece(p, kind)
         \/ /\ \A p \in Ports : conn'[p].sent = conn[p].sent
            /\ \/ toClient' = toClient
               \/ \E p \in Ports, kind \in {"syn-ack", "rst", "fin"} : Other(p, kind)
  BY <1>0, ServerEffects
<1>3. Closed'
  BY <1>0, <1>2 DEF Closed
<1>4. ASSUME faulted = 0
      PROVE  /\ InSequence /\ FinLast /\ Run(buffer) /\ NextPiece /\ Whole
             /\ Run(buffer)' /\ Whole'
  BY <1>0, <1>4 DEF OrderInv, InOrder, Run, Whole, LastPiece
<1> DEFINE P == browser_tcp.port
           l == LastPiece
<1>5. ASSUME faulted = 0, browser_tcp.state # 0, Asked(P)', buffer # <<>>,
             Len(buffer) + 1 < BufferSize
      PROVE  /\ P \in Ports /\ l \in Nat
             /\ l <= conn[P].sent
             /\ \A k \in l + 1 .. conn[P].sent :
                  \E i \in DOMAIN toClient : IsData(toClient[i], P) /\ toClient[i].k = k
             /\ \A i \in DOMAIN toClient : IsData(toClient[i], P) => toClient[i].k > l
  <2>1. P \in Ports /\ Asked(P)
    BY <1>0, <1>2, <1>5
  <2>2. l \in Nat
    BY <1>0, <1>5, Numbers DEF LastPiece
  <2> QED
    BY <1>4, <1>5, <2>1, <2>2 DEF NextPiece
<1>6. ASSUME NEW p \in Ports, NEW kind \in {"data", "data-fin"}, Piece(p, kind), faulted = 0
      PROVE  InSequence' /\ FinLast' /\ NextPiece'
  <2>1. InSequence' /\ FinLast'
    BY <1>0, <1>4, <1>6, WaySent
  <2>2. ASSUME browser_tcp.state # 0, Asked(P)', buffer # <<>>, Len(buffer) + 1 < BufferSize
        PROVE  /\ l <= conn'[P].sent
               /\ \A k \in l + 1 .. conn'[P].sent :
                    \E i \in DOMAIN toClient' : IsData(toClient'[i], P) /\ toClient'[i].k = k
               /\ \A i \in DOMAIN toClient' : IsData(toClient'[i], P) => toClient'[i].k > l
    <3> DEFINE N == conn[p].sent + 1
               s == Segment(kind, p, N)
               n == Len(toClient) + 1
    <3>1. /\ s \in Answers /\ s.k = N /\ s.port = p /\ \A q : IsData(s, q) <=> q = p
          /\ N \in Nat /\ toClient' = Append(toClient, s) /\ conn'[p].sent = N
          /\ conn[p].sent = N - 1
      <4>1. N \in 1 .. Length /\ toClient' = Append(toClient, s) /\ conn'[p].sent = N
            /\ Length \in Nat /\ conn[p].sent \in Nat
        BY <1>0, <1>6, Numbers
      <4>2. s \in Answers
        BY <4>1, SegmentTypes
      <4>3. s.kind = kind /\ s.port = p /\ s.k = N
        BY DEF Segment
      <4> HIDE DEF s
      <4> QED
        BY <4>1, <4>2, <4>3 DEF IsData
    <3> HIDE DEF s
    <3>2. /\ DOMAIN toClient' = 1 .. n /\ toClient'[n] = s /\ n \in DOMAIN toClient'
          /\ \A i \in DOMAIN toClient : i \in DOMAIN toClient' /\ toClient'[i] = toClient[i]
          /\ \A i \in DOMAIN toClient' : i \in DOMAIN toClient \/ i = n
      BY <1>0, <3>1, Numbers, OneMore
    <3> HIDE DEF n, N, l, P
    <3>3. /\ P \in Ports /\ l \in Nat /\ l <= conn[P].sent
          /\ \A k \in l + 1 .. conn[P].sent :
               \E i \in DOMAIN toClient : IsData(toClient[i], P) /\ toClient[i].k = k
          /\ \A i \in DOMAIN toClient : IsData(toClient[i], P) => toClient[i].k > l
      BY <1>5, <1>6, <2>2
    <3>4. CASE P # p
      <4>1. conn'[P].sent = conn[P].sent
        BY <1>6, <3>3, <3>4
      <4>2. \A i \in DOMAIN toClient' : IsData(toClient'[i], P) =>
              i \in DOMAIN toClient /\ toClient'[i] = toClient[i]
        BY <3>1, <3>2, <3>4
      <4> QED
        BY <3>2, <3>3, <4>1, <4>2
    <3>5. CASE P = p
      <4>1. l <= N /\ N > l
        BY <3>1, <3>3, <3>5
      <4>2. ASSUME NEW k \in l + 1 .. N
            PROVE  \E i \in DOMAIN toClient' : IsData(toClient'[i], P) /\ toClient'[i].k = k
        <5>1. CASE k = N
          BY <3>1, <3>2, <3>5, <5>1
        <5>2. CASE k # N
          <6>1. k \in l + 1 .. conn[P].sent
            BY <3>1, <3>3, <3>5, <5>2
          <6> QED
            BY <3>2, <3>3, <6>1
        <5> QED
          BY <5>1, <5>2
      <4>3. \A i \in DOMAIN toClient' : IsData(toClient'[i], P) => toClient'[i].k > l
        BY <3>1, <3>2, <3>3, <4>1
      <4> QED
        BY <3>1, <3>5, <4>1, <4>2, <4>3
    <3> QED
      BY <3>4, <3>5
  <2>3. NextPiece'
    BY <1>0, <2>2 DEF NextPiece, LastPiece
  <2> QED
    BY <2>1, <2>3
<1>7. ASSUME \A p \in Ports : conn'[p].sent = conn[p].sent,
             \/ toClient' = toClient
             \/ \E p \in Ports, kind \in {"syn-ack", "rst", "fin"} : Other(p, kind),
             faulted = 0
      PROVE  InSequence' /\ FinLast' /\ NextPiece'
  <2>1. InSequence' /\ FinLast'
    <3>1. CASE toClient' = toClient
      BY <1>0, <1>4, <1>7, <3>1, WayKept
    <3>2. ASSUME NEW p \in Ports, NEW kind \in {"syn-ack", "rst", "fin"}, Other(p, kind)
          PROVE  InSequence' /\ FinLast'
      BY <1>0, <1>4, <1>7, <3>2, WayClosed
    <3> QED
      BY <1>7, <3>1, <3>2
  <2>2. /\ \A i \in DOMAIN toClient : i \in DOMAIN toClient' /\ toClient'[i] = toClient[i]
        /\ \A i \in DOMAIN toClient' : IsData(toClient'[i], P) =>
             i \in DOMAIN toClient /\ toClient'[i] = toClient[i]
    <3>1. CASE toClient' = toClient
      BY <3>1
    <3>2. ASSUME NEW p \in Ports, NEW kind \in {"syn-ack", "rst", "fin"}, Other(p, kind)
          PROVE  <2>2!:
      <4> DEFINE s == Segment(kind, p, 0)
      <4>1. s \in Answers /\ ~ IsData(s, P) /\ toClient' = Append(toClient, s)
        BY <3>2, SegmentTypes DEF Segment, IsData
      <4> HIDE DEF s
      <4>2. /\ DOMAIN toClient = 1 .. Len(toClient)
            /\ DOMAIN toClient' = 1 .. Len(toClient) + 1 /\ Len(toClient) \in Nat
            /\ toClient'[Len(toClient) + 1] = s
            /\ \A i \in DOMAIN toClient : toClient'[i] = toClient[i]
            /\ \A i \in DOMAIN toClient' : i \in DOMAIN toClient \/ i = Len(toClient) + 1
        BY <1>0, <4>1, Numbers, OneMore
      <4> QED
        BY <4>1, <4>2
    <3> QED
      BY <1>7, <3>1, <3>2
  <2>3. ASSUME browser_tcp.state # 0, Asked(P)', buffer # <<>>, Len(buffer) + 1 < BufferSize
        PROVE  /\ l <= conn'[P].sent
               /\ \A k \in l + 1 .. conn'[P].sent :
                    \E i \in DOMAIN toClient' : IsData(toClient'[i], P) /\ toClient'[i].k = k
               /\ \A i \in DOMAIN toClient' : IsData(toClient'[i], P) => toClient'[i].k > l
    <3> HIDE DEF l, P
    <3>1. /\ P \in Ports /\ l <= conn[P].sent
          /\ \A k \in l + 1 .. conn[P].sent :
               \E i \in DOMAIN toClient : IsData(toClient[i], P) /\ toClient[i].k = k
          /\ \A i \in DOMAIN toClient : IsData(toClient[i], P) => toClient[i].k > l
      BY <1>5, <1>7, <2>3
    <3> QED
      BY <1>7, <2>2, <3>1
  <2>4. NextPiece'
    BY <1>0, <2>3 DEF NextPiece, LastPiece
  <2> QED
    BY <2>1, <2>4
<1>8. ASSUME faulted = 0 PROVE InSequence' /\ FinLast' /\ NextPiece'
  BY <1>2, <1>6, <1>7, <1>8
<1>9. InOrder'
  BY <1>0, <1>4, <1>8 DEF InOrder
<1> QED
  BY <1>0, <1>1, <1>3, <1>9 DEF OrderInv

\* The name server, the gateway and the commands.
LEMMA AnswerOrder ==
  ASSUME OrderInv,
         \/ arp_reply \/ apply_static_ip
         \/ \E u \in Urls : command(u) \/ dns_answer(u)
  PROVE  OrderInv'
<1>0. /\ StreamInv /\ StreamInv' /\ TypeInv' /\ OneStream'
      /\ UNCHANGED <<toClient, saved, faulted>>
  BY AnswerStreams DEF OrderInv, StreamInv, arp_reply, apply_static_ip, command, dns_answer,
                       client
<1>1. /\ buffer' = buffer \/ buffer' = <<>>
      /\ ended' = "fin" => ended = "fin"
  BY DEF arp_reply, apply_static_ip, command, dns_answer, client
<1>2. UNCHANGED <<browser_tcp, conn, toServer>> \/ \E ip, mac : send_tcp_syn(ip, mac)
  BY DEF arp_reply, apply_static_ip, command, dns_answer, client
<1>3. NoGap' /\ WholeAfterFin'
  BY <1>0 DEF OrderInv, NoGap, WholeAfterFin
<1>4. CASE UNCHANGED <<browser_tcp, conn, toServer>>
  <2>1. \A p \in Ports : Asked(p)' => Asked(p)
    BY <1>0, <1>4 DEF Asked, IsData
  <2>2. Closed' /\ InOrder'
    BY <1>0, <1>1, <1>4, <2>1, OrderKept
  <2> QED
    BY <1>0, <1>3, <2>2 DEF OrderInv
<1>5. ASSUME NEW ip, NEW mac, send_tcp_syn(ip, mac) PROVE OrderInv'
  <2>1. /\ \A p \in Ports : Asked(p)' <=> Asked(p)
        /\ \/ UNCHANGED <<browser_tcp, conn>>
           \/ browser_tcp'.port \in Ports /\ ~ Asked(browser_tcp.port)'
        /\ \A p \in Ports : conn'[p].sent = conn[p].sent
    BY <1>0, <1>1, <1>5, SynStreams
  <2>2. Closed' /\ InOrder'
    BY <1>0, <1>1, <2>1, OrderKept
  <2> QED
    BY <1>0, <1>3, <2>2 DEF OrderInv
<1> QED
  BY <1>2, <1>4, <1>5

\* A run that has the header begins with it: what follows is numbered from 2 on.
LEMMA FileIsRun ==
  ASSUME TypeInv, Run(buffer), Payload(buffer) # <<>>
  PROVE  /\ \A i \in DOMAIN Payload(buffer) : Payload(buffer)[i][2] = i + 1
         /\ buffer # <<>> /\ Len(Payload(buffer)) = LastPiece - 1
<1> DEFINE f == Payload(buffer)
<1>1. /\ buffer \in Seq(Pieces) /\ Len(buffer) \in Nat /\ DOMAIN buffer = 1 .. Len(buffer)
      /\ \A i \in DOMAIN buffer : buffer[i][2] \in 1 .. Length
  BY Numbers
<1>2. PICK h \in DOMAIN buffer :
        /\ buffer[h][2] = 1 /\ Len(f) = Len(buffer) - h
        /\ \A i \in DOMAIN f : h + i \in DOMAIN buffer /\ f[i] = buffer[h + i]
  BY <1>1, PayloadFollows
<1>3. f \in Seq(Pieces) /\ DOMAIN f = 1 .. Len(f) /\ Len(f) \in Nat
  BY <1>1, PayloadFollows, LenProperties
<1> HIDE DEF f
<1>4. buffer # <<>> /\ 1 \in DOMAIN buffer /\ Len(buffer) \in DOMAIN buffer
  BY <1>1, <1>2
<1>5. /\ buffer[1][2] \in Nat /\ buffer[1][2] # 0
      /\ \A i \in DOMAIN buffer : buffer[i][2] = buffer[1][2] + i - 1
  BY <1>1, <1>4 DEF Run
<1>6. h = 1 /\ buffer[1][2] = 1
  BY <1>1, <1>2, <1>5
<1>7. \A i \in DOMAIN f : f[i][2] = i + 1
  <2>1. ASSUME NEW i \in DOMAIN f PROVE f[i][2] = i + 1
    <3>1. 1 + i \in DOMAIN buffer /\ f[i] = buffer[1 + i] /\ i \in Nat
      BY <1>2, <1>3, <1>6
    <3>2. buffer[1 + i][2] = 1 + (1 + i) - 1
      BY <1>5, <1>6, <3>1
    <3> QED
      BY <3>1, <3>2
  <2> QED
    BY <2>1
<1>8. Len(f) = LastPiece - 1
  BY <1>1, <1>2, <1>4, <1>5, <1>6 DEF LastPiece
<1> QED
  BY <1>4, <1>7, <1>8 DEF f

\* One frame: the file that is written is the run behind the header.
LEMMA FrameOrder ==
  ASSUME OrderInv, frame
  PROVE  OrderInv'
<1>0. /\ TypeInv /\ StreamInv /\ StreamInv' /\ TypeInv' /\ OneStream'
      /\ UNCHANGED <<buffer, toClient, faulted>>
  BY FrameStreams DEF OrderInv, StreamInv, frame
<1>1. ended' = "fin" => ended = "fin"
  BY DEF frame, idle
<1>2. UNCHANGED <<browser_tcp, conn, toServer>> \/ \E ip, mac : send_tcp_syn(ip, mac)
  BY DEF frame, retry
<1>3. Closed' /\ InOrder'
  <2>1. CASE UNCHANGED <<browser_tcp, conn, toServer>>
    <3>1. \A p \in Ports : Asked(p)' => Asked(p)
      BY <1>0, <2>1 DEF Asked, IsData
    <3> QED
      BY <1>0, <1>1, <2>1, <3>1, OrderKept
  <2>2. ASSUME NEW ip, NEW mac, send_tcp_syn(ip, mac) PROVE Closed' /\ InOrder'
    <3>1. /\ \A p \in Ports : Asked(p)' <=> Asked(p)
          /\ \/ UNCHANGED <<browser_tcp, conn>>
             \/ browser_tcp'.port \in Ports /\ ~ Asked(browser_tcp.port)'
          /\ \A p \in Ports : conn'[p].sent = conn[p].sent
      BY <1>0, <2>2, SynStreams
    <3> QED
      BY <1>0, <1>1, <3>1, OrderKept
  <2> QED
    BY <1>2, <2>1, <2>2
<1>4. CASE saved' = saved
  <2>1. NoGap' /\ WholeAfterFin'
    BY <1>0, <1>4 DEF OrderInv, NoGap, WholeAfterFin
  <2> QED
    BY <1>0, <1>3, <2>1 DEF OrderInv
<1>5. CASE saved'.segments = Payload(buffer) /\ Payload(buffer) # <<>> /\ saved'.ended = ended'
  <2>1. ASSUME faulted = 0
        PROVE  /\ \A i \in DOMAIN Payload(buffer) : Payload(buffer)[i][2] = i + 1
               /\ ended' = "fin" /\ Length < BufferSize => Len(Payload(buffer)) = Length - 1
    <3>1. Run(buffer) /\ Whole
      BY <2>1 DEF OrderInv, InOrder
    <3>2. /\ \A i \in DOMAIN Payload(buffer) : Payload(buffer)[i][2] = i + 1
          /\ buffer # <<>> /\ Len(Payload(buffer)) = LastPiece - 1
      BY <1>0, <1>5, <3>1, FileIsRun
    <3> QED
      BY <1>1, <3>1, <3>2 DEF Whole
  <2>2. NoGap'
    BY <1>0, <1>5, <2>1 DEF NoGap
  <2>3. WholeAfterFin'
    BY <1>0, <1>5, <2>1 DEF WholeAfterFin
  <2> QED
    BY <1>0, <1>3, <2>2, <2>3 DEF OrderInv
<1> QED
  BY <1>0, <1>4, <1>5, FileFromBuffer

\* A fault ends the promise of the order, not that of the closed connection.
LEMMA FaultOrder ==
  ASSUME OrderInv, lose \/ duplicate \/ reorder
  PROVE  OrderInv'
<1>1. /\ StreamInv' /\ UNCHANGED <<browser_tcp, ended, conn>> /\ faulted' # 0
      /\ toServer' \subseteq toServer
      /\ \A i \in DOMAIN toClient' : \E j \in DOMAIN toClient : toClient'[i] = toClient[j]
  BY FaultTypes, FaultStreams DEF OrderInv, StreamInv, client
<1>2. \A p : Asked(p)' => Asked(p)
  BY <1>1 DEF Asked, IsData
<1>3. Closed'
  BY <1>1, <1>2 DEF OrderInv, Closed
<1> QED
  BY <1>1, <1>3 DEF OrderInv, InOrder, NoGap, WholeAfterFin

\* Every step keeps the order.
LEMMA NextOrder == OrderInv /\ [Next]_vars => OrderInv'
<1> SUFFICES ASSUME OrderInv, [Next]_vars PROVE OrderInv'
  OBVIOUS
<1>1. CASE UNCHANGED vars
  <2>1. /\ StreamInv'
        /\ UNCHANGED <<browser_tcp, buffer, ended, saved, conn, toServer, toClient, faulted>>
    BY <1>1, NextStreams DEF OrderInv, vars, client, net
  <2>2. \A p \in Ports : Asked(p)' => Asked(p)
    BY <2>1 DEF Asked, IsData
  <2>3. Closed' /\ InOrder'
    BY <2>1, <2>2, OrderKept
  <2>4. NoGap' /\ WholeAfterFin'
    BY <2>1 DEF OrderInv, NoGap, WholeAfterFin
  <2> QED
    BY <2>1, <2>3, <2>4 DEF OrderInv
<1> QED
  BY <1>1, ReceiverOrder, AnswerOrder, FrameOrder, ServerOrder, FaultOrder DEF Next

\* Nothing is under way and nothing was saved at first.
LEMMA InitOrder == Init => OrderInv
<1> SUFFICES ASSUME Init PROVE OrderInv
  OBVIOUS
<1>1. StreamInv
  BY InitStreams
<1>2. toClient = <<>> /\ buffer = <<>> /\ ended = "no" /\ saved = NoFile
  BY DEF Init
<1>3. InSequence /\ FinLast /\ Run(buffer) /\ NextPiece /\ Whole /\ Closed
  BY <1>2 DEF InSequence, FinLast, Run, NextPiece, Whole, Closed
<1>4. NoGap /\ WholeAfterFin
  BY <1>2 DEF NoGap, WholeAfterFin, NoFile
<1> QED
  BY <1>1, <1>3, <1>4 DEF OrderInv, InOrder

\* While the network loses, repeats and reorders nothing, a file has no gap: data that
\* is appended in the order in which it comes is the stream behind its header, although
\* the client looks at no number and drops what finds the buffer full.
THEOREM FilesHaveNoGap == Spec => []NoGap
<1>1. OrderInv => NoGap
  BY DEF OrderInv
<1> QED
  BY <1>1, InitOrder, NextOrder, PTL DEF Spec

\* And a download that the server's FIN ended is the whole stream, if the buffer is
\* longer than it: no retry and no second connection takes a piece from it.
THEOREM FinMeansWhole == Spec => []WholeAfterFin
<1>1. OrderInv => WholeAfterFin
  BY DEF OrderInv
<1> QED
  BY <1>1, InitOrder, NextOrder, PTL DEF Spec

=============================================================================
