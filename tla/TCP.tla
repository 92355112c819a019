-------------------------------- MODULE TCP ---------------------------------
(***************************************************************************)
(* A TCP connection of userspace-tcpip-stack between two hosts: the        *)
(* connection state machine of tcp.rs at both ends, the socket calls and   *)
(* the segment dispatch of socket.rs around it, and a network that loses,  *)
(* delays, reorders and duplicates segments.  Time only shows in which     *)
(* timers have expired when a connection is polled.  Payload bytes are     *)
(* numbered in the order in which the application writes them.             *)
(***************************************************************************)
EXTENDS Integers, Sequences, SequencesExt, FiniteSets

CONSTANTS
  Server,      \* the end that listens; the other one is Client
  Client,
  Mod,         \* number of sequence numbers (2^32 in the code)
  Isn,         \* initial sequence number of each end
  Mss,         \* local_mss and peer_mss
  Cwnds,       \* values the congestion window takes, at least Mss
  SndCap,      \* SND_BUFFER_CAPACITY
  MaxOoo,      \* MAX_OOO_BYTES
  MaxRtx,      \* MAX_RETRANSMITS
  DupThreshold,\* duplicate ACKs that trigger a fast retransmit (3)
  Workloads    \* what the applications may do and how much may go wrong

End == {Client, Server}
Peer(e) == IF e = Client THEN Server ELSE Client

\* A workload: the ends that may connect, close and abort, whether the
\* listener may be closed, the bytes each application writes, the sizes of its
\* write and read calls, rcv_capacity, and the faults: segments lost, segments delivered once
\* more, and timers that expire while segments are in transit.
Workload == [connect : SUBSET End, close : SUBSET End, abort : SUBSET End,
             unlisten : BOOLEAN, bytes : [End -> Nat], write : SUBSET Nat,
             read : SUBSET (Nat \ {0}), cap : Nat, faults : Nat]

ASSUME EndAssumption == Client # Server /\ \A w \in Workloads : w \in Workload
ASSUME SeqAssumption == Mod \in Nat /\ Isn \in [End -> 0 .. (Mod - 1)]
ASSUME SizeAssumption ==
  /\ Mss \in Nat \ {0} /\ SndCap \in Nat \ {0} /\ MaxOoo \in Nat
  /\ \A w \in Cwnds : w >= Mss
  /\ \A w \in Workloads : w.cap >= Mss
\* Live sequence numbers span less than half of the sequence space.
ASSUME SpaceAssumption ==
  \A w \in Workloads, e \in End : 2 * (w.bytes[e] + w.cap + 2) < Mod

VARIABLES
  load,       \* the workload of this run
  conn,       \* the connection of each end
  net,        \* segments in transit to each end
  faults,     \* faults so far
  listening,  \* the server's listener is open
  accepted,   \* ends whose application holds the stream
  wrote,      \* history: bytes the application of each end wrote
  got         \* history: bytes the application of each end read

vars == <<load, conn, net, faults, listening, accepted, wrote, got>>

Cap == load.cap

-----------------------------------------------------------------------------
\* Serial number arithmetic (tcp_seq.rs).

Add(s, n) == (s + n) % Mod
seq_diff(t, s) == (t - s) % Mod
seq_lt(s, t) == seq_diff(s, t) >= Mod \div 2
seq_le(s, t) == s = t \/ seq_lt(s, t)
seq_gt(s, t) == ~ seq_le(s, t)
seq_ge(s, t) == ~ seq_lt(s, t)

Least(m, n) == IF m <= n THEN m ELSE n

-----------------------------------------------------------------------------
\* Connections and segments.  broken is history: the connection was reset,
\* given up, aborted or dropped with its listener, and did not end by closing.

NoConn(state) ==
  [state |-> state, una |-> 0, nxt |-> 0, wnd |-> Cap, rcv |-> 0,
   rx |-> << >>, tx |-> << >>, ooo |-> {}, rtx |-> << >>, in_flight |-> 0,
   dups |-> 0, fin_sent |-> FALSE, fin_received |-> FALSE,
   close_requested |-> FALSE, aborted |-> FALSE, persist |-> FALSE,
   advertised |-> Cap, sack |-> FALSE, broken |-> FALSE]

\* new_client and new_server.
New(state, isn) == [NoConn(state) EXCEPT !.una = isn, !.nxt = isn]

\* "None": not opened yet; "Gone": removed from tcp_connections.
Exists(c) == c.state \notin {"None", "Gone"}

current_rcv_wnd(c) == IF Len(c.rx) >= Cap THEN 0 ELSE Cap - Len(c.rx)

\* build_sack_blocks: the buffered out-of-order segments in their order, those
\* that meet joined, and of these the first four.
build_sack_blocks(c) ==
  LET Join(blocks, o) ==
        LET left == o.seq  right == Add(o.seq, Len(o.data))  n == Len(blocks) IN
        IF n > 0 /\ blocks[n][2] = left THEN [blocks EXCEPT ![n] = <<@[1], right>>]
        ELSE Append(blocks, <<left, right>>)
      all == FoldLeft(Join, << >>, SetToSortSeq(c.ooo, LAMBDA a, b : seq_lt(a.seq, b.seq)))
  IN  ToSet(SubSeq(all, 1, Least(4, Len(all))))

Segment(c, seq, flags, data, blocks) ==
  [seq |-> seq, ack |-> IF "ack" \in flags THEN c.rcv ELSE 0, flags |-> flags,
   wnd |-> current_rcv_wnd(c), data |-> data, blocks |-> blocks,
   sack_ok |-> "syn" \in flags /\ c.sack]

Blocks(c) == IF c.sack THEN build_sack_blocks(c) ELSE {}

\* A connection with what it puts on the wire.
Quiet(c) == [c |-> c, out |-> {}]

build_ack(c) ==
  [c |-> [c EXCEPT !.advertised = current_rcv_wnd(c)],
   out |-> {Segment(c, c.nxt, {"ack"}, << >>, Blocks(c))}]

\* track_for_retransmit, with snd_nxt moving past the segment.
Track(c, flags, data) ==
  LET len == Len(data) + (IF flags \cap {"syn", "fin"} # {} THEN 1 ELSE 0) IN
  [c EXCEPT !.nxt = Add(@, len),
            !.in_flight = @ + len,
            !.rtx = Append(@, [seq |-> c.nxt, len |-> len, flags |-> flags,
                               data |-> data, tries |-> 0, sacked |-> FALSE])]

\* A segment that takes up sequence space.
Emit(c, flags, data) ==
  [c |-> Track(c, flags, data), out |-> {Segment(c, c.nxt, flags, data, {})}]

initiate_syn(isn) ==
  LET c == New("SynSent", isn) IN
  [c |-> Track(c, {"syn"}, << >>),
   out |-> {[Segment(c, isn, {"syn"}, << >>, {}) EXCEPT !.sack_ok = TRUE]}]

emit_fin(c) ==
  IF c.fin_sent \/ c.state \notin {"Established", "CloseWait"} THEN Quiet(c)
  ELSE Emit([c EXCEPT !.fin_sent = TRUE,
                      !.state = IF @ = "Established" THEN "FinWait1" ELSE "LastAck"],
            {"fin", "ack"}, << >>)

-----------------------------------------------------------------------------
\* Receiving data.

Covers(o, seq) == seq_diff(seq, o.seq) < Len(o.data)

\* drain_ooo: the buffered bytes that follow rcv_nxt without a gap.
drain_ooo(c) ==
  LET Have(n) == \A k \in 0 .. (n - 1) : \E o \in c.ooo : Covers(o, Add(c.rcv, k))
      n == CHOOSE n \in 0 .. Cap : Have(n) /\ ~ Have(n + 1)
      Byte(k) == LET o == CHOOSE o \in c.ooo : Covers(o, Add(c.rcv, k))
                 IN  o.data[seq_diff(Add(c.rcv, k), o.seq) + 1]
  IN  [c EXCEPT !.rx = @ \o [k \in 1 .. n |-> Byte(k - 1)],
                !.rcv = Add(@, n),
                !.ooo = {o \in @ : ~ seq_le(Add(o.seq, Len(o.data)), Add(c.rcv, n))}]

OooBytes(S) == LET f[T \in SUBSET S] ==
                     IF T = {} THEN 0
                     ELSE LET o == CHOOSE o \in T : TRUE
                          IN  Len(o.data) + f[T \ {o}]
               IN  f[S]

buffer_ooo(c, seq, data) ==
  LET end == Add(seq, Len(data))
      Inside(o) == seq_le(seq, o.seq) /\ seq_le(Add(o.seq, Len(o.data)), end)
      kept == {o \in c.ooo : ~ Inside(o)}
  IN  IF \E o \in c.ooo : seq_le(o.seq, seq) /\ seq_le(end, Add(o.seq, Len(o.data)))
      THEN c
      ELSE [c EXCEPT !.ooo = IF OooBytes(kept) + Len(data) > MaxOoo THEN kept
                             ELSE kept \cup {[seq |-> seq, data |-> data]}]

\* Mutant: the window does not bound what is taken in.
AcceptBeyondWindow(c, seq, data) ==
  LET skip == IF seq_lt(seq, c.rcv) THEN seq_diff(c.rcv, seq) ELSE 0
      fresh == SubSeq(data, skip + 1, Len(data))
  IN  IF data = << >> \/ seq_le(Add(seq, Len(data)), c.rcv) THEN c
      ELSE IF Add(seq, skip) = c.rcv
           THEN drain_ooo([c EXCEPT !.rx = @ \o fresh, !.rcv = Add(@, Len(fresh))])
           ELSE buffer_ooo(c, Add(seq, skip), fresh)

\* Mutant: a segment that begins before rcv_nxt is not trimmed.
AcceptUntrimmed(c, seq, data) ==
  LET fresh == SubSeq(data, 1, Least(Len(data), current_rcv_wnd(c))) IN
  IF data = << >> \/ seq_le(Add(seq, Len(data)), c.rcv) \/ current_rcv_wnd(c) = 0 THEN c
  ELSE IF seq_le(seq, c.rcv)
       THEN drain_ooo([c EXCEPT !.rx = @ \o fresh, !.rcv = Add(@, Len(fresh))])
       ELSE buffer_ooo(c, seq, fresh)

\* accept_data: what is new and within the window is appended or buffered.
accept_data(c, seq, data) ==
  LET window == current_rcv_wnd(c)
      skip == IF seq_lt(seq, c.rcv) THEN seq_diff(c.rcv, seq) ELSE 0
      from == Add(seq, skip)
      off == seq_diff(from, c.rcv)
      fresh == SubSeq(data, skip + 1, Least(Len(data), skip + window - off))
  IN  IF \/ data = << >> \/ seq_le(Add(seq, Len(data)), c.rcv)
         \/ window = 0 \/ off >= window
      THEN c
      ELSE IF from = c.rcv
           THEN drain_ooo([c EXCEPT !.rx = @ \o fresh, !.rcv = Add(@, Len(fresh))])
           ELSE buffer_ooo(c, from, fresh)

-----------------------------------------------------------------------------
\* Acknowledgements and retransmission.

\* Of the congestion control, what goes beyond the size of cwnd.
on_ack(c, n) == [c EXCEPT !.in_flight = IF @ >= n THEN @ - n ELSE 0, !.dups = 0]
on_dup_ack(c) == [c EXCEPT !.dups = Least(@ + 1, DupThreshold + 1)]
on_timeout(c) == [c EXCEPT !.dups = 0]

retire_acked(c, ack) ==
  [c EXCEPT !.rtx = SelectSeq(@, LAMBDA s : ~ seq_le(Add(s.seq, s.len), ack))]

\* snd_una moves to ack.
Acked(c, ack) ==
  retire_acked(on_ack([c EXCEPT !.una = ack], seq_diff(ack, c.una)), ack)

\* Mutant: no limit on the retransmissions of a segment.
RetransmitUnlimited(c) ==
  LET open == {k \in DOMAIN c.rtx : ~ c.rtx[k].sacked}
      k == CHOOSE k \in open : \A j \in open : k <= j
      s == c.rtx[k]
  IN  IF open = {} THEN Quiet(c)
      ELSE [c |-> [c EXCEPT !.rtx[k].tries = @ + 1],
            out |-> {Segment(c, s.seq, s.flags, s.data, {})}]

\* retransmit_oldest: the oldest segment the peer has not selectively
\* acknowledged, unless it has been sent too often.
retransmit_oldest(c) ==
  LET open == {k \in DOMAIN c.rtx : ~ c.rtx[k].sacked}
      k == CHOOSE k \in open : \A j \in open : k <= j
      s == c.rtx[k]
  IN  IF open = {} THEN Quiet(c)
      ELSE IF s.tries >= MaxRtx THEN Quiet(c)
      ELSE [c |-> [c EXCEPT !.rtx[k].tries = @ + 1],
            out |-> {Segment(c, s.seq, s.flags, s.data,
                             IF "syn" \in s.flags THEN {} ELSE Blocks(c))}]

\* Mutant: a SACK block covers what overlaps its left edge.
OptionsOverlap(c, m) ==
  [c EXCEPT !.sack = @ \/ m.sack_ok,
            !.rtx = [k \in DOMAIN @ |->
               [@[k] EXCEPT !.sacked = @ \/ \E b \in m.blocks :
                   seq_ge(Add(c.rtx[k].seq, c.rtx[k].len), b[1])]]]

\* The SACK options of a segment.
Options(c, m) ==
  [c EXCEPT !.sack = @ \/ m.sack_ok,
            !.rtx = [k \in DOMAIN @ |->
               [@[k] EXCEPT !.sacked = @ \/ \E b \in m.blocks :
                   /\ seq_ge(c.rtx[k].seq, b[1])
                   /\ seq_le(Add(c.rtx[k].seq, c.rtx[k].len), b[2])]]]

rst_acceptable(c, m) ==
  CASE c.state = "SynSent" -> "ack" \in m.flags /\ m.ack = c.nxt
    [] c.state \in {"Listen", "Closed"} -> FALSE
    [] OTHER -> LET w == current_rcv_wnd(c) IN
                /\ seq_ge(m.seq, c.rcv)
                /\ seq_lt(m.seq, Add(c.rcv, IF w = 0 THEN 1 ELSE w))

-----------------------------------------------------------------------------
\* handle_segment_at, by connection state.

Reset(c) == [c EXCEPT !.state = "Closed", !.rtx = << >>, !.tx = << >>, !.ooo = {},
                      !.broken = TRUE]

HandleListen(c, m) ==
  IF "syn" \in m.flags
  THEN Emit([c EXCEPT !.rcv = Add(m.seq, 1), !.wnd = m.wnd, !.state = "SynReceived"],
            {"syn", "ack"}, << >>)
  ELSE Quiet(c)

\* Mutant: the acknowledged SYN stays charged against the window.
SynSentKeepsSyn(c, m) ==
  LET est == [c EXCEPT !.rcv = Add(m.seq, 1), !.wnd = m.wnd, !.state = "Established",
                       !.una = m.ack, !.rtx = << >>]
  IN  IF {"syn", "ack"} \subseteq m.flags /\ m.ack = c.nxt
      THEN [c |-> est, out |-> {Segment(est, est.nxt, {"ack"}, << >>, {})}]
      ELSE Quiet(c)

HandleSynSent(c, m) ==
  LET d == [c EXCEPT !.rcv = Add(m.seq, 1)] IN
  CASE {"syn", "ack"} \subseteq m.flags /\ m.ack = c.nxt ->
         LET est == Acked([d EXCEPT !.wnd = m.wnd, !.state = "Established"], m.ack)
         IN  [c |-> est, out |-> {Segment(est, est.nxt, {"ack"}, << >>, {})}]
    [] "syn" \in m.flags /\ "ack" \notin m.flags ->
         LET both == [d EXCEPT !.state = "SynReceived"]
         IN  [c |-> both,
              out |-> {[Segment(both, both.nxt, {"syn", "ack"}, << >>, {})
                          EXCEPT !.sack_ok = FALSE]}]
    [] OTHER -> Quiet(c)

HandleSynReceived(c, m) ==
  IF ~ ("ack" \in m.flags /\ m.ack = c.nxt) THEN Quiet(c)
  ELSE LET est == Acked([c EXCEPT !.wnd = m.wnd, !.state = "Established"], m.ack)
       IN  IF m.data = << >> THEN Quiet(est)
           ELSE build_ack(accept_data(est, m.seq, m.data))

\* The acknowledgement field in Established, FinWait1 and FinWait2.
AckField(c, m) ==
  CASE "ack" \notin m.flags -> Quiet(c)
    [] "ack" \in m.flags /\ seq_gt(m.ack, c.una) /\ seq_le(m.ack, c.nxt) ->
         Quiet(Acked([c EXCEPT !.wnd = m.wnd], m.ack))
    [] "ack" \in m.flags /\ m.ack = c.una /\ m.data = << >>
         /\ m.flags \cap {"syn", "fin"} = {} /\ c.rtx # << >> ->
         LET d == on_dup_ack([c EXCEPT !.wnd = m.wnd])
         IN  IF c.dups + 1 = DupThreshold THEN retransmit_oldest(d) ELSE Quiet(d)
    [] OTHER -> Quiet([c EXCEPT !.wnd = m.wnd])

\* The FIN of a segment whose data has been taken in.
TakeFin(c) ==
  [c EXCEPT !.rcv = Add(@, 1), !.fin_received = TRUE,
            !.state = CASE @ = "Established" -> "CloseWait"
                        [] @ = "FinWait1" -> "Closing"
                        [] @ = "FinWait2" -> "TimeWait"]

\* Our FIN has been acknowledged.
FinAcked(c) ==
  IF c.fin_sent /\ seq_ge(c.una, c.nxt)
  THEN [c EXCEPT !.state = CASE @ = "FinWait1" -> "FinWait2"
                             [] @ = "Closing" -> "TimeWait"
                             [] OTHER -> @]
  ELSE c

HandleEstablished(c, m) ==
  IF "ack" \in m.flags /\ seq_gt(m.ack, c.nxt) THEN build_ack(c)
  ELSE
    LET acked == AckField(c, m)
        taken == accept_data(acked.c, m.seq, m.data)
        fin == /\ "fin" \in m.flags /\ ~ taken.fin_received
               /\ taken.rcv = Add(m.seq, Len(m.data) + (IF "syn" \in m.flags THEN 1 ELSE 0))
        closed == IF fin THEN TakeFin(taken) ELSE taken
        reply == IF (m.data # << >> \/ fin) /\ acked.out = {} THEN build_ack(closed)
                 ELSE [c |-> closed, out |-> acked.out]
    IN  [reply EXCEPT !.c = FinAcked(@)]

HandleCloseWait(c, m) ==
  LET d == IF "ack" \in m.flags /\ seq_gt(m.ack, c.una) /\ seq_le(m.ack, c.nxt)
           THEN Acked([c EXCEPT !.wnd = m.wnd], m.ack) ELSE c
  IN  IF "fin" \in m.flags THEN build_ack(d) ELSE Quiet(d)

\* Closing and LastAck wait for the acknowledgement of our FIN.
HandleLastAck(c, m) ==
  IF "ack" \in m.flags /\ seq_ge(m.ack, c.nxt)
  THEN Quiet([Acked(c, m.ack) EXCEPT
                !.state = IF @ = "Closing" THEN "TimeWait" ELSE "Closed"])
  ELSE Quiet(c)

HandleTimeWait(c, m) ==
  [c |-> c, out |-> IF "fin" \in m.flags
                    THEN {Segment(c, c.nxt, {"ack"}, << >>, {})} ELSE {}]

handle_segment(old, m) ==
  LET c == Options(old, m) IN
  CASE "rst" \in m.flags -> Quiet(IF rst_acceptable(c, m) THEN Reset(c) ELSE c)
    [] OTHER ->
       CASE c.state = "Listen" -> HandleListen(c, m)
         [] c.state = "SynSent" -> HandleSynSent(c, m)
         [] c.state = "SynReceived" -> HandleSynReceived(c, m)
         [] c.state \in {"Established", "FinWait1", "FinWait2"} -> HandleEstablished(c, m)
         [] c.state = "CloseWait" -> HandleCloseWait(c, m)
         [] c.state \in {"Closing", "LastAck"} -> HandleLastAck(c, m)
         [] c.state = "TimeWait" -> HandleTimeWait(c, m)
         [] c.state = "Closed" -> Quiet(c)

-----------------------------------------------------------------------------
\* poll_output, with congestion window cwnd and the expired timers: a subset
\* of {"rto", "persist", "time_wait"}.

\* A further step of a connection that has emitted something.
Then(p, Step(_)) == LET s == Step(p.c) IN [c |-> s.c, out |-> p.out \cup s.out]

Available(c, cwnd) ==
  LET w == Least(cwnd, c.wnd) IN IF w > c.in_flight THEN w - c.in_flight ELSE 0

\* The send loop: n bytes in chunks of at most Mss.
SendChunks(c, n) ==
  LET chunks == (n + Mss - 1) \div Mss
      Chunk(k) == SubSeq(c.tx, (k - 1) * Mss + 1, Least(k * Mss, n))
      sent == FoldLeft(LAMBDA d, k : Track(d, {"ack"}, Chunk(k)), c,
                       [k \in 1 .. chunks |-> k])
  IN  IF n = 0 THEN Quiet(c)
      ELSE [c |-> [sent EXCEPT !.tx = SubSeq(@, n + 1, Len(@)),
                               !.advertised = current_rcv_wnd(c)],
            out |-> {Segment(c, Add(c.nxt, (k - 1) * Mss), {"ack"}, Chunk(k), {})
                       : k \in 1 .. chunks}]

Sending(c) == c.state \in {"Established", "CloseWait"}

PollSend(c, cwnd) ==
  IF Sending(c) THEN SendChunks(c, Least(Len(c.tx), Available(c, cwnd))) ELSE Quiet(c)

PollFin(c) == IF c.close_requested /\ c.tx = << >> THEN emit_fin(c) ELSE Quiet(c)

Exhausted(c) == c.rtx # << >> /\ c.rtx[1].tries >= MaxRtx

\* Mutant: an exhausted segment is neither sent nor given up.
RtoNeverAborts(c) == retransmit_oldest(on_timeout(c))

PollRto(c) ==
  IF Exhausted(c)
  THEN Quiet([c EXCEPT !.aborted = TRUE, !.state = "Closed", !.rtx = << >>, !.tx = << >>,
                       !.broken = TRUE])
  ELSE retransmit_oldest(on_timeout(c))

PollWindow(c) ==
  IF /\ c.advertised < Mss /\ current_rcv_wnd(c) >= Mss
     /\ c.state \notin {"Closed", "TimeWait"}
  THEN build_ack(c) ELSE Quiet(c)

\* Mutant: no zero-window probe.
PersistNever(c, cwnd, sending, due) == Quiet([c EXCEPT !.persist = FALSE])

\* The zero-window probe, a byte of data beyond the window.
PollPersist(c, cwnd, sending, due) ==
  IF ~ (sending /\ c.tx # << >> /\ Available(c, cwnd) = 0 /\ c.rtx = << >>)
  THEN Quiet([c EXCEPT !.persist = FALSE])
  ELSE IF c.persist /\ due
       THEN Emit([c EXCEPT !.tx = Tail(@), !.advertised = current_rcv_wnd(c)],
                 {"ack"}, <<Head(c.tx)>>)
       ELSE Quiet([c EXCEPT !.persist = TRUE])

PollTimeWait(c, due) ==
  Quiet(IF c.state = "TimeWait" /\ due THEN [c EXCEPT !.state = "Closed"] ELSE c)

poll_output(c, cwnd, expired) ==
  IF c.aborted \/ c.state = "Closed" THEN Quiet(c)
  ELSE
    LET Rto(d) == IF "rto" \in expired /\ c.rtx # << >> THEN PollRto(d) ELSE Quiet(d)
        Persist(d) == PollPersist(d, cwnd, Sending(c), "persist" \in expired)
        TimeWait(d) == PollTimeWait(d, "time_wait" \in expired)
        sent == Then(Then(PollSend(c, cwnd), PollFin), Rto)
    IN  IF sent.c.aborted THEN sent
        ELSE Then(Then(Then(sent, PollWindow), Persist), TimeWait)

-----------------------------------------------------------------------------
\* The socket runtime (socket.rs).

Timer == {"rto", "persist", "time_wait"}

Armed(c) == (IF c.rtx # << >> THEN {"rto"} ELSE {})
            \cup (IF c.persist THEN {"persist"} ELSE {})
            \cup (IF c.state = "TimeWait" THEN {"time_wait"} ELSE {})

InTransit == net[Client] # {} \/ net[Server] # {}

Fault == faults < load.faults /\ faults' = faults + 1

Init ==
  /\ load \in Workloads
  /\ conn = [e \in End |-> NoConn("None")]
  /\ net = [e \in End |-> {}]
  /\ faults = 0
  /\ listening = TRUE
  /\ accepted = {}
  /\ wrote = [e \in End |-> 0]
  /\ got = [e \in End |-> 0]

\* Segments queued or returned for transmission by e.
Transmit(e, out) == net' = [net EXCEPT ![Peer(e)] = @ \cup out]

\* tcp_connect_from.
Connect(e) ==
  LET p == initiate_syn(Isn[e]) IN
  /\ e \in load.connect /\ conn[e].state = "None"
  /\ conn' = [conn EXCEPT ![e] = p.c]
  /\ accepted' = accepted \cup {e}
  /\ Transmit(e, p.out)
  /\ UNCHANGED <<load, faults, listening, wrote, got>>

\* build_reset: the answer to a segment nobody owns.
build_reset(m) ==
  [seq |-> IF "ack" \in m.flags THEN m.ack ELSE 0,
   ack |-> Add(m.seq, Cardinality(m.flags \cap {"syn", "fin"}) + Len(m.data)),
   flags |-> IF "ack" \in m.flags THEN {"rst"} ELSE {"rst", "ack"},
   wnd |-> 0, data |-> << >>, blocks |-> {}, sack_ok |-> FALSE]

\* Segment m reaches e, which answers with out; a duplicate may remain.
Deliver(e, m, out) ==
  \/ net' = [net EXCEPT ![e] = @ \ {m}, ![Peer(e)] = @ \cup out] /\ UNCHANGED faults
  \/ net' = [net EXCEPT ![Peer(e)] = @ \cup out] /\ Fault

Opens(e, m) == e = Server /\ listening /\ "syn" \in m.flags /\ "ack" \notin m.flags

\* dispatch_tcp_segment, an existing connection owns the segment.  A timer
\* that is due by then expires in the StepTimers that follows.
DispatchOwned(e, m) ==
  /\ m \in net[e] /\ Exists(conn[e])
  /\ \E cwnd \in Cwnds :
       LET Poll(c) == poll_output(c, cwnd, {})
           p == Then(handle_segment(conn[e], m), Poll)
       IN  /\ conn' = [conn EXCEPT ![e] = p.c]
           /\ Deliver(e, m, p.out)
  /\ UNCHANGED <<load, listening, accepted, wrote, got>>

\* dispatch_tcp_segment, a listener takes a SYN (bound: the first one only).
DispatchOpen(e, m) ==
  LET h == handle_segment(New("Listen", Isn[e]), m) IN
  /\ m \in net[e] /\ conn[e].state = "None" /\ Opens(e, m)
  /\ conn' = [conn EXCEPT ![e] = h.c]
  /\ Deliver(e, m, h.out)
  /\ UNCHANGED <<load, listening, accepted, wrote, got>>

\* dispatch_tcp_segment, nothing owns the segment.
DispatchUnowned(e, m) ==
  /\ m \in net[e] /\ ~ Exists(conn[e]) /\ ~ Opens(e, m)
  /\ Deliver(e, m, IF "rst" \in m.flags THEN {} ELSE {build_reset(m)})
  /\ UNCHANGED <<load, conn, listening, accepted, wrote, got>>

\* Bound: the SYN of a further connection, which the listener would open, is
\* lost on its way.
DispatchFurther(e, m) ==
  /\ m \in net[e] /\ conn[e].state = "Gone" /\ Opens(e, m)
  /\ net' = [net EXCEPT ![e] = @ \ {m}]
  /\ UNCHANGED <<load, conn, faults, listening, accepted, wrote, got>>

Dispatch(e, m) ==
  DispatchOwned(e, m) \/ DispatchOpen(e, m) \/ DispatchUnowned(e, m) \/ DispatchFurther(e, m)

\* tcp_accept: the backlog holds the stream as soon as its SYN has arrived.
Accept ==
  /\ listening /\ conn[Server].state # "None" /\ Server \notin accepted
  /\ accepted' = accepted \cup {Server}
  /\ UNCHANGED <<load, conn, net, faults, listening, wrote, got>>

Dropped == [NoConn("Gone") EXCEPT !.broken = TRUE]

\* tcp_listener_close: a connection nobody has accepted is dropped.
ListenerClose ==
  /\ load.unlisten /\ listening /\ listening' = FALSE
  /\ conn' = IF Server \in accepted \/ conn[Server].state = "None" THEN conn
             ELSE [conn EXCEPT ![Server] = Dropped]
  /\ UNCHANGED <<load, net, faults, accepted, wrote, got>>

\* tcp_write of n bytes, of which the send buffer takes what fits.
Write(e) ==
  LET c == conn[e]
      room == SndCap - Len(c.tx)
  IN
  /\ e \in accepted /\ Sending(c) /\ ~ c.close_requested
  /\ \E n \in load.write \cap 1 .. (load.bytes[e] - wrote[e]) :
       LET k == Least(n, room) IN
       /\ k > 0
       /\ conn' = [conn EXCEPT ![e].tx = @ \o [i \in 1 .. k |-> wrote[e] + i]]
       /\ wrote' = [wrote EXCEPT ![e] = @ + k]
  /\ UNCHANGED <<load, net, faults, listening, accepted, got>>

\* tcp_read into a buffer of n bytes, of the connection or of what it left.
Read(e) ==
  /\ e \in accepted /\ conn[e].rx # << >>
  /\ \E size \in load.read : LET n == Least(size, Len(conn[e].rx)) IN
       /\ conn' = [conn EXCEPT ![e].rx = SubSeq(@, n + 1, Len(@))]
       /\ got' = [got EXCEPT ![e] = @ + n]
  /\ UNCHANGED <<load, net, faults, listening, accepted, wrote>>

initiate_close(c) ==
  LET d == [c EXCEPT !.close_requested = TRUE] IN
  IF ~ Sending(c) THEN Quiet(c) ELSE IF c.tx = << >> THEN emit_fin(d) ELSE Quiet(d)

\* tcp_shutdown and tcp_close.
Shutdown(e) ==
  LET p == initiate_close(conn[e]) IN
  /\ e \in load.close \cap accepted /\ Exists(conn[e])
  /\ conn' = [conn EXCEPT ![e] = p.c]
  /\ Transmit(e, p.out)
  /\ UNCHANGED <<load, faults, listening, accepted, wrote, got>>

\* tcp_abort: a last poll, a RST, and no call on the handle has any effect.
Abort(e) ==
  LET c == conn[e] IN
  /\ e \in load.abort \cap accepted
  /\ conn' = [conn EXCEPT ![e] = Dropped]
  /\ \E cwnd \in Cwnds :
       LET p == IF Exists(c) THEN poll_output(c, cwnd, {}) ELSE Quiet(c)
           rst == [Segment(p.c, p.c.nxt, {"rst", "ack"}, << >>, {}) EXCEPT !.wnd = 0]
       IN  Transmit(e, p.out \cup IF p.c.state \in {"Closed", "Gone"} THEN {} ELSE {rst})
  /\ UNCHANGED <<load, faults, listening, accepted, wrote, got>>

\* reap_closed: what a finished connection leaves to the application.
Reaped(c) ==
  IF c.state = "Closed" THEN [NoConn("Gone") EXCEPT !.rx = c.rx, !.broken = c.broken] ELSE c

\* step_timers with the given timers expired.
StepTimers(e, expired) ==
  /\ Exists(conn[e]) /\ expired \subseteq Armed(conn[e])
  /\ IF InTransit /\ expired # {} THEN Fault ELSE UNCHANGED faults
  /\ \E cwnd \in Cwnds :
       LET p == poll_output(conn[e], cwnd, expired) IN
       /\ conn' = [conn EXCEPT ![e] = Reaped(p.c)]
       /\ Transmit(e, p.out)
  /\ UNCHANGED <<load, listening, accepted, wrote, got>>

\* The network loses a segment.
Lose(e, m) ==
  /\ m \in net[e] /\ Fault
  /\ net' = [net EXCEPT ![e] = @ \ {m}]
  /\ UNCHANGED <<load, conn, listening, accepted, wrote, got>>

Next ==
  \/ Accept
  \/ ListenerClose
  \/ \E e \in End :
       \/ Connect(e) \/ Write(e) \/ Read(e) \/ Shutdown(e) \/ Abort(e)
       \/ \E m \in net[e] : Dispatch(e, m) \/ Lose(e, m)
       \/ \E expired \in SUBSET Timer : StepTimers(e, expired)

Spec == Init /\ [][Next]_vars

\* The network delivers, each host calls step_timers again and again, its
\* clock passes every deadline, and the applications accept and read.  These
\* are weak fairness of Dispatch and of StepTimers(e, {}) and strong fairness
\* of StepTimers(e, Armed(conn[e])), with ENABLED written out: every segment in
\* transit can be dispatched, by one of the four cases of Dispatch.
Pumpable(e, expired) ==
  /\ Exists(conn[e])
  /\ \E cwnd \in Cwnds : LET p == poll_output(conn[e], cwnd, expired) IN
       Reaped(p.c) # conn[e] \/ ~ (p.out \subseteq net[Peer(e)])

FairDispatch(e) ==
  []<>(net[e] = {}) \/ []<><<\E m \in net[e] : Dispatch(e, m)>>_vars

FairPump(e) ==
  []<>~ Pumpable(e, {}) \/ []<><<StepTimers(e, {})>>_vars

FairTimers(e) ==
  \/ <>[]~ (Pumpable(e, Armed(conn[e])) /\ (InTransit => faults < load.faults))
  \/ []<><<StepTimers(e, Armed(conn[e]))>>_vars

FairSpec ==
  /\ Spec
  /\ WF_vars(Accept)
  /\ \A e \in End : WF_vars(Read(e)) /\ FairDispatch(e) /\ FairPump(e) /\ FairTimers(e)

-----------------------------------------------------------------------------
\* Properties.

Synchronized(c) == c.state \notin {"None", "Gone", "Listen", "SynSent", "Closed"}

TypeOK ==
  /\ \A e \in End :
       /\ {conn[e].una, conn[e].nxt, conn[e].rcv} \subseteq 0 .. (Mod - 1)
       /\ Len(conn[e].tx) <= SndCap /\ conn[e].dups \in 0 .. (DupThreshold + 1)
       /\ \A k \in DOMAIN conn[e].rtx : conn[e].rtx[k].tries \in 0 .. MaxRtx
  /\ faults \in 0 .. load.faults /\ listening \in BOOLEAN
  /\ accepted \subseteq End
  /\ load \in Workloads /\ wrote \in [End -> Nat] /\ got \in [End -> Nat]

\* accept_data, drain_ooo and tcp_read hand the application exactly the bytes
\* the peer's application wrote, in order and once, and a consumed FIN comes
\* after all of them: no byte is still to come.
StreamIntegrity ==
  \A e \in End : LET rx == conn[e].rx IN
    /\ rx = [k \in 1 .. Len(rx) |-> got[e] + k]
    /\ got[e] + Len(rx) <= wrote[Peer(e)]
    /\ conn[e].fin_received => got[e] + Len(rx) = wrote[Peer(e)]

\* The receive buffer stays within rcv_capacity, what waits for reassembly
\* within the window that is left, and its bytes within MAX_OOO_BYTES.
ReceiveBounded ==
  \A e \in End : LET c == conn[e] IN
    /\ Len(c.rx) <= Cap /\ OooBytes(c.ooo) <= MaxOoo
    /\ \A o \in c.ooo : seq_diff(Add(o.seq, Len(o.data)), c.rcv) <= current_rcv_wnd(c)

\* Whatever is sent and not acknowledged is in the retransmission queue, and
\* bytes_in_flight is exactly that.
UnackedIsTracked ==
  \A e \in End : LET c == conn[e] IN
    Exists(c) /\ c.state # "Closed" =>
      /\ c.in_flight = seq_diff(c.nxt, c.una)
      /\ \A k \in 0 .. (seq_diff(c.nxt, c.una) - 1) : \E j \in DOMAIN c.rtx :
           seq_diff(Add(c.una, k), c.rtx[j].seq) < c.rtx[j].len

\* What one end takes as acknowledged, cumulatively or selectively, the other
\* end holds: no byte the sender will not send again is missing.
AckedIsHeld ==
  \A e \in End : LET c == conn[e]  d == conn[Peer(e)] IN
    Synchronized(c) /\ Synchronized(d) =>
      /\ seq_le(c.una, d.rcv)
      /\ \A k \in DOMAIN c.rtx : LET s == c.rtx[k] IN s.sacked =>
           \/ seq_le(Add(s.seq, s.len), d.rcv)
           \/ \A i \in 0 .. (s.len - 1) :
                LET b == Add(s.seq, i) IN seq_lt(b, d.rcv) \/ \E o \in d.ooo : Covers(o, b)

\* Every byte tcp_write accepted is read by the peer's application, past losses,
\* a closed window, a lost window update and the close of either end, unless the
\* connection is broken: an end gave up, was reset or was aborted.
WrittenIsRead ==
  \A e \in End : got[Peer(e)] < wrote[e]
                  ~> got[Peer(e)] = wrote[e] \/ \E f \in End : conn[f].broken

\* No connection stays in a state that waits for the peer's TCP: handshakes
\* and closes finish or are given up, and TIME_WAIT expires.
HandshakesFinish ==
  \A e \in End :
    conn[e].state \in {"SynSent", "SynReceived", "FinWait1", "Closing", "LastAck", "TimeWait"}
      ~> conn[e].state \in {"Established", "CloseWait", "FinWait2", "Gone"}

\* "The peer is unreachable. Abort rather than retransmit forever."
\* (poll_output): a connection is given up only after as many faults of the
\* network as a segment has transmissions, not while the peer answers.
AbortMeansUnreachable ==
  [][\A e \in End : Exhausted(conn[e]) /\ conn'[e].state = "Gone"
                      => faults > MaxRtx]_vars

=============================================================================
