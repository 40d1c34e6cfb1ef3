-------------------------------- MODULE Tcp --------------------------------
(***************************************************************************)
(* The TCP of kern/net/net.c on both ends of one connection: a socket that *)
(* connects ("cli"), a listener and the child it makes for a SYN ("srv").  *)
(*                                                                         *)
(* A step is a critical section under socket->lock.  What a call or        *)
(* net_receive_tcp_frame does after it dropped the lock is a step of its   *)
(* own: every CPU runs net_poll from its timer interrupt, and so does      *)
(* whoever waits in connect, send or shutdown.                             *)
(*                                                                         *)
(* net holds every segment ever sent; the network delivers any of them at  *)
(* any time, again, or never.  Timeouts may fire at any time.  A segment   *)
(* carries one unit of data, named by its sequence number, or none; the    *)
(* congestion window (cwnd, ssthresh, duplicate ACKs) only bounds how much *)
(* is in flight and when a segment is sent again, and is left open.        *)
(***************************************************************************)
EXTENDS Integers, Sequences, FiniteSets

CONSTANTS
    CPUS,           (* CPUs in net_poll at a time                          *)
    Units,          (* bound: units of data each side's program sends      *)
    SEQ_MOD,        (* sequence numbers are modulo this (2^32)             *)
    Isns,           (* initial numbers of successive attempts, per side    *)
    RX_LIMIT,       (* NET_TCP_RX_QUEUE_LIMIT                              *)
    RETRY_LIMIT,    (* NET_TCP_RETRY_LIMIT                                 *)
    BACKLOG,        (* listen_backlog                                      *)
    WINDOW,         (* largest congestion window, in units                 *)
    Resets,         (* bound: the sides that RST segments reach            *)
    DeviceOk,       (* outcomes of net_send_frame; a frame it refuses does *)
                    (* not leave                                           *)
    MemoryOk,       (* outcomes of kmalloc in net_poll                     *)
    Shutdowns       (* bound: the calls of shutdown made, <<side, reading,  *)
                    (* writing, units the side has sent by then>>          *)

Parties == {"cli", "srv"}
Peer(x) == IF x = "cli" THEN "srv" ELSE "cli"

ASSUME TcpAssumption ==
    /\ Units \in [Parties -> Nat] /\ Isns \in [Parties -> Seq(0 .. SEQ_MOD - 1)]
    /\ DeviceOk \subseteq BOOLEAN /\ MemoryOk \subseteq BOOLEAN /\ Resets \subseteq Parties
    /\ Shutdowns \subseteq Parties \X BOOLEAN \X BOOLEAN \X Nat
    /\ {CPUS, SEQ_MOD, RX_LIMIT, RETRY_LIMIT, BACKLOG, WINDOW} \subseteq Nat /\ SEQ_MOD # 0

VARIABLES
    sk,     (* struct net_socket of each side                              *)
    lsn,    (* the listener: listening, accept_count; undo, how many       *)
            (* pollers still have to give back a slot; failed, whether one *)
            (* of them has a child whose answer was refused                *)
    calls,  (* the program's call on each socket, between two sections     *)
    work,   (* what pollers still have to do after they dropped the lock;  *)
            (* two with the same left to do are one                        *)
    net,    (* segments sent                                               *)
    tries,  (* sockets or attempts used up, per side                       *)
    sent    (* history: units given to net_socket_send                     *)

tcp_vars == <<sk, lsn, calls, work, net, tries, sent>>

States == {"FREE", "CLOSED", "SYN_SENT", "SYN_RECEIVED", "ESTABLISHED", "CLOSE_WAIT",
           "FIN_WAIT_1", "FIN_WAIT_2", "CLOSING", "LAST_ACK"}
Synchronised == States \ {"FREE", "CLOSED", "SYN_SENT", "SYN_RECEIVED"}
Retried == {"SYN_SENT", "SYN_RECEIVED", "FIN_WAIT_1", "CLOSING", "LAST_ACK"}

Numbers == 0 .. SEQ_MOD - 1
Plus(a, n) == (a + n) % SEQ_MOD
(* The n numbers from a on, and all from a to before b.                    *)
Span(a, b) == {Plus(a, i) : i \in 0 .. ((b - a) % SEQ_MOD) - 1}

(* flags: SYN, SA = SYN|ACK, ACK, FA = FIN|ACK; "" is tcp_last_tx_flags 0. *)
Segments == [from : Parties, flags : {"SYN", "SA", "ACK", "FA"}, seq : Numbers,
             ack : Numbers, len : {0, 1}]
Segment(x, f, s, a, n) == [from |-> x, flags |-> f, seq |-> s, ack |-> a, len |-> n]

(* rx is everything ever queued, of which the first rd units are read or   *)
(* discarded.  History: isn and irs, the first numbers of either           *)
(* direction; fin, the peer's FIN was taken; lost, units acknowledged and  *)
(* not queued.  owner: the handshake, the accept queue, a descriptor or,   *)
(* when the listener has closed, nobody.                                   *)
NewSocket ==
    [state |-> "CLOSED", closed |-> FALSE, connected |-> FALSE, owner |-> "app",
     una |-> 0, nxt |-> 0, rcv |-> 0, eof |-> FALSE, read_shutdown |-> FALSE,
     write_shutdown |-> FALSE, fin_sent |-> FALSE, fin_pending |-> FALSE,
     last |-> "", last_seq |-> 0, last_ack |-> 0, retry |-> 0,
     tx |-> <<>>, rx |-> <<>>, rd |-> 0, isn |-> 0, irs |-> 0, fin |-> FALSE,
     lost |-> {}]
NoSocket == [NewSocket EXCEPT !.state = "FREE"]

(* syn: SYN sent, not recorded; fin: at the loop of net_socket_shutdown;   *)
(* busy: start_fin returned -E_BUSY; finrec: FIN numbered, not recorded;   *)
(* finsend: recorded; finwait: FIN sent.                                   *)
Calls == {"idle", "syn", "connecting", "fin", "busy", "finrec", "finsend", "finwait"}
NoTcpCall == [at |-> "idle", closing |-> FALSE, ack |-> 0]

(* What a poller with a reference to the socket has left to do: the rest   *)
(* of net_receive_tcp_frame, its FIN as above, to close a rejected child.  *)
PollKinds == {"rest", "finrec", "finsend", "reject"}

TcpTypeOK ==
    /\ \A x \in Parties :
        /\ sk[x].state \in States
        /\ {sk[x].una, sk[x].nxt, sk[x].rcv} \subseteq Numbers
        /\ sk[x].retry \in 0 .. RETRY_LIMIT
        /\ sk[x].rd \in 0 .. Len(sk[x].rx)
        /\ calls[x].at \in Calls /\ calls[x].closing \in BOOLEAN /\ calls[x].ack \in Numbers
    /\ lsn.count \in 0 .. BACKLOG
    /\ net \subseteq Segments
    /\ lsn.undo \in Nat /\ Cardinality(work) + lsn.undo <= CPUS
    /\ \A w \in work : w.kind \in PollKinds \cup {"record", "put"} /\ w.x \in Parties

TcpInit ==
    /\ sk = [x \in Parties |-> IF x = "cli" THEN NewSocket ELSE NoSocket]
    /\ lsn = [listening |-> TRUE, count |-> 0, undo |-> 0, failed |-> FALSE]
    /\ calls = [x \in Parties |-> NoTcpCall]
    /\ work = {}
    /\ net = {}
    /\ tries = [x \in Parties |-> 0]
    /\ sent = [x \in Parties |-> {}]
-----------------------------------------------------------------------------
Set(x, s) == sk' = [sk EXCEPT ![x] = s]
At(x, c) == calls[x].at = c
GoOn(x, c) == calls' = [calls EXCEPT ![x].at = c]
Send(segs) == net' = net \cup segs

Inflight(s) == (s.nxt - s.una) % SEQ_MOD
Unread(s) == Len(s.rx) - s.rd

(* Pollers hold a reference, but for the child they have just made.        *)
Held(x, ws) == \E w \in ws : w.kind \in PollKinds /\ w.x = x

(* The last descriptor goes; the last reference frees the socket.          *)
Released(x, s, ws) == IF Held(x, ws) THEN [s EXCEPT !.closed = TRUE] ELSE NoSocket
Aborted(s) == [s EXCEPT !.state = "CLOSED", !.closed = TRUE, !.connected = FALSE, !.eof = TRUE]

(* net_tcp_record_tx of a control segment.                                 *)
Forgotten(s) == [s EXCEPT !.last = "", !.last_seq = 0, !.last_ack = 0, !.retry = 0]
Recorded(s, f, q, a) == [s EXCEPT !.last = f, !.last_seq = q, !.last_ack = a, !.retry = 0]
-----------------------------------------------------------------------------
(* net_receive_tcp_frame, under socket->lock.                              *)
Bug_AnySegment(s, m) == m.len = 1

(* Unsigned comparisons: an acknowledgement beyond the wrap is not new.    *)
NewAck(s, m) == m.ack > s.una /\ m.ack <= s.nxt
InOrder(s, m) == m.len = 1 /\ m.seq = s.rcv
FinInOrder(s, m) == m.flags = "FA" /\ Plus(m.seq, m.len) = s.rcv

(* net_tcp_ack_segments_locked: the acknowledged head of the queue goes.   *)
Unacked(tx, ack) ==
    LET open == {i \in DOMAIN tx : Plus(tx[i].seq, 1) > ack}
    IN  IF open = {} THEN <<>>
        ELSE SubSeq(tx, CHOOSE i \in open : \A j \in open : i <= j, Len(tx))

Bug_AckTakesAll(s, m) == IF NewAck(s, m) THEN [s EXCEPT !.una = s.nxt, !.tx = <<>>] ELSE s
TakeAck(s, m) ==
    LET finAcked == s.fin_sent /\ m.ack >= s.nxt
        over == finAcked /\ s.state \in {"CLOSING", "LAST_ACK"}
    IN  IF m.flags = "SYN" \/ ~NewAck(s, m) THEN s
        ELSE [(IF finAcked THEN Forgotten(s) ELSE s) EXCEPT
                       !.una = m.ack,
                       !.tx = Unacked(@, m.ack),
                       !.fin_sent = @ /\ ~finAcked,
                       !.eof = @ \/ over,
                       !.state = IF over THEN "CLOSED"
                                 ELSE IF finAcked /\ @ = "FIN_WAIT_1" THEN "FIN_WAIT_2"
                                 ELSE @]

(* tcp_fin_pending: the FIN follows the acknowledgement of the last data.  *)
FinDue(s, m) ==
    /\ m.flags # "SYN" /\ NewAck(s, m) /\ s.fin_pending
    /\ Unacked(s.tx, m.ack) = <<>> /\ m.ack = s.nxt

TakeData(s, m) ==
    IF ~InOrder(s, m) THEN s
    ELSE [s EXCEPT !.rcv = Plus(@, 1),
                   !.lost = IF s.read_shutdown THEN @ \cup {m.seq} ELSE @]

TakeFin(s, m) ==
    IF ~FinInOrder(s, m) THEN s
    ELSE [s EXCEPT !.rcv = Plus(@, 1), !.eof = TRUE, !.fin = TRUE,
                   !.state = CASE @ \in {"CLOSED", "FIN_WAIT_2"} -> "CLOSED"
                               [] @ \in {"FIN_WAIT_1", "CLOSING", "LAST_ACK"} -> "CLOSING"
                               [] OTHER -> "CLOSE_WAIT"]

Established(s, m) == [Forgotten(s) EXCEPT !.state = "ESTABLISHED", !.una = m.ack]

Rest(x, fin, accept, unit, ack) ==
    [kind |-> "rest", x |-> x, fin |-> fin, accept |-> accept, unit |-> unit, ack |-> ack,
     fin_ack |-> 0]
Then(x, s, ws) ==
    /\ Set(x, s)
    /\ work' = work \cup ws
Done(x, s, w, ws) ==
    /\ Set(x, s)
    /\ work' = (work \ {w}) \cup ws
CpuFree == Cardinality(work) + lsn.undo < CPUS

(* net_find_tcp_locked                                                     *)
Found(x) == sk[x].state # "FREE" /\ sk[x].connected

(* The third step of connect, and of the handshake of a child.             *)
ReceiveHandshake(m) ==
    LET x == Peer(m.from)
        s == sk[x]
    IN  /\ CpuFree /\ Found(x) /\ ~s.closed /\ m.ack = s.nxt
        /\ \/ /\ s.state = "SYN_SENT" /\ m.flags = "SA"
              /\ Then(x, [Established(s, m) EXCEPT !.rcv = Plus(m.seq, 1), !.irs = m.seq],
                      {Rest(x, FALSE, FALSE, {}, TRUE)})
           \/ /\ s.state = "SYN_RECEIVED" /\ m.flags # "SYN"
              /\ Then(x, [Established(s, m) EXCEPT !.fin_sent = FALSE],
                      {Rest(x, FALSE, TRUE, {}, TRUE)})
        /\ UNCHANGED <<lsn, calls, net, tries, sent>>

ReceiveSynchronised(m) ==
    LET x == Peer(m.from)
        s == sk[x]
        due == FinDue(s, m)
        a == [TakeAck(s, m) EXCEPT !.fin_pending = @ /\ ~due]
        d == TakeData(a, m)
        f == TakeFin(d, m)
        unit == IF InOrder(a, m) /\ ~s.read_shutdown THEN {m.seq} ELSE {}
        w == Rest(x, due, FALSE, unit, m.len = 1 \/ f.fin # d.fin)
    IN  /\ CpuFree /\ Found(x) /\ ~s.closed /\ s.state \in Synchronised
        /\ f # s \/ w.ack
        /\ Then(x, f, IF due \/ w.ack THEN {w} ELSE {})
        /\ UNCHANGED <<lsn, calls, net, tries, sent>>

(* An RST is believed in every synchronised state.                         *)
ReceiveReset(x) ==
    /\ Found(x) /\ ~sk[x].closed /\ sk[x].state \in Synchronised
    /\ Set(x, [sk[x] EXCEPT !.state = "CLOSED", !.fin_sent = FALSE, !.eof = TRUE])
    /\ UNCHANGED <<lsn, calls, work, net, tries, sent>>

Bug_SlotKept(n) == n
(* accept_count goes down with a child that leaves the listener.           *)
SlotFreed(n) == n - 1

(* Bound: one child at a time.  (The code can make two for a repeated SYN: *)
(* it looks for the child and makes it under different locks.)             *)
NoChild ==
    /\ sk["srv"].state = "FREE"
    /\ ~lsn.failed /\ \A w \in work : w.kind # "put"

(* A SYN for the listener: reserve a backlog slot, make the child, answer. *)
ReceiveSyn(m) ==
    /\ CpuFree /\ m.from = "cli" /\ m.flags = "SYN"
    /\ NoChild
    /\ lsn.listening /\ lsn.count < BACKLOG
    /\ tries["srv"] < Len(Isns["srv"])
    /\ LET isn == Isns["srv"][tries["srv"] + 1]
       IN  /\ tries' = [tries EXCEPT !["srv"] = @ + 1]
           /\ Then("srv",
                   [NewSocket EXCEPT !.state = "SYN_RECEIVED", !.connected = TRUE,
                                     !.owner = "handshake", !.una = isn, !.nxt = Plus(isn, 1),
                                     !.rcv = Plus(m.seq, 1), !.isn = isn, !.irs = m.seq],
                   {[kind |-> "record", x |-> "srv", isn |-> isn]})
           /\ Send({Segment("srv", "SA", isn, Plus(m.seq, 1), 0)})
    /\ lsn' = [lsn EXCEPT !.count = @ + 1]
    /\ UNCHANGED <<calls, sent>>

(* No memory for a child, or the device refuses the answer (the child is   *)
(* in the socket list then, where the next SYN finds it): the slot is      *)
(* given back later, ...                                                   *)
ReceiveSynFails(m, made) ==
    /\ CpuFree /\ m.from = "cli" /\ m.flags = "SYN"
    /\ NoChild
    /\ FALSE \in IF made THEN DeviceOk ELSE MemoryOk
    /\ lsn.listening /\ lsn.count < BACKLOG
    /\ lsn' = [lsn EXCEPT !.count = @ + 1, !.undo = @ + 1, !.failed = made]
    /\ UNCHANGED <<sk, calls, work, net, tries, sent>>

UndoSlot ==
    /\ lsn.undo > IF lsn.failed THEN 1 ELSE 0
    /\ lsn' = [lsn EXCEPT !.count = SlotFreed(@), !.undo = @ - 1]
    /\ UNCHANGED <<sk, calls, work, net, tries, sent>>

(* ... and then the child is put.                                          *)
UndoFailed ==
    /\ lsn.failed
    /\ lsn' = [lsn EXCEPT !.count = SlotFreed(@), !.undo = @ - 1, !.failed = FALSE]
    /\ work' = work \cup {[kind |-> "put", x |-> "srv"]}
    /\ UNCHANGED <<sk, calls, net, tries, sent>>

PutChild(w) ==
    /\ w.kind = "put"
    /\ work' = work \ {w}
    /\ UNCHANGED <<sk, lsn, calls, net, tries, sent>>

(* net_tcp_record_tx(child); the child may be gone by now.                 *)
RecordChild(w) ==
    LET s == sk["srv"] IN
    /\ w.kind = "record"
    /\ Done("srv", IF s.state # "FREE" /\ s.isn = w.isn
                   THEN Recorded(s, "SA", w.isn, Plus(s.irs, 1)) ELSE s, w, {})
    /\ UNCHANGED <<lsn, calls, net, tries, sent>>
-----------------------------------------------------------------------------
(* net_tcp_start_fin, under the lock: only with nothing in flight.         *)
HasFin(s) == s.fin_sent \/ s.state \in {"FIN_WAIT_2", "CLOSING", "LAST_ACK"}
InFlight(s) == s.tx # <<>> \/ s.nxt # s.una
MaySendFin(s) ==
    /\ ~s.closed /\ ~s.fin_sent /\ s.state \in {"ESTABLISHED", "CLOSE_WAIT"}
    /\ ~InFlight(s)
FinNumbered(s) ==
    [s EXCEPT !.nxt = Plus(@, 1), !.fin_sent = TRUE, !.fin_pending = FALSE,
              !.state = IF @ = "ESTABLISHED" THEN "FIN_WAIT_1" ELSE "LAST_ACK"]

(* The FIN is recorded, ...                                                *)
FinNumber(s) == Plus(s.nxt, SEQ_MOD - 1)
FinRecorded(s, ack) == Recorded(s, "FA", FinNumber(s), ack)

(* ... then sent; if that fails it is taken back, unless it was answered   *)
(* or the connection died in between.  Only CLOSE_WAIT led to LAST_ACK.    *)
FinTakenBack(s) ==
    IF s.fin_sent /\ s.last_seq = FinNumber(s)
    THEN [Forgotten(s) EXCEPT !.fin_sent = FALSE, !.nxt = FinNumber(s),
                              !.state = IF @ = "LAST_ACK" THEN "CLOSE_WAIT" ELSE "ESTABLISHED"]
    ELSE s
FinSent(s, ok) == IF ok THEN s ELSE FinTakenBack(s)
FinSegment(x, ack, ok) ==
    IF ok THEN {Segment(x, "FA", FinNumber(sk[x]), ack, 0)} ELSE {}

(* The rest of net_receive_tcp_frame: the pending FIN, ...                 *)
PollFin(w) ==
    LET s == sk[w.x] IN
    /\ w.kind = "rest" /\ w.fin
    /\ IF MaySendFin(s)
       THEN Done(w.x, FinNumbered(s), w, {[w EXCEPT !.kind = "finrec", !.fin_ack = s.rcv]})
       ELSE Done(w.x, s, w, {[w EXCEPT !.fin = FALSE]})
    /\ UNCHANGED <<lsn, calls, net, tries, sent>>

PollFinRecord(w) ==
    /\ w.kind = "finrec"
    /\ Done(w.x, FinRecorded(sk[w.x], w.fin_ack), w, {[w EXCEPT !.kind = "finsend"]})
    /\ UNCHANGED <<lsn, calls, net, tries, sent>>

PollFinSend(w, ok) ==
    /\ w.kind = "finsend"
    /\ Done(w.x, FinSent(sk[w.x], ok), w,
            {[w EXCEPT !.kind = "rest", !.fin = FALSE, !.fin_ack = 0]})
    /\ Send(FinSegment(w.x, w.fin_ack, ok))
    /\ UNCHANGED <<lsn, calls, tries, sent>>

(* ... the accept queue, unless the listener has closed: the slot is given *)
(* back, and the child closed, ...                                         *)
PollAccept(w) ==
    /\ w.kind = "rest" /\ ~w.fin /\ w.accept
    /\ \/ /\ lsn.listening
          /\ Done(w.x, [sk[w.x] EXCEPT !.owner = "queue"], w, {[w EXCEPT !.accept = FALSE]})
          /\ UNCHANGED lsn
       \/ /\ ~lsn.listening
          /\ Done(w.x, [sk[w.x] EXCEPT !.owner = "none"], w,
                  {[w EXCEPT !.kind = "reject", !.accept = FALSE]})
          /\ lsn' = [lsn EXCEPT !.count = SlotFreed(@)]
    /\ UNCHANGED <<calls, net, tries, sent>>

PollReject(w) ==
    /\ w.kind = "reject"
    /\ Done(w.x, Released(w.x, Aborted(sk[w.x]), work \ {w}), w, {})
    /\ UNCHANGED <<lsn, calls, net, tries, sent>>

(* ... net_queue_packet, ...                                               *)
Queued(s, unit, ok) ==
    IF s.closed \/ Unread(s) >= RX_LIMIT \/ ~ok THEN [s EXCEPT !.lost = @ \cup unit]
    ELSE [s EXCEPT !.rx = Append(@, CHOOSE u \in unit : TRUE)]

PollQueue(w, ok) ==
    /\ w.kind = "rest" /\ ~w.fin /\ ~w.accept /\ w.unit # {}
    /\ Done(w.x, Queued(sk[w.x], w.unit, ok), w, {[w EXCEPT !.unit = {}]})
    /\ UNCHANGED <<lsn, calls, net, tries, sent>>

(* ... the ACK with what rcv_nxt is by now, and the put.                   *)
PollAck(w) ==
    LET s == sk[w.x] IN
    /\ w.kind = "rest" /\ ~w.fin /\ ~w.accept /\ w.unit = {}
    /\ Send(IF w.ack THEN {Segment(w.x, "ACK", 0, s.rcv, 0)} ELSE {})
    /\ Done(w.x, IF s.closed THEN Released(w.x, s, work \ {w}) ELSE s, w, {})
    /\ UNCHANGED <<lsn, calls, tries, sent>>
-----------------------------------------------------------------------------
(* net_tcp_retransmit                                                      *)
RetransmitData(x) ==
    LET s == sk[x] IN
    /\ ~s.closed /\ s.state = "ESTABLISHED" /\ s.tx # <<>>
    /\ Send({Segment(x, "ACK", s.tx[1].seq, s.tx[1].ack, 1)})
    /\ UNCHANGED <<sk, lsn, calls, work, tries, sent>>

RetransmitControl(x) ==
    LET s == sk[x] IN
    /\ ~s.closed /\ s.last # "" /\ s.state \in Retried
    /\ s.retry < RETRY_LIMIT
    /\ Set(x, [s EXCEPT !.retry = @ + 1])
    /\ Send({Segment(x, s.last, s.last_seq, s.last_ack, 0)})
    /\ UNCHANGED <<lsn, calls, work, tries, sent>>

(* A child's slot is given back after its lock was dropped.                *)
GiveUp(x) ==
    LET s == sk[x] IN
    /\ ~s.closed /\ s.last # "" /\ s.state \in Retried
    /\ s.retry >= RETRY_LIMIT
    /\ \/ /\ s.state = "SYN_SENT"
          /\ Set(x, [Forgotten(s) EXCEPT !.state = "CLOSED", !.connected = FALSE])
          /\ UNCHANGED lsn
       \/ /\ s.state = "SYN_RECEIVED" /\ CpuFree
          /\ Set(x, Released(x, Aborted(Forgotten(s)), work))
          /\ lsn' = [lsn EXCEPT !.undo = @ + 1]
       \/ /\ s.state \in {"FIN_WAIT_1", "CLOSING", "LAST_ACK"}
          /\ Set(x, [Forgotten(s) EXCEPT !.state = "CLOSED", !.fin_sent = FALSE, !.eof = TRUE])
          /\ UNCHANGED lsn
    /\ UNCHANGED <<calls, work, net, tries, sent>>
-----------------------------------------------------------------------------
(* The calls of the program that owns a socket, one at a time.             *)
Program(x) == sk[x].state # "FREE" /\ sk[x].owner = "app"

(* net_socket_connect: SYN_SENT is set and the SYN sent, then recorded.    *)
Connect ==
    LET s == sk["cli"] IN
    /\ At("cli", "idle") /\ Program("cli") /\ ~s.closed /\ ~s.connected
    /\ tries["cli"] < Len(Isns["cli"])
    /\ LET isn == Isns["cli"][tries["cli"] + 1]
       IN  /\ tries' = [tries EXCEPT !["cli"] = @ + 1]
           /\ Set("cli", [s EXCEPT !.una = isn, !.nxt = Plus(isn, 1), !.rcv = 0, !.isn = isn,
                                   !.state = "SYN_SENT", !.eof = FALSE, !.connected = TRUE])
           /\ Send({Segment("cli", "SYN", isn, 0, 0)})
    /\ GoOn("cli", "syn")
    /\ UNCHANGED <<lsn, work, sent>>

(* The device refuses the SYN.                                             *)
ConnectRefused ==
    LET s == sk["cli"] IN
    /\ At("cli", "idle") /\ Program("cli") /\ ~s.closed /\ ~s.connected
    /\ FALSE \in DeviceOk /\ tries["cli"] < Len(Isns["cli"])
    /\ tries' = [tries EXCEPT !["cli"] = @ + 1]
    /\ Set("cli", [s EXCEPT !.state = "CLOSED", !.eof = FALSE])
    /\ UNCHANGED <<lsn, calls, work, net, sent>>

ConnectRecord ==
    /\ At("cli", "syn")
    /\ Set("cli", Recorded(sk["cli"], "SYN", sk["cli"].isn, 0))
    /\ GoOn("cli", "connecting")
    /\ UNCHANGED <<lsn, work, net, tries, sent>>

ConnectReturn ==
    /\ At("cli", "connecting")
    /\ sk["cli"].state \in {"ESTABLISHED", "CLOSED"}
    /\ GoOn("cli", "idle")
    /\ UNCHANGED <<sk, lsn, work, net, tries, sent>>

(* The state is not looked at again when the time is up.                   *)
ConnectTimeout ==
    /\ At("cli", "connecting")
    /\ Set("cli", [sk["cli"] EXCEPT !.state = "CLOSED", !.connected = FALSE])
    /\ GoOn("cli", "idle")
    /\ UNCHANGED <<lsn, work, net, tries, sent>>

(* net_socket_accept: an established child goes to a descriptor, a dead    *)
(* one is thrown away, any other stays where it is.                        *)
Accept ==
    LET s == sk["srv"] IN
    /\ lsn.listening /\ s.state # "FREE" /\ s.owner = "queue"
    /\ s.state = "ESTABLISHED" \/ s.state = "CLOSED" \/ s.closed
    /\ Set("srv", IF s.state = "ESTABLISHED" THEN [s EXCEPT !.owner = "app"]
                  ELSE Released("srv", [s EXCEPT !.owner = "app"], work))
    /\ lsn' = [lsn EXCEPT !.count = SlotFreed(@)]
    /\ UNCHANGED <<calls, work, net, tries, sent>>

(* net_socket_close_descriptor of the listener aborts the queued child.    *)
(* Bound: it closes while it has a child; without one it only loses SYNs.  *)
CloseListener ==
    LET s == sk["srv"]
        waits == s.state # "FREE" /\ s.owner = "queue"
    IN  /\ lsn.listening /\ lsn.count > 0
        /\ lsn' = [lsn EXCEPT !.listening = FALSE, !.count = IF waits THEN SlotFreed(@) ELSE @]
        /\ Set("srv", IF waits THEN Released("srv", [Aborted(s) EXCEPT !.owner = "app"], work) ELSE s)
        /\ UNCHANGED <<calls, work, net, tries, sent>>

MayWrite(s) ==
    ~s.closed /\ s.state \in {"ESTABLISHED", "CLOSE_WAIT"} /\ ~s.write_shutdown

(* net_socket_send of one unit.  A segment the device refused (~ok) stays  *)
(* queued for retransmission.                                              *)
Write(x, ok) ==
    LET s == sk[x] IN
    /\ At(x, "idle") /\ Program(x) /\ MayWrite(s)
    /\ Inflight(s) < WINDOW
    /\ Cardinality(sent[x]) < Units[x]
    /\ Set(x, [s EXCEPT !.nxt = Plus(@, 1), !.tx = Append(@, [seq |-> s.nxt, ack |-> s.rcv])])
    /\ sent' = [sent EXCEPT ![x] = @ \cup {s.nxt}]
    /\ Send(IF ok THEN {Segment(x, "ACK", s.nxt, s.rcv, 1)} ELSE {})
    /\ UNCHANGED <<lsn, calls, work, tries>>

(* net_socket_recv of one unit.                                            *)
Read(x) ==
    /\ At(x, "idle") /\ Program(x) /\ ~sk[x].read_shutdown
    /\ Unread(sk[x]) > 0
    /\ Set(x, [sk[x] EXCEPT !.rd = @ + 1])
    /\ UNCHANGED <<lsn, calls, work, net, tries, sent>>

(* ... or its other result: it returns 0, the end of the stream.           *)
ReadsEof(x) ==
    /\ At(x, "idle") /\ Program(x)
    /\ sk[x].read_shutdown \/ (Unread(sk[x]) = 0 /\ sk[x].eof)

(* net_socket_shutdown, up to its loop; SHUT_RD is over then.              *)
ShutDown(s, reading, writing) ==
    [s EXCEPT !.read_shutdown = @ \/ reading, !.eof = @ \/ reading,
              !.rd = IF reading THEN Len(s.rx) ELSE @,
              !.write_shutdown = @ \/ writing]

Shutdown(x, reading, writing, units) ==
    /\ Cardinality(sent[x]) = units
    /\ At(x, "idle") /\ Program(x) /\ ~sk[x].closed /\ sk[x].connected
    /\ Set(x, ShutDown(sk[x], reading, writing))
    /\ GoOn(x, IF writing THEN "fin" ELSE "idle")
    /\ UNCHANGED <<lsn, work, net, tries, sent>>

(* open_file_drop_descriptor: shut down both ways, then detach.            *)
CloseSocket(x) ==
    /\ At(x, "idle") /\ Program(x) /\ ~sk[x].closed
    /\ IF sk[x].connected
       THEN /\ Set(x, ShutDown(sk[x], TRUE, TRUE))
            /\ calls' = [calls EXCEPT ![x].at = "fin", ![x].closing = TRUE]
       ELSE Set(x, Released(x, sk[x], work)) /\ UNCHANGED calls
    /\ UNCHANGED <<lsn, work, net, tries, sent>>

(* net_socket_close_descriptor and open_file_put follow in file.c.         *)
Return(x, s) ==
    /\ Set(x, IF calls[x].closing THEN Released(x, s, work) ELSE s)
    /\ calls' = [calls EXCEPT ![x] = NoTcpCall]

(* One turn of the loop: net_tcp_start_fin and what its result asks for.   *)
FinTry(x) ==
    LET s == sk[x]
        pending == s.fin_sent /\ s.state \in {"FIN_WAIT_1", "CLOSING", "LAST_ACK"}
    IN  /\ At(x, "fin") \/ (At(x, "finwait") /\ ~pending)
        /\ \/ /\ MaySendFin(s)
              /\ Set(x, FinNumbered(s))
              /\ calls' = [calls EXCEPT ![x].at = "finrec", ![x].ack = s.rcv]
           \/ /\ ~MaySendFin(s)
              /\ IF HasFin(s) /\ pending THEN GoOn(x, "finwait") /\ UNCHANGED sk
                 ELSE IF ~HasFin(s) /\ s.state \in {"ESTABLISHED", "CLOSE_WAIT"} /\ ~s.closed
                 THEN GoOn(x, "busy") /\ UNCHANGED sk
                 ELSE Return(x, s)
        /\ UNCHANGED <<lsn, work, net, tries, sent>>

FinRecord(x) ==
    /\ At(x, "finrec")
    /\ Set(x, FinRecorded(sk[x], calls[x].ack))
    /\ GoOn(x, "finsend")
    /\ UNCHANGED <<lsn, work, net, tries, sent>>

FinSend(x, ok) ==
    /\ At(x, "finsend")
    /\ IF ok THEN GoOn(x, "finwait") /\ UNCHANGED sk ELSE Return(x, FinTakenBack(sk[x]))
    /\ Send(FinSegment(x, calls[x].ack, ok))
    /\ UNCHANGED <<lsn, work, tries, sent>>

(* Data in flight: the FIN is left to net_receive_tcp_frame.               *)
FinLater(x) ==
    /\ At(x, "busy")
    /\ Return(x, [sk[x] EXCEPT !.fin_pending = @ \/ ~sk[x].fin_sent])
    /\ UNCHANGED <<lsn, work, net, tries, sent>>

FinTimeout(x) ==
    /\ At(x, "finwait")
    /\ Return(x, sk[x])
    /\ UNCHANGED <<lsn, work, net, tries, sent>>
-----------------------------------------------------------------------------
Receive ==
    \E m \in net :
        \/ ReceiveSyn(m) \/ ReceiveHandshake(m) \/ ReceiveSynchronised(m)
        \/ \E made \in BOOLEAN : ReceiveSynFails(m, made)
PollStep(w) ==
    \/ RecordChild(w) \/ PutChild(w)
    \/ PollFin(w) \/ PollFinRecord(w) \/ PollAccept(w) \/ PollReject(w) \/ PollAck(w)
    \/ \E ok \in DeviceOk : PollFinSend(w, ok)
    \/ \E ok \in MemoryOk : PollQueue(w, ok)
Timer(x) == RetransmitControl(x) \/ GiveUp(x)
CallStep(x) ==
    \/ FinTry(x) \/ FinRecord(x) \/ FinLater(x) \/ FinTimeout(x)
    \/ \E ok \in DeviceOk : FinSend(x, ok)
ConnectStep == ConnectRecord \/ ConnectReturn \/ ConnectTimeout

TcpNext ==
    \/ Connect \/ ConnectRefused \/ ConnectStep \/ Accept \/ CloseListener
    \/ Receive \/ UndoSlot \/ UndoFailed \/ \E w \in work : PollStep(w)
    \/ \E x \in Parties :
        \/ Timer(x) \/ RetransmitData(x) \/ CallStep(x) \/ Read(x) \/ CloseSocket(x)
        \/ \E ok \in DeviceOk : Write(x, ok)
    \/ \E x \in Resets : ReceiveReset(x)
    \/ \E how \in Shutdowns : Shutdown(how[1], how[2], how[3], how[4])

TcpSpec == TcpInit /\ [][TcpNext]_tcp_vars
-----------------------------------------------------------------------------
(* The two sockets are the two ends of one connection.                     *)
Paired == /\ sk["cli"].irs = sk["srv"].isn /\ sk["srv"].irs = sk["cli"].isn
          /\ \A x \in Parties : sk[x].state # "FREE" /\ sk[x].connected

(* Units that a poller has taken for x and not queued yet.                 *)
Underway(x) ==
    UNION {IF w.kind \in PollKinds /\ w.x = x THEN w.unit ELSE {} : w \in work}
Rx(s) == {s.rx[i] : i \in DOMAIN s.rx}
Taken(s) == Span(Plus(s.irs, 1), IF s.fin THEN Plus(s.rcv, SEQ_MOD - 1) ELSE s.rcv)

(* net_queue_packet runs after the lock was dropped, from any number of    *)
(* CPUs, for segments that come late, twice or not at all: still each unit *)
(* that the peer's program sent and that was taken is queued for recv      *)
(* exactly once, or dropped: the queue was full or shut down, or there was *)
(* no memory.                                                              *)
UnitsQueuedOnce ==
    \A x \in Parties :
        LET s == sk[x] IN
        (s.state \in Synchronised) =>
            /\ Taken(s) = Rx(s) \cup s.lost \cup Underway(x)
            /\ Cardinality(Rx(s)) = Len(s.rx)
            /\ Cardinality(Taken(s)) = Len(s.rx) + Cardinality(s.lost) + Cardinality(Underway(x))
            /\ Taken(s) \subseteq sent[Peer(x)]

(* net_tcp_ack_segments_locked frees a segment only when the peer has it:  *)
(* no late or repeated ACK makes the sender forget unsent data.            *)
AckedWasTaken ==
    Paired => \A x \in Parties :
        Span(sk[x].isn, sk[x].una) \subseteq Span(sk[Peer(x)].irs, sk[Peer(x)].rcv)

(* recv reports the end of the stream after the data: when it returns 0    *)
(* for the peer's FIN, all that the peer sent has been in the queue.  The  *)
(* code breaks it: tcp_eof is set under the lock under which rcv_nxt       *)
(* advances, and a unit is queued later.                                   *)
EofComesLast ==
    \A x \in Parties :
        Paired /\ ReadsEof(x) /\ sk[x].fin /\ ~sk[x].read_shutdown
            => sent[Peer(x)] \subseteq Rx(sk[x])

(* recv returns the units in the order in which the peer sent them.  The   *)
(* code breaks it: two pollers queue what each took, in any order.         *)
ReadInOrder ==
    \A x \in Parties : \A i, j \in DOMAIN sk[x].rx :
        i < j => (sk[x].rx[i] - sk[x].irs) % SEQ_MOD < (sk[x].rx[j] - sk[x].irs) % SEQ_MOD

(* accept_count: a backlog slot is held by exactly the child that is in    *)
(* its handshake or waits for accept, or that could not be made, and is    *)
(* given back however that ends; a leaked slot makes the listener deaf.    *)
BacklogExact ==
    lsn.count = (IF sk["srv"].state # "FREE" /\ ~sk["srv"].closed
                    /\ sk["srv"].owner \in {"handshake", "queue"} THEN 1 ELSE 0)
                + lsn.undo
====
