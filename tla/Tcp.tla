-------------------------------- MODULE Tcp --------------------------------
(***************************************************************************)
(* A socket of tcp.c and the program that uses it, against a peer beyond a *)
(* network that loses, repeats and reorders.  The calls run with           *)
(* interrupts on; the timer interrupt, which handles the packets that have *)
(* come and polls the sockets, strikes between any two of their steps, and *)
(* Ctrl+C ends the program there.  Sockets are independent: one is enough. *)
(***************************************************************************)
EXTENDS Integers, Sequences, SequencesExt

CONSTANTS
    TCP_BUF_SIZE, TCP_MSS,
    MaxRetrans, \* SYNs or data sent again: 5
    SeqSpace,   \* sequence numbers are below it: 2^32
    Iss,        \* the initial ones to try
    Windows,    \* the windows the peer may announce
    PeerLen,    \* the peer sends bytes 1 .. PeerLen, then FIN
    MaxWrite,   \* bounds on the bytes the program sends on a connection
    MaxRead     \* and receives

ASSUME TcpAssumption ==
    /\ TCP_BUF_SIZE \in Nat \ {0} /\ TCP_MSS \in Nat \ {0} /\ MaxRetrans \in Nat
    /\ PeerLen \in Nat /\ MaxWrite \in Nat /\ MaxRead \in Nat /\ Windows \subseteq Nat
    /\ SeqSpace \in Nat /\ SeqSpace > MaxWrite + 2 /\ SeqSpace > TCP_BUF_SIZE
    /\ Iss \subseteq 0 .. SeqSpace - 1

VARIABLES
    \* the socket
    used, state, pending_close,
    iss, snd_una, snd_nxt, rcv_nxt, remote_window, retrans_count,
    recv_buf, recv_len,
    \* the program: the call it is in, with its local variables
    fd,     \* it holds the socket
    call, len, sent, chunk, copied,
    wrote,  \* how many bytes TcpSend took from it
    got,    \* the bytes TcpRecv gave it
    \* the peer and the network, external
    out,    \* the segments sent to the peer, which may come at any time, or never
    known,  \* the peer has taken the SYN
    pgot,   \* the bytes the peer has taken, in order
    pfin,   \* it has taken the FIN
    past    \* what has happened on this connection, a set of:
            \*   raced   data was put into the buffer while TcpRecv was shifting it
            \*   early   a FIN was taken before the data in front of it
            \*   stale   it began with bytes of another connection in the buffer
            \*   resent  data was sent again
            \*   rushed  an answer came before TcpClose counted its FIN

socket == <<used, state, pending_close, iss, snd_una, snd_nxt, rcv_nxt, remote_window,
            retrans_count, recv_buf, recv_len>>
program == <<fd, call, len, sent, chunk, copied, wrote, got>>
peer == <<known, pgot, pfin>>
vars == <<socket, program, out, peer, past>>

sending == <<iss, snd_una, snd_nxt, remote_window, retrans_count>>
receiving == <<rcv_nxt, recv_buf, recv_len>>

Cell == 1 .. TCP_BUF_SIZE
Blank == [i \in Cell |-> 0]

(* A connection begins, or ends: nothing of an older one reaches it. *)
Forget == out' = {} /\ known' = FALSE /\ pgot' = << >> /\ pfin' = FALSE

(* A slot with every byte zero: how the kernel starts, and what TcpAllocSocket
   (used again at once) and TcpFreeSocket write. *)
Clear(u) == /\ used' = u /\ state' = "CLOSED" /\ pending_close' = FALSE
            /\ iss' = 0 /\ snd_una' = 0 /\ snd_nxt' = 0 /\ rcv_nxt' = 0
            /\ remote_window' = 0 /\ retrans_count' = 0
            /\ recv_buf' = Blank /\ recv_len' = 0
            /\ Forget

Init == /\ used = FALSE /\ state = "CLOSED" /\ pending_close = FALSE
        /\ iss = 0 /\ snd_una = 0 /\ snd_nxt = 0 /\ rcv_nxt = 0
        /\ remote_window = 0 /\ retrans_count = 0
        /\ recv_buf = Blank /\ recv_len = 0
        /\ fd = FALSE /\ call = "none" /\ len = 0 /\ sent = 0 /\ chunk = 0
        /\ copied = << >> /\ wrote = 0 /\ got = << >>
        /\ out = {} /\ known = FALSE /\ pgot = << >> /\ pfin = FALSE
        /\ past = {}

-----------------------------------------------------------------------------
(* Sequence numbers wrap; how far one lies after the initial one does not. *)

Plus(s, n) == (s + n) % SeqSpace

(* How far s2 lies after s1. *)
Dist(s1, s2) == (s2 - s1) % SeqSpace

Off(s) == Dist(iss, s)

InFlight == Dist(snd_una, snd_nxt)

Segment(flag, seq, bytes) == [flag |-> flag, seq |-> seq, bytes |-> bytes]

(* A send that fails is a segment the peer never takes.  Plain acknowledgements
   tell the peer nothing the properties are about. *)
Transmit(seg) == out' = out \cup {seg}

NoLocals == len' = 0 /\ sent' = 0 /\ chunk' = 0 /\ copied' = << >>

Goto(c) == call' = c /\ UNCHANGED <<fd, len, sent, chunk, copied, wrote, got>>

Return == call' = "none" /\ NoLocals /\ UNCHANGED <<fd, wrote, got>>

-----------------------------------------------------------------------------
(* NET_OPEN, TcpSocketCreate: a slot that is not used, cleared. *)
SocketCreate ==
    /\ call = "none" /\ ~used
    /\ Clear(TRUE)
    /\ fd' = TRUE /\ wrote' = 0 /\ got' = << >> /\ past' = {}
    /\ UNCHANGED <<call, len, sent, chunk, copied>>

(* NET_CONNECT, TcpConnect: the check, the fields, the SYN, the wait.  The
   local port is a new one. *)
ConnectCheck == /\ call = "none" /\ fd /\ used /\ state = "CLOSED"
                /\ Goto("connect_set")
                /\ UNCHANGED <<socket, out, peer, past>>

ConnectSet ==
    /\ call = "connect_set" /\ call' = "connect_syn" /\ wrote' = 0 /\ got' = << >>
    /\ \E i \in Iss : iss' = i /\ snd_una' = i /\ snd_nxt' = Plus(i, 1)
    /\ rcv_nxt' = 0 /\ state' = "SYN_SENT"
    /\ remote_window' = TCP_BUF_SIZE /\ retrans_count' = 0
    /\ Forget /\ past' = IF recv_len > 0 THEN {"stale"} ELSE {}
    /\ UNCHANGED <<fd, len, sent, chunk, copied, used, pending_close, recv_buf, recv_len>>

ConnectSyn == /\ call = "connect_syn" /\ Goto("connect_wait")
              /\ Transmit(Segment("SYN", iss, << >>))
              /\ UNCHANGED <<socket, peer, past>>

ConnectDone == /\ call = "connect_wait" /\ state = "ESTABLISHED"
               /\ Return
               /\ UNCHANGED <<socket, out, peer, past>>

ConnectTimeout ==
    /\ call = "connect_wait" /\ Return
    /\ state' = "CLOSED"
    /\ UNCHANGED <<used, pending_close, sending, receiving, out, peer, past>>

-----------------------------------------------------------------------------
(* NET_SEND, TcpSend. *)

SendEnter(n) ==
    /\ call = "none" /\ fd /\ used /\ state = "ESTABLISHED"
    /\ wrote + n <= MaxWrite
    /\ call' = "send" /\ len' = n /\ sent' = 0
    /\ UNCHANGED <<fd, chunk, copied, wrote, got, socket, out, peer, past>>

(* All sent, or no window until the time-out, or the segment cannot go out. *)
SendReturn == /\ call = "send" /\ Return
              /\ UNCHANGED <<socket, out, peer, past>>

Least(a, b) == IF a < b THEN a ELSE b

(* A slip of TcpSend: each chunk cut from the start. *)
SendChunk_FromStart ==
    /\ call = "send" /\ sent < len
    /\ InFlight < remote_window
    /\ LET n == Least(len - sent, Least(TCP_MSS, remote_window))
       IN  /\ chunk' = n
           /\ Transmit(Segment("DATA", snd_nxt, [i \in 1 .. n |-> wrote - sent + i]))
    /\ call' = "send_count"
    /\ UNCHANGED <<fd, len, sent, copied, wrote, got, socket, peer, past>>

(* One chunk leaves when less than a window is under way: up to another window. *)
SendChunk ==
    /\ call = "send" /\ sent < len
    /\ InFlight < remote_window
    /\ LET n == Least(len - sent, Least(TCP_MSS, remote_window))
       IN  /\ chunk' = n
           /\ Transmit(Segment("DATA", snd_nxt, [i \in 1 .. n |-> wrote + i]))
    /\ call' = "send_count"
    /\ UNCHANGED <<fd, len, sent, copied, wrote, got, socket, peer, past>>

(* snd_nxt moves only now: an answer handled before this step was ahead of it. *)
SendCount ==
    /\ call = "send_count"
    /\ snd_nxt' = Plus(snd_nxt, chunk)
    /\ sent' = sent + chunk /\ wrote' = wrote + chunk
    /\ retrans_count' = 0
    /\ call' = IF remote_window <= chunk THEN "send_wait" ELSE "send"
    /\ UNCHANGED <<fd, len, chunk, copied, got, used, state, pending_close, iss, snd_una,
                   remote_window, receiving, out, peer, past>>

(* The wait for the acknowledgement, or its time-out. *)
SendWaited == /\ call = "send_wait" /\ Goto("send")
              /\ UNCHANGED <<socket, out, peer, past>>

-----------------------------------------------------------------------------
(* NET_RECV, TcpRecv. *)

RecvEnter(n) == /\ call = "none" /\ fd /\ used
                /\ Len(got) + n <= MaxRead
                /\ call' = "recv" /\ len' = n
                /\ UNCHANGED <<fd, sent, chunk, copied, wrote, got, socket, out, peer, past>>

(* Nothing there: the end of the stream, the time-out, or another look. *)
RecvLook == /\ call = "recv" /\ recv_len = 0 /\ Goto("recv_wait")
            /\ UNCHANGED <<socket, out, peer, past>>

RecvReturn == /\ call = "recv_wait" /\ Return
              /\ UNCHANGED <<socket, out, peer, past>>

RecvAgain == /\ call = "recv_wait" /\ Goto("recv")
             /\ state \notin {"CLOSE_WAIT", "CLOSED", "FIN_WAIT_1", "FIN_WAIT_2"}
             /\ UNCHANGED <<socket, out, peer, past>>

RecvCopy == /\ call = "recv" /\ recv_len > 0
            /\ copied' = SubSeq(recv_buf, 1, Least(len, recv_len))
            /\ call' = "recv_shift"
            /\ UNCHANGED <<fd, len, sent, chunk, wrote, got, socket, out, peer, past>>

Shifted(n) == [i \in Cell |-> IF i + n <= recv_len THEN recv_buf[i + n] ELSE recv_buf[i]]

RecvShift == /\ call = "recv_shift" /\ Goto("recv_take")
             /\ recv_buf' = Shifted(Len(copied))
             /\ UNCHANGED <<used, state, pending_close, sending, rcv_nxt, recv_len,
                            out, peer, past>>

RecvTake_All ==
            /\ call = "recv_take"
            /\ recv_len' = 0
            /\ got' = got \o copied
            /\ call' = "none" /\ NoLocals
            /\ UNCHANGED <<fd, wrote, used, state, pending_close, sending,
                           rcv_nxt, recv_buf, out, peer, past>>

RecvTake == /\ call = "recv_take"
            /\ recv_len' = (recv_len - Len(copied)) % SeqSpace
            /\ got' = got \o copied
            /\ call' = "none" /\ NoLocals
            /\ UNCHANGED <<fd, wrote, used, state, pending_close, sending,
                           rcv_nxt, recv_buf, out, peer, past>>

-----------------------------------------------------------------------------
(* NET_CLOSE, TcpClose. *)

CloseEnter == /\ call = "none" /\ fd /\ used /\ state = "ESTABLISHED"
              /\ state' = "FIN_WAIT_1" /\ pending_close' = TRUE
              /\ Goto("close_fin")
              /\ UNCHANGED <<used, sending, receiving, out, peer, past>>

CloseFin == /\ call = "close_fin" /\ Goto("close_count")
            /\ Transmit(Segment("FIN", snd_nxt, << >>))
            /\ UNCHANGED <<socket, peer, past>>

CloseCount == /\ call = "close_count" /\ Goto("close_wait")
              /\ snd_nxt' = Plus(snd_nxt, 1)
              /\ UNCHANGED <<used, state, pending_close, iss, snd_una, remote_window,
                             retrans_count, receiving, out, peer, past>>

(* The wait ends in the state CLOSED or by its time-out. *)
CloseFree == /\ \/ call = "close_wait"
                \/ call = "none" /\ fd /\ used /\ state # "ESTABLISHED"
             /\ Clear(FALSE) /\ past' = {}
             /\ call' = "none" /\ fd' = FALSE /\ NoLocals
             /\ UNCHANGED <<wrote, got>>

(* Ctrl+C: the program and its call are gone, the socket stays. *)
Kill == /\ fd
        /\ fd' = FALSE /\ call' = "none" /\ NoLocals
        /\ UNCHANGED <<wrote, got, socket, out, peer, past>>

-----------------------------------------------------------------------------
(* The peer, external: it takes the SYN and then, of the segments that reach
   it, what comes next. *)

PeerTakesSyn == /\ ~known /\ \E seg \in out : seg.flag = "SYN"
                /\ known' = TRUE
                /\ UNCHANGED <<socket, program, out, pgot, pfin, past>>

PeerTakes(seg) ==
    LET from == Off(seg.seq) - 1
        next == Len(pgot) - from
    IN  /\ known /\ ~pfin
        /\ \/ /\ seg.flag = "DATA" /\ next \in 0 .. Len(seg.bytes) - 1
              /\ pgot' = pgot \o SubSeq(seg.bytes, next + 1, Len(seg.bytes))
              /\ UNCHANGED pfin
           \/ /\ seg.flag = "FIN" /\ next = 0
              /\ pfin' = TRUE /\ UNCHANGED pgot
        /\ UNCHANGED <<socket, program, out, known, past>>

(* What the peer has acknowledged at some time: 1 is the SYN. *)
PeerAcks == 1 .. Len(pgot) + 1 + (IF pfin THEN 1 ELSE 0)

(* Bytes from .. from+n-1 of what the peer sends; the FIN comes after the last. *)
PeerSegments ==
    {m \in [from : 1 .. PeerLen + 1, n : 0 .. PeerLen, fin : BOOLEAN,
            ack : {Plus(iss, a) : a \in PeerAcks}, window : Windows] :
        /\ m.from + m.n <= PeerLen + 1
        /\ m.fin => m.from + m.n = PeerLen + 1}

-----------------------------------------------------------------------------
(* TcpHandlePacket, called by the timer interrupt.  TcpFindSocket found the
   socket: it is used, and its ports are those of the packet. *)

Connected == {"ESTABLISHED", "FIN_WAIT_1", "FIN_WAIT_2", "CLOSE_WAIT"}

HandleSynAck(w) ==
    /\ used /\ known
    /\ remote_window' = w
    /\ IF state = "SYN_SENT"
       THEN /\ snd_una' = Plus(iss, 1) /\ rcv_nxt' = 1
            /\ state' = "ESTABLISHED"
       ELSE UNCHANGED <<snd_una, rcv_nxt, state>>
    /\ UNCHANGED <<used, pending_close, iss, snd_nxt, retrans_count, recv_buf, recv_len,
                   program, out, peer, past>>

Taken_AnySeq(m) == IF m.from <= rcv_nxt THEN Least(m.n, TCP_BUF_SIZE - recv_len) ELSE 0
Taken_NoSpace(m) == IF m.from = rcv_nxt THEN m.n ELSE 0

(* How much of the segment is taken: it comes next, and has room. *)
Taken(m) == IF m.from = rcv_nxt THEN Least(m.n, TCP_BUF_SIZE - recv_len) ELSE 0

HandleData(m) ==
    /\ recv_buf' = [i \in Cell |-> IF i \in recv_len + 1 .. recv_len + Taken(m)
                                   THEN m.from + (i - recv_len - 1) ELSE recv_buf[i]]
    /\ recv_len' = recv_len + Taken(m)

HandleAck_NoUpper(m) == snd_una' = IF m.ack > snd_una THEN m.ack ELSE snd_una
HandleAck(m) ==
    snd_una' = IF m.ack > snd_una /\ m.ack <= snd_nxt THEN m.ack ELSE snd_una

AfterFin_Closed(m) == IF state = "ESTABLISHED" THEN "CLOSE_WAIT" ELSE "CLOSED"
AfterFin(m) == CASE state = "ESTABLISHED" -> "CLOSE_WAIT"
                 [] state = "FIN_WAIT_1" -> IF m.ack = snd_nxt THEN "TIME_WAIT" ELSE "CLOSING"
                 [] state = "FIN_WAIT_2" -> "TIME_WAIT"
                 [] OTHER -> state

AfterAck_AnyAck(st, m) == IF st = "FIN_WAIT_1" /\ m.ack >= snd_una THEN "FIN_WAIT_2" ELSE st

(* The tests at the end: CLOSING and FIN_WAIT_1 go on once the FIN is acknowledged. *)
AfterAck(st, m) ==
    CASE st = "CLOSING" /\ m.ack >= snd_nxt -> "TIME_WAIT"
      [] st = "FIN_WAIT_1" /\ m.ack >= snd_nxt -> "FIN_WAIT_2"
      [] OTHER -> st

(* A FIN with pending_close set never meets CLOSE_WAIT: see CloseWaitsOut. *)
HandleSegment(m) ==
    /\ used /\ known /\ state \in Connected
    /\ m.fin => rcv_nxt <= PeerLen + 2
    /\ remote_window' = m.window
    /\ HandleData(m) /\ HandleAck(m)
    /\ rcv_nxt' = rcv_nxt + Taken(m) + (IF m.fin THEN 1 ELSE 0)
    /\ state' = AfterAck(IF m.fin THEN AfterFin(m) ELSE state, m)
    /\ past' = past
          \cup (IF call = "recv_take" /\ Taken(m) > 0 THEN {"raced"} ELSE {})
          \cup (IF m.fin /\ rcv_nxt + Taken(m) <= PeerLen THEN {"early"} ELSE {})
          \cup (IF call \in {"close_fin", "close_count"} THEN {"rushed"} ELSE {})
    /\ UNCHANGED <<used, pending_close, iss, snd_nxt, retrans_count, program, out, peer>>

(* In the other states a segment only sets the window. *)
HandleLate(w) == /\ used /\ known /\ state \notin Connected
                 /\ remote_window' = w
                 /\ UNCHANGED <<used, state, pending_close, iss, snd_una, snd_nxt,
                                retrans_count, receiving, program, out, peer, past>>

-----------------------------------------------------------------------------
(* TcpPoll, after the packets of the tick.  What is sent again is send_buf,
   which nothing ever fills. *)

Retransmit ==
    /\ used /\ retrans_count < MaxRetrans
    /\ retrans_count' = retrans_count + 1
    /\ \/ /\ state = "SYN_SENT"
          /\ Transmit(Segment("SYN", iss, << >>)) /\ UNCHANGED past
       \/ /\ state = "ESTABLISHED" /\ snd_una < snd_nxt
          /\ Transmit(Segment("DATA", snd_una, [i \in 1 .. Least(InFlight, TCP_MSS) |-> 0]))
          /\ past' = past \cup {"resent"}
       \/ /\ state = "ESTABLISHED" /\ snd_una >= snd_nxt
          /\ UNCHANGED <<out, past>>
    /\ UNCHANGED <<used, state, pending_close, iss, snd_una, snd_nxt, remote_window,
                   receiving, program, peer>>

PollFree_TimeWait == /\ used /\ state \in {"CLOSED", "TIME_WAIT"}
                     /\ Clear(FALSE) /\ past' = {} /\ UNCHANGED program
PollFree == /\ used /\ state = "CLOSED"
            /\ Clear(FALSE) /\ past' = {} /\ UNCHANGED program

Next == \/ SocketCreate \/ Kill
        \/ ConnectCheck \/ ConnectSet \/ ConnectSyn \/ ConnectDone \/ ConnectTimeout
        \/ \E n \in 1 .. MaxWrite : SendEnter(n)
        \/ SendReturn \/ SendChunk \/ SendCount \/ SendWaited
        \/ \E n \in 1 .. TCP_BUF_SIZE : RecvEnter(n)
        \/ RecvLook \/ RecvReturn \/ RecvAgain \/ RecvCopy \/ RecvShift \/ RecvTake
        \/ CloseEnter \/ CloseFin \/ CloseCount \/ CloseFree
        \/ PeerTakesSyn \/ \E seg \in out : PeerTakes(seg)
        \/ \E w \in Windows : HandleSynAck(w) \/ HandleLate(w)
        \/ \E m \in PeerSegments : HandleSegment(m)
        \/ Retransmit \/ PollFree

Spec == Init /\ [][Next]_vars

-----------------------------------------------------------------------------
TypeOK ==
    /\ used \in BOOLEAN /\ pending_close \in BOOLEAN
    /\ state \in Connected \cup {"CLOSED", "SYN_SENT", "CLOSING", "TIME_WAIT"}
    /\ {iss, snd_una, snd_nxt} \subseteq 0 .. SeqSpace - 1
    /\ rcv_nxt \in 0 .. PeerLen + 3 /\ remote_window \in Windows \cup {0, TCP_BUF_SIZE}
    /\ retrans_count \in 0 .. MaxRetrans
    /\ recv_buf \in [Cell -> 0 .. PeerLen] /\ recv_len \in 0 .. SeqSpace - 1
    /\ used => recv_len <= TCP_BUF_SIZE
    /\ wrote \in 0 .. MaxWrite /\ Len(got) <= MaxRead

(* The bytes that have come: the program's, those TcpRecv is handing it, and
   those in the buffer. *)
Stream == IF call = "recv_take"
          THEN got \o copied \o SubSeq(recv_buf, 1, recv_len - Len(copied))
          ELSE got \o SubSeq(recv_buf, 1, recv_len)

PeerStream == [i \in 1 .. PeerLen |-> i]

Clean == used /\ fd /\ past \cap {"raced", "early", "stale"} = {}

(* Whatever the network loses, repeats and reorders, the program receives the
   peer's bytes in order, each once: TcpHandlePacket appends while TcpRecv
   copies, shifts and subtracts with interrupts on.  The exceptions are three,
   named in "past". *)
ReceivedIsPrefix == Clean => IsPrefix(Stream, PeerStream)

(* In the states where TcpRecv reports the end of the stream, all of it has come. *)
EndOfStream == Clean /\ state \in {"CLOSE_WAIT", "CLOSING", "TIME_WAIT"}
                 => Stream = PeerStream

(* The peer has the program's bytes, in order, or zeros in their place, and
   zeros only after TcpPoll has sent something again. *)
PeerGetsBytesOrZeros ==
    /\ fd => Len(pgot) <= wrote + chunk
    /\ \A i \in DOMAIN pgot : pgot[i] = i \/ (pgot[i] = 0 /\ "resent" \in past)

(* TcpPoll says it retransmits unacknowledged data: the peer should have the
   program's bytes only. *)
RetransmitsData == \A i \in DOMAIN pgot : pgot[i] = i

(* An acknowledgement never runs ahead of what is counted as sent or of what
   the peer has, though TcpSend counts a segment after sending it. *)
AckedIsTaken == used => /\ Off(snd_una) <= Off(snd_nxt)
                        /\ Off(snd_una) <= Len(pgot) + 1 + (IF pfin THEN 1 ELSE 0)

(* The timer interrupt frees sockets (TcpPoll), but never under a TcpSend or a
   TcpClose, and TcpConnect alone can lose its socket before it has begun. *)
NotFreedInUse == call \in {"send", "send_count", "send_wait",
                           "close_fin", "close_count", "close_wait"} => used

(* Our FIN is acknowledged in FIN_WAIT_2: the peer has taken it.  The exceptions
   are an answer handled before TcpClose has counted the FIN, and sequence
   numbers that wrap, which the comparison does not expect. *)
FinWait2MeansFinTaken ==
    used /\ fd /\ state = "FIN_WAIT_2" /\ "rushed" \notin past /\ snd_nxt >= iss => pfin

(* TcpClose always waits for its whole time-out: the state CLOSED it waits for
   does not come, nor does LAST_ACK, which would lead there. *)
CloseWaitsOut == /\ call = "close_wait" => state # "CLOSED"
                 /\ ~(state = "CLOSE_WAIT" /\ pending_close)
============================================================================
