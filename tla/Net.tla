-------------------------------- MODULE Net --------------------------------
(***************************************************************************)
(* A process in DNS_RESOLVE, from udp.c through ipv4.c and arp.c down to    *)
(* the transmit ring of e1000.c, with interrupts on; the timer interrupt,   *)
(* whose NetPoll takes the frames that came in, between any two steps; the  *)
(* network, which loses, repeats and delays datagrams; and Ctrl+C, which    *)
(* ends the process wherever its call has got to.                           *)
(***************************************************************************)
EXTENDS Integers, Sequences, FiniteSetsExt

CONSTANTS Names,      \* host names
          Server,     \* the address of the name server
          Others,     \* and other addresses: the MAC address of a host is its own
          CacheSize,  \* entries of the ARP cache
          RingSize,   \* descriptors of the transmit ring
          MaxCalls,   \* bounds on the calls of DNS_RESOLVE
          MaxPackets  \* and on the frames that come in

NetAssumption == CacheSize \in Nat \ {0} /\ RingSize \in Nat \ {0}

Hosts == {Server} \cup Others
NoFrame == [type |-> "none", to |-> Server, name |-> ""]
NoEntry == [valid |-> FALSE, ip |-> Server, mac |-> Server, time |-> 0]
NoDatagram == [here |-> FALSE, port |-> "dns", of |-> ""]

VARIABLES
    cache,                    \* g_arp_cache
    datagram,                 \* g_udp_buf, g_udp_len and g_udp_port
    tx_buf, dd, tx_tail,      \* the ring: buffers, "descriptor done", and where it ends
    tdt, tdh,                 \* the registers of the device: tail and head
    pc, name, try, answer,    \* DnsResolve
    idx, frame, slot,         \* ArpResolve; E1000SendFrame
    calls, packets,           \* counters, the second serves as the clock
    \* history
    asked,                    \* names whose queries were sent
    unsent,                   \* the frames E1000SendFrame accepted and the device has not sent
    wrong,                    \* the device sent another frame than the next of those
    past                      \* what has gone wrong:
                              \*   reentered  a frame was sent during E1000SendFrame
                              \*   abandoned  a process was killed in E1000SendFrame with
                              \*              a descriptor that the device does not know of
                              \*   filled     the tail of the ring has met its head
                              \*   evicted    the ARP entry just found was replaced
                              \*   late       an answer came during another question
                              \*   replaced   a datagram came over the one just found

ring == <<tx_buf, dd, tx_tail, tdt, tdh>>
locals == <<name, try, answer, idx, frame, slot>>
counters == <<calls, packets>>
history == <<asked, unsent, wrong>>
vars == <<cache, datagram, ring, pc, locals, counters, history, past>>

Init == /\ cache = [i \in 1 .. CacheSize |-> NoEntry] /\ datagram = NoDatagram
        /\ tx_buf = [i \in 0 .. RingSize - 1 |-> NoFrame] /\ dd = [i \in 0 .. RingSize - 1 |-> TRUE]
        /\ tx_tail = 0 /\ tdt = 0 /\ tdh = 0
        /\ pc = "none" /\ name = "" /\ try = 0 /\ answer = "" /\ idx = 0
        /\ frame = NoFrame /\ slot = 0 /\ calls = 0 /\ packets = 0
        /\ asked = {} /\ unsent = <<>> /\ wrong = FALSE /\ past = {}

-----------------------------------------------------------------------------
(* E1000SendFrame, by the process step by step and by the interrupt at once. *)

Sending == {"look", "buffer", "clear", "tail", "doorbell"}

SendFrame(f) == pc' = "send" /\ frame' = f

SendRead ==
    /\ pc = "send" /\ pc' = "look" /\ slot' = tx_tail
    /\ UNCHANGED <<cache, datagram, ring, name, try, answer, idx, frame, counters, history, past>>

(* The descriptor that was at the tail is looked at. *)
SendLook ==
    /\ pc = "look"
    /\ pc' = IF dd[slot] THEN "buffer" ELSE "sent"
    /\ UNCHANGED <<cache, datagram, ring, locals, counters, history, past>>

SendBuffer ==
    /\ pc = "buffer" /\ pc' = "clear"
    /\ tx_buf' = [tx_buf EXCEPT ![slot] = frame]
    /\ UNCHANGED <<cache, datagram, dd, tx_tail, tdt, tdh, locals, counters, history, past>>

SendClear ==
    /\ pc = "clear" /\ pc' = "tail"
    /\ dd' = [dd EXCEPT ![slot] = FALSE]
    /\ UNCHANGED <<cache, datagram, tx_buf, tx_tail, tdt, tdh, locals, counters, history, past>>

SendTail ==
    /\ pc = "tail" /\ pc' = "doorbell" /\ tx_tail' = (slot + 1) % RingSize
    /\ UNCHANGED <<cache, datagram, tx_buf, dd, tdt, tdh, locals, counters, history, past>>

Doorbell_NotMoved(s, f) ==
    /\ tdt' = s
    /\ unsent' = Append(unsent, f)

Doorbell(s, f) ==
    /\ tdt' = (s + 1) % RingSize
    /\ unsent' = Append(unsent, f)

Filled(s) == (s + 1) % RingSize = tdh

SendDoorbell ==
    /\ pc = "doorbell" /\ pc' = "sent" /\ Doorbell(slot, frame)
    /\ asked' = IF frame.type = "query" THEN asked \cup {frame.name} ELSE asked
    /\ past' = IF Filled(slot) THEN past \cup {"filled"} ELSE past
    /\ UNCHANGED <<cache, datagram, tx_buf, dd, tx_tail, tdh, locals, counters, wrong>>

InterruptSends(f) ==
    IF dd[tx_tail]
    THEN /\ tx_buf' = [tx_buf EXCEPT ![tx_tail] = f]
         /\ dd' = [dd EXCEPT ![tx_tail] = FALSE]
         /\ tx_tail' = (tx_tail + 1) % RingSize /\ Doorbell(tx_tail, f)
         /\ past' = past \cup (IF pc \in Sending THEN {"reentered"} ELSE {})
                         \cup (IF Filled(tx_tail) THEN {"filled"} ELSE {})
    ELSE UNCHANGED <<tx_buf, dd, tx_tail, tdt, unsent, past>>

(* The device sends what is between its head and its tail. *)
Transmit ==
    /\ tdh # tdt
    /\ wrong' = (wrong \/ unsent = <<>> \/ Head(unsent) # tx_buf[tdh])
    /\ unsent' = IF unsent = <<>> THEN <<>> ELSE Tail(unsent)
    /\ dd' = [dd EXCEPT ![tdh] = TRUE] /\ tdh' = (tdh + 1) % RingSize
    /\ UNCHANGED <<cache, datagram, tx_buf, tx_tail, tdt, pc, locals, counters, asked, past>>

-----------------------------------------------------------------------------
(* ArpFindEntry, ArpAllocEntry and ArpUpdateCache. *)

Found(ip) == {i \in 1 .. CacheSize : cache[i].valid /\ cache[i].ip = ip}

AllocEntry ==
    LET empty == {i \in 1 .. CacheSize : ~cache[i].valid}
        least == Min({cache[i].time : i \in 1 .. CacheSize})
    IN  IF empty # {} THEN Min(empty) ELSE Min({i \in 1 .. CacheSize : cache[i].time = least})

UpdateCache_MacOnly(ip) ==
    LET i == IF Found(ip) # {} THEN Min(Found(ip)) ELSE AllocEntry
    IN  /\ cache' = [cache EXCEPT ![i] = [valid |-> TRUE, ip |-> IF @.valid THEN @.ip ELSE ip,
                                          mac |-> ip, time |-> packets]]
        /\ past' = IF pc = "mac" /\ i = idx /\ cache[i].ip # ip THEN past \cup {"evicted"} ELSE past

UpdateCache(ip) ==
    LET i == IF Found(ip) # {} THEN Min(Found(ip)) ELSE AllocEntry
    IN  /\ cache' = [cache EXCEPT ![i] = [valid |-> TRUE, ip |-> ip, mac |-> ip, time |-> packets]]
        /\ past' = IF pc = "mac" /\ i = idx /\ cache[i].ip # ip THEN past \cup {"evicted"} ELSE past

-----------------------------------------------------------------------------
(* DnsResolve: UdpSend and Ipv4Send build the query; the name server is on the
   local network. *)

DnsResolve(n) ==
    /\ pc = "none" /\ calls < MaxCalls
    /\ calls' = calls + 1 /\ name' = n /\ try' = 1 /\ answer' = "" /\ pc' = "resolve"
    /\ past' = past \ {"late", "replaced", "evicted"}
    /\ UNCHANGED <<cache, datagram, ring, idx, frame, slot, packets, history>>

(* ArpResolve: the entry is found, then its address is copied; with none a request
   is sent, and the query is not. *)
ArpFind ==
    /\ pc = "resolve"
    /\ IF Found(Server) # {} THEN idx' = Min(Found(Server)) /\ pc' = "mac" /\ UNCHANGED frame
       ELSE SendFrame([type |-> "request", to |-> Server, name |-> ""]) /\ UNCHANGED idx
    /\ UNCHANGED <<cache, datagram, ring, name, try, answer, slot, counters, history, past>>

ArpCopy ==
    /\ pc = "mac" /\ SendFrame([type |-> "query", to |-> cache[idx].mac, name |-> name])
    /\ UNCHANGED <<cache, datagram, ring, name, try, answer, idx, slot, counters, history, past>>

(* UdpRecv forgets what came before it, whatever became of the query. *)
Forget_Nothing == datagram
Forget == NoDatagram

RecvClear ==
    /\ pc = "sent" /\ pc' = "wait" /\ datagram' = Forget
    /\ UNCHANGED <<cache, ring, locals, counters, history, past>>

RecvLook ==
    /\ pc = "wait" /\ datagram.here /\ datagram.port = "dns"
    /\ pc' = "copy"
    /\ UNCHANGED <<cache, datagram, ring, locals, counters, history, past>>

RecvCopy ==
    /\ pc = "copy" /\ pc' = "parse" /\ answer' = datagram.of
    /\ datagram' = [datagram EXCEPT !.here = FALSE]
    /\ UNCHANGED <<cache, ring, name, try, idx, frame, slot, counters, history, past>>

(* Nobody compares the id, the question or the sender of the answer. *)
Parse == /\ pc = "parse" /\ pc' = "none"
         /\ UNCHANGED <<cache, datagram, ring, locals, counters, history, past>>

(* Three seconds without an answer: once more, then 0. *)
TimeOut ==
    /\ pc = "wait"
    /\ IF try = 1 THEN try' = 2 /\ pc' = "resolve" ELSE pc' = "none" /\ UNCHANGED try
    /\ UNCHANGED <<cache, datagram, ring, name, answer, idx, frame, slot, counters, history, past>>

-----------------------------------------------------------------------------
(* Ctrl+C: the program that asked is gone, and its call stays as it is. *)

Kill ==
    /\ pc # "none" /\ pc' = "none"
    /\ past' = IF pc \in {"tail", "doorbell"} THEN past \cup {"abandoned"} ELSE past
    /\ UNCHANGED <<cache, datagram, ring, locals, counters, history>>

-----------------------------------------------------------------------------
(* The frames NetPoll takes. *)

Arrives == packets < MaxPackets /\ packets' = packets + 1

ArpReply(h) == /\ Arrives /\ UpdateCache(h)
               /\ UNCHANGED <<datagram, ring, pc, locals, calls, history>>

ArpRequest(h) == /\ Arrives /\ InterruptSends([type |-> "reply", to |-> h, name |-> ""])
                 /\ UNCHANGED <<cache, datagram, tdh, pc, locals, calls, asked, wrong>>

(* UdpHandlePacket puts a datagram in the one place there is. *)
Datagram(port, n) ==
    /\ Arrives /\ datagram' = [here |-> TRUE, port |-> port, of |-> n]
    /\ past' = past \cup (IF pc = "copy" THEN {"replaced"} ELSE {})
                    \cup (IF pc = "wait" /\ port = "dns" /\ n # name THEN {"late"} ELSE {})
    /\ UNCHANGED <<cache, ring, pc, locals, calls, history>>

Process == \/ \E n \in Names : DnsResolve(n)
           \/ ArpFind \/ ArpCopy
           \/ SendRead \/ SendLook \/ SendBuffer \/ SendClear \/ SendTail \/ SendDoorbell
           \/ RecvClear \/ RecvLook \/ RecvCopy \/ Parse \/ TimeOut

NetPoll == \/ \E h \in Hosts : ArpReply(h)
           \/ \E h \in Others : ArpRequest(h)
           \/ \E n \in asked : Datagram("dns", n)
           \/ Datagram("other", "")

Next == Process \/ Kill \/ NetPoll \/ Transmit

-----------------------------------------------------------------------------
(* The frames the device sends are those E1000SendFrame accepted, whole and in
   order, and when it has sent them all the next descriptor is free to take one:
   otherwise the ring is "full" for ever.  This holds as long as no interrupt sends
   a frame while a process is in E1000SendFrame, no process is killed there between
   the descriptor it has cleared and the doorbell, and the ring is never quite full:
   a tail that has met the head looks like an empty ring to the device. *)
FramesGoOut ==
    past \cap {"reentered", "abandoned", "filled"} = {} =>
        /\ ~wrong
        /\ tdh = tdt /\ pc \notin Sending => unsent = <<>> /\ dd[tx_tail]

(* A query goes to the name server, not to the host whose entry has taken the place
   of the server's in the ARP cache; but for an interrupt that replaces the entry
   between ArpFindEntry and the copy of its address. *)
QueryGoesToServer ==
    pc \in Sending /\ frame.type = "query" => frame.to = Server \/ "evicted" \in past

(* What DnsResolve returns is the address of the name it was asked for, or 0, even
   after questions given up and answers repeated; but for an answer to another
   question that comes while this one waits, and for a datagram that takes the
   place of the one UdpRecv has just seen. *)
AnswerIsOwn ==
    pc = "parse" => answer = name \/ past \cap {"late", "replaced"} # {}
============================================================================
