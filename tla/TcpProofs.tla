------------------------------ MODULE TcpProofs ------------------------------
(***************************************************************************)
(* Theorems about Tcp: for buffers, windows and sequence numbers of any    *)
(* size, any number of bytes on either side, and a network that loses,     *)
(* repeats and reorders.                                                   *)
(***************************************************************************)
EXTENDS Tcp, SequenceTheorems, TLAPS

Connects == {"connect_set", "connect_syn", "connect_wait"}
Sends == {"send", "send_count", "send_wait"}
Recvs == {"recv", "recv_wait", "recv_shift", "recv_take"}
Closes == {"close_fin", "close_count", "close_wait"}

Closing == {"FIN_WAIT_1", "FIN_WAIT_2", "CLOSING", "TIME_WAIT"}
Ended == {"CLOSE_WAIT", "CLOSING", "TIME_WAIT"}

SegmentSet == [flag : {"SYN", "DATA", "FIN"}, seq : 0 .. SeqSpace - 1, bytes : Seq(Nat)]

(* What TypeOK leaves open. *)
LocalsOK ==
    /\ fd \in BOOLEAN /\ call \in {"none"} \cup Connects \cup Sends \cup Recvs \cup Closes
    /\ len \in Nat /\ sent \in Nat /\ chunk \in Nat
    /\ copied \in Seq(0 .. PeerLen) /\ got \in Seq(0 .. PeerLen)
    /\ out \subseteq SegmentSet /\ known \in BOOLEAN /\ pfin \in BOOLEAN /\ pgot \in Seq(Nat)
    /\ past \subseteq {"raced", "early", "stale", "resent", "rushed"}

(* In which state of the socket a call can be. *)
CallInv ==
    /\ pending_close <=> state \in Closing
    /\ call # "none" => fd
    /\ state \notin {"CLOSED", "SYN_SENT"} => used
    /\ call \in Sends => state \in {"ESTABLISHED", "CLOSE_WAIT"}
    /\ fd => (pending_close <=> call \in Closes)

(* What TcpSend has sent and not yet counted. *)
Uncounted == IF call = "send_count" THEN chunk ELSE 0

SendInv == call \in Sends => /\ sent + Uncounted <= len
                             /\ wrote + (len - sent) <= MaxWrite

(* The sequence numbers count the bytes: the first is that of the SYN, the last that
   of the FIN. *)
CountInv ==
    /\ Off(snd_una) <= Off(snd_nxt)
    /\ Off(snd_nxt) <= MaxWrite + (IF pending_close THEN 2 ELSE 1)
    /\ state = "SYN_SENT" => Off(snd_nxt) = 1 /\ wrote = 0
    /\ state \notin {"CLOSED", "SYN_SENT"} => Off(snd_una) >= 1
    /\ fd /\ state \notin {"CLOSED", "SYN_SENT"} =>
           Off(snd_nxt) = wrote + (IF call = "close_wait" THEN 2 ELSE 1)
    /\ Off(snd_una) <= Len(pgot) + 1 + (IF pfin THEN 1 ELSE 0)

(* The bytes after the first n are the program's, or zeros. *)
Genuine(bytes, n) ==
    \A i \in DOMAIN bytes : bytes[i] = n + i \/ (bytes[i] = 0 /\ "resent" \in past)

Counted(n) == n <= MaxWrite /\ (fd => n <= wrote + Uncounted)

OutInv == \A seg \in out : seg.flag = "DATA" =>
              /\ Off(seg.seq) >= 1
              /\ Counted(Off(seg.seq) - 1 + Len(seg.bytes))
              /\ Genuine(seg.bytes, Off(seg.seq) - 1)

PeerInv == Counted(Len(pgot)) /\ Genuine(pgot, 0)

(* A receiving call has room for what it copies; it never reads a slot that is not in use. *)
RoomInv ==
    /\ call \in Recvs => Len(got) + len <= MaxRead
    /\ call \in {"recv_shift", "recv_take"} => Len(copied) <= len
    /\ used /\ call \in {"recv_shift", "recv_take"} => Len(copied) <= recv_len
    /\ call \in Recvs /\ ~used => recv_len = 0
    /\ IF state = "SYN_SENT" THEN rcv_nxt = 0 ELSE state # "CLOSED" => rcv_nxt >= 1

(* Where the bytes of the peer's stream are: what TcpRecv copies is still in the buffer
   until it has shifted it. *)
Come == Len(got) + recv_len

PlaceInv ==
    /\ Come <= PeerLen
    /\ \A i \in 1 .. Len(got) : got[i] = i
    /\ call \in {"recv_shift", "recv_take"} =>
           \A i \in 1 .. Len(copied) : copied[i] = Len(got) + i
    /\ call # "recv_take" => \A i \in 1 .. recv_len : recv_buf[i] = Len(got) + i
    /\ call = "recv_take" => \A i \in 1 .. recv_len - Len(copied) :
                                 recv_buf[i] = Len(got) + Len(copied) + i

(* rcv_nxt is the place of the next byte, or behind the FIN. *)
NextInv ==
    /\ \/ rcv_nxt = 0 /\ Come = 0
       \/ rcv_nxt = Come + 1
       \/ rcv_nxt >= PeerLen + 2 /\ Come = PeerLen
    /\ state \in Ended => Come = PeerLen

StreamInv == Clean => PlaceInv /\ NextInv

FinInv ==
    /\ FinWait2MeansFinTaken
    /\ call \in {"close_fin", "close_count"} /\ state # "FIN_WAIT_1" => "rushed" \in past

IInv == /\ TypeOK /\ LocalsOK /\ CallInv /\ SendInv /\ CountInv /\ OutInv /\ PeerInv
        /\ RoomInv /\ StreamInv /\ FinInv

-----------------------------------------------------------------------------
(* Sequence numbers. *)

LEMMA Remainders ==
    ASSUME NEW m \in Nat \ {0}, NEW x \in Int
    PROVE  /\ x % m \in 0 .. m - 1
           /\ x \in 0 .. m - 1 => x % m = x
           /\ x \in m .. m + m - 1 => x % m = x - m
           /\ x < 0 /\ x >= -m => x % m = x + m
<1>1. x % m \in 0 .. m - 1
  BY Z3
<1>2. x \in 0 .. m - 1 => x % m = x
  BY Z3
<1>3. x \in m .. m + m - 1 => x % m = x - m
  BY Z3
<1>4. x < 0 /\ x >= -m => x % m = x + m
  BY Z3
<1> QED  BY <1>1, <1>2, <1>3, <1>4

Number == 0 .. SeqSpace - 1

LEMMA DistIs ==
    ASSUME NEW s1 \in Number, NEW s2 \in Number
    PROVE  /\ Dist(s1, s2) \in Number
           /\ Dist(s1, s2) = IF s1 <= s2 THEN s2 - s1 ELSE s2 - s1 + SeqSpace
<1> DEFINE x == s2 - s1
<1>1. SeqSpace \in Nat \ {0} /\ x \in Int
  BY TcpAssumption DEF Number
<1>2. /\ x % SeqSpace \in 0 .. SeqSpace - 1
      /\ x \in 0 .. SeqSpace - 1 => x % SeqSpace = x
      /\ x < 0 /\ x >= -SeqSpace => x % SeqSpace = x + SeqSpace
  BY <1>1, Remainders
<1>3. Dist(s1, s2) = x % SeqSpace
  BY DEF Dist
<1> QED  BY <1>1, <1>2, <1>3 DEF Number

LEMMA PlusIs ==
    ASSUME NEW s \in Number, NEW n \in Number
    PROVE  /\ Plus(s, n) \in Number
           /\ Plus(s, n) = IF s + n < SeqSpace THEN s + n ELSE s + n - SeqSpace
<1> DEFINE x == s + n
<1>1. SeqSpace \in Nat \ {0} /\ x \in Int
  BY TcpAssumption DEF Number
<1>2. /\ x % SeqSpace \in 0 .. SeqSpace - 1
      /\ x \in 0 .. SeqSpace - 1 => x % SeqSpace = x
      /\ x \in SeqSpace .. SeqSpace + SeqSpace - 1 => x % SeqSpace = x - SeqSpace
  BY <1>1, Remainders
<1>3. Plus(s, n) = x % SeqSpace
  BY DEF Plus
<1> QED  BY <1>1, <1>2, <1>3 DEF Number

(* Adding moves on by what is added. *)
LEMMA DistPlus ==
    ASSUME NEW i \in Number, NEW s \in Number, NEW n \in Nat, Dist(i, s) + n < SeqSpace
    PROVE  Dist(i, Plus(s, n)) = Dist(i, s) + n /\ Plus(s, n) \in Number
<1>1. n \in Number
  BY DistIs, TcpAssumption DEF Number
<1>2. Plus(s, n) \in Number /\ Plus(s, n) = IF s + n < SeqSpace THEN s + n ELSE s + n - SeqSpace
  BY <1>1, PlusIs
<1>3. Dist(i, s) = IF i <= s THEN s - i ELSE s - i + SeqSpace
  BY DistIs
<1>4. Dist(i, Plus(s, n)) = IF i <= Plus(s, n) THEN Plus(s, n) - i ELSE Plus(s, n) - i + SeqSpace
  BY <1>2, DistIs
<1> HIDE DEF Number
<1> QED  BY <1>1, <1>2, <1>3, <1>4, TcpAssumption DEF Number

(* What lies between two numbers, the first before the second. *)
LEMMA DistBetween ==
    ASSUME NEW i \in Number, NEW s1 \in Number, NEW s2 \in Number, Dist(i, s1) <= Dist(i, s2)
    PROVE  Dist(s1, s2) = Dist(i, s2) - Dist(i, s1)
<1>1. Dist(i, s1) = IF i <= s1 THEN s1 - i ELSE s1 - i + SeqSpace
  BY DistIs
<1>2. Dist(i, s2) = IF i <= s2 THEN s2 - i ELSE s2 - i + SeqSpace
  BY DistIs
<1>3. Dist(s1, s2) = IF s1 <= s2 THEN s2 - s1 ELSE s2 - s1 + SeqSpace
  BY DistIs
<1> QED  BY <1>1, <1>2, <1>3, TcpAssumption DEF Number

(* The plain comparisons of TcpHandlePacket: what they accept is between the two,
   although the numbers wrap. *)
LEMMA AckBetween ==
    ASSUME NEW i \in Number, NEW una \in Number, NEW nxt \in Number, NEW ack \in Number,
           Dist(i, una) <= Dist(i, nxt), ack > una, ack <= nxt
    PROVE  Dist(i, una) <= Dist(i, ack) /\ Dist(i, ack) <= Dist(i, nxt)
<1>1. Dist(i, una) = IF i <= una THEN una - i ELSE una - i + SeqSpace
  BY DistIs
<1>2. Dist(i, nxt) = IF i <= nxt THEN nxt - i ELSE nxt - i + SeqSpace
  BY DistIs
<1>3. Dist(i, ack) = IF i <= ack THEN ack - i ELSE ack - i + SeqSpace
  BY DistIs
<1> QED  BY <1>1, <1>2, <1>3, TcpAssumption DEF Number

LEMMA DistSelf == \A s \in Number : Dist(s, s) = 0
BY DistIs DEF Number

LEMMA NoBytes == /\ << >> \in Seq(Nat) /\ << >> \in Seq(0 .. PeerLen)
                 /\ Len(<< >>) = 0 /\ DOMAIN << >> = {}
OBVIOUS

LEMMA FcnIsSeq ==
    ASSUME NEW S, NEW n \in Nat, NEW f \in [1 .. n -> S]
    PROVE  f \in Seq(S) /\ Len(f) = n
OBVIOUS

LEMMA Typed == IInv => /\ iss \in Number /\ snd_una \in Number /\ snd_nxt \in Number
                       /\ recv_buf \in Seq(0 .. PeerLen) /\ Len(recv_buf) = TCP_BUF_SIZE
<1> SUFFICES ASSUME IInv PROVE recv_buf \in Seq(0 .. PeerLen) /\ Len(recv_buf) = TCP_BUF_SIZE
  BY DEF IInv, TypeOK, Number
<1>1. recv_buf \in [1 .. TCP_BUF_SIZE -> 0 .. PeerLen] /\ TCP_BUF_SIZE \in Nat
  BY TcpAssumption DEF IInv, TypeOK, Cell
<1> QED  BY <1>1, FcnIsSeq

LEMMA OffType ==
    IInv => /\ \A s \in Number : Off(s) \in Nat /\ Off(s) < SeqSpace
            /\ \A seg \in out : /\ Off(seg.seq) \in Nat /\ Len(seg.bytes) \in Nat
                                 /\ seg.seq \in Number /\ seg.bytes \in Seq(Nat)
<1> SUFFICES ASSUME IInv
             PROVE  /\ \A s \in Number : Off(s) \in Nat /\ Off(s) < SeqSpace
                    /\ \A seg \in out : /\ Off(seg.seq) \in Nat /\ Len(seg.bytes) \in Nat
                                         /\ seg.seq \in Number /\ seg.bytes \in Seq(Nat)
  OBVIOUS
<1>1. ASSUME NEW s \in Number PROVE Off(s) \in Nat /\ Off(s) < SeqSpace
  <2>1. Dist(iss, s) \in Number
    BY DistIs, Typed
  <2> QED  BY <2>1, TcpAssumption DEF Off, Number
<1>2. \A seg \in out : seg.seq \in Number /\ seg.bytes \in Seq(Nat)
  BY DEF IInv, LocalsOK, SegmentSet, Number
<1> QED  BY <1>1, <1>2

-----------------------------------------------------------------------------
(* A slot of zeros: at boot, taken, given back, freed by the timer. *)

LEMMA InitIInv == Init => IInv
<1> SUFFICES ASSUME Init PROVE IInv
  OBVIOUS
<1>1. Off(snd_una) = 0 /\ Off(snd_nxt) = 0 /\ 0 \in Number
  BY DistSelf, TcpAssumption DEF Init, Off, Number
<1>2. Blank \in [Cell -> 0 .. PeerLen]
  BY TcpAssumption DEF Blank
<1>3. TypeOK
  <2>1. used \in BOOLEAN /\ pending_close \in BOOLEAN
    BY DEF Init
  <2>2. /\ {iss, snd_una, snd_nxt} \subseteq 0 .. SeqSpace - 1 /\ recv_len \in 0 .. SeqSpace - 1
        /\ rcv_nxt \in 0 .. PeerLen + 3 /\ retrans_count \in 0 .. MaxRetrans
        /\ wrote \in 0 .. MaxWrite
    BY TcpAssumption DEF Init
  <2>3. Len(got) <= MaxRead
    BY NoBytes, TcpAssumption DEF Init
  <2> QED  BY <1>2, <2>1, <2>2, <2>3 DEF Init, TypeOK
<1>9. LocalsOK
  BY NoBytes DEF Init, LocalsOK
<1>4. CountInv /\ PeerInv /\ OutInv
  BY <1>1, NoBytes, TcpAssumption DEF Init, CountInv, PeerInv, OutInv, Counted, Genuine,
     Uncounted
<1> QED  BY <1>3, <1>9, <1>4 DEF Init, IInv, CallInv, SendInv, RoomInv, StreamInv, FinInv,
   Clean,
            FinWait2MeansFinTaken, Sends, Recvs, Closes, Closing

LEMMA ClearIInv ==
    ASSUME IInv, NEW u \in BOOLEAN, Clear(u), past' = {}, fd' \in BOOLEAN,
           \/ /\ fd' => fd
              /\ UNCHANGED <<wrote, got>>
              /\ \/ UNCHANGED <<call, len, sent, chunk, copied>> /\ UNCHANGED fd
                                                                 /\ call \notin Sends \cup Closes
                 \/ call' = "none" /\ NoLocals
              /\ ~u
           \/ fd' /\ wrote' = 0 /\ got' = << >> /\ call = "none"
              /\ UNCHANGED <<call, len, sent, chunk, copied>>
    PROVE  IInv'
<1> USE DEF IInv
<1>1. /\ used' = u /\ state' = "CLOSED" /\ pending_close' = FALSE
      /\ iss' = 0 /\ snd_una' = 0 /\ snd_nxt' = 0 /\ rcv_nxt' = 0 /\ remote_window' = 0
      /\ retrans_count' = 0 /\ recv_buf' = Blank /\ recv_len' = 0
      /\ out' = {} /\ known' = FALSE /\ pgot' = << >> /\ pfin' = FALSE
  BY DEF Clear, Forget
<1>2. Off(snd_una)' = 0 /\ Off(snd_nxt)' = 0
  BY <1>1, DistSelf, TcpAssumption DEF Off, Number
<1>3. Blank \in [Cell -> 0 .. PeerLen]
  BY TcpAssumption DEF Blank
<1>4. TypeOK'
  <2>1. used' \in BOOLEAN /\ pending_close' \in BOOLEAN
    BY <1>1
  <2>2. /\ {iss', snd_una', snd_nxt'} \subseteq 0 .. SeqSpace - 1 /\ recv_len' \in 0 .. SeqSpace - 1
        /\ rcv_nxt' \in 0 .. PeerLen + 3 /\ retrans_count' \in 0 .. MaxRetrans
        /\ wrote' \in 0 .. MaxWrite
    BY <1>1, TcpAssumption DEF TypeOK
  <2>3. Len(got') <= MaxRead
    BY NoBytes, TcpAssumption DEF TypeOK
  <2>4. recv_len' <= TCP_BUF_SIZE
    BY <1>1, TcpAssumption
  <2> QED  BY <1>1, <1>3, <2>1, <2>2, <2>3, <2>4 DEF TypeOK
<1>5. LocalsOK'
  <2>1. copied' \in Seq(0 .. PeerLen) /\ got' \in Seq(0 .. PeerLen)
    BY NoBytes DEF LocalsOK, NoLocals
  <2>2. len' \in Nat /\ sent' \in Nat /\ chunk' \in Nat
    BY DEF LocalsOK, NoLocals
  <2>3. out' \subseteq SegmentSet /\ known' \in BOOLEAN /\ pfin' \in BOOLEAN /\ pgot' \in Seq(Nat)
    BY <1>1, NoBytes
  <2> QED  BY <2>1, <2>2, <2>3 DEF LocalsOK
<1>6. CallInv' /\ SendInv' /\ RoomInv'
  BY <1>1, NoBytes, TcpAssumption DEF CallInv, SendInv, RoomInv, NoLocals, Sends, Recvs,
     Closes, Closing,
     LocalsOK, TypeOK, Uncounted
<1>7. CountInv'
  BY <1>1, <1>2, NoBytes, TcpAssumption DEF CountInv
<1>9. PeerInv' /\ OutInv'
  <2>1. Len(pgot') = 0 /\ DOMAIN pgot' = {}
    BY <1>1, NoBytes
  <2>2. wrote' \in Nat /\ chunk' \in Nat
    BY <1>4, <1>5, TcpAssumption DEF TypeOK, LocalsOK
  <2>3. Len(pgot') <= MaxWrite
    BY <2>1, TcpAssumption
  <2>4. Uncounted' \in Nat
    BY <2>2 DEF Uncounted
  <2>5. Len(pgot') <= wrote' + Uncounted'
    BY <2>1, <2>2, <2>4, \A a, b \in Nat : 0 <= a + b
  <2>6. \A i \in DOMAIN pgot' : FALSE
    BY <2>1
  <2>7. PeerInv'
    BY <2>3, <2>5, <2>6 DEF PeerInv, Counted, Genuine
  <2> QED  BY <1>1, <2>7 DEF OutInv
<1>8. StreamInv' /\ FinInv'
  BY <1>1, NoBytes, TcpAssumption DEF StreamInv, FinInv, Clean, FinWait2MeansFinTaken,
     PlaceInv, NextInv,
     Come, Closes, CallInv, Ended, NoLocals, Sends
<1> QED  BY <1>4, <1>5, <1>6, <1>7, <1>8, <1>9

LEMMA SocketCreateIInv == IInv /\ SocketCreate => IInv'
BY ClearIInv DEF SocketCreate

LEMMA CloseFreeIInv == IInv /\ CloseFree => IInv'
BY ClearIInv DEF CloseFree, IInv, LocalsOK

LEMMA PollFreeIInv == IInv /\ PollFree => IInv'
<1> SUFFICES ASSUME IInv, PollFree PROVE IInv'
  OBVIOUS
<1>1. call \notin Sends \cup Closes
  BY DEF IInv, CallInv, PollFree, Closing, LocalsOK, Connects, Sends, Recvs, Closes
<1>2. fd' \in BOOLEAN /\ UNCHANGED <<fd, call, len, sent, chunk, copied, wrote, got>>
  BY DEF PollFree, program, IInv, LocalsOK
<1>3. Clear(FALSE) /\ past' = {}
  BY DEF PollFree
<1> QED  BY <1>1, <1>2, <1>3, ClearIInv

-----------------------------------------------------------------------------
(* Steps that only move a call on. *)

LEMMA MoveIInv ==
    ASSUME IInv,
           \/ ConnectCheck \/ ConnectDone \/ ConnectTimeout
           \/ SendReturn \/ SendWaited \/ (\E n \in Nat : SendEnter(n))
           \/ RecvLook \/ RecvReturn \/ RecvAgain \/ (\E n \in Nat : RecvEnter(n))
           \/ PeerTakesSyn
    PROVE  IInv'
<1> USE NoBytes, TcpAssumption
    DEF IInv, TypeOK, LocalsOK, CallInv, SendInv, CountInv, OutInv, PeerInv, RoomInv, StreamInv,
        FinInv, Genuine, Counted, Come, PlaceInv, NextInv, Clean, FinWait2MeansFinTaken, Uncounted,
        Connects, Sends, Recvs, Closes, Closing, Ended, Off, socket, program, peer, sending,
        receiving, Goto, Return, NoLocals
<1>1. CASE ConnectCheck
  <2>1. TypeOK' /\ LocalsOK' /\ CallInv' /\ SendInv' /\ RoomInv' /\ FinInv'
    BY <1>1 DEF ConnectCheck
  <2>2. CountInv' /\ OutInv' /\ PeerInv'
    BY <1>1 DEF ConnectCheck
  <2>3. StreamInv'
    BY <1>1 DEF ConnectCheck
  <2> QED  BY <2>1, <2>2, <2>3
<1>2. CASE ConnectDone
  <2>1. TypeOK' /\ LocalsOK' /\ CallInv' /\ SendInv' /\ RoomInv' /\ FinInv'
    BY <1>2 DEF ConnectDone
  <2>2. CountInv' /\ OutInv' /\ PeerInv'
    BY <1>2 DEF ConnectDone
  <2>3. StreamInv'
    BY <1>2 DEF ConnectDone
  <2> QED  BY <2>1, <2>2, <2>3
<1>3. CASE ConnectTimeout
  <2>1. TypeOK' /\ LocalsOK' /\ CallInv' /\ SendInv' /\ RoomInv' /\ FinInv'
    BY <1>3 DEF ConnectTimeout
  <2>2. CountInv' /\ OutInv' /\ PeerInv'
    BY <1>3 DEF ConnectTimeout
  <2>3. StreamInv'
    BY <1>3 DEF ConnectTimeout
  <2> QED  BY <2>1, <2>2, <2>3
<1>4. CASE SendReturn
  <2>1. TypeOK' /\ LocalsOK' /\ CallInv' /\ SendInv' /\ RoomInv' /\ FinInv'
    BY <1>4 DEF SendReturn
  <2>2. CountInv' /\ OutInv' /\ PeerInv'
    BY <1>4 DEF SendReturn
  <2>3. StreamInv'
    BY <1>4 DEF SendReturn
  <2> QED  BY <2>1, <2>2, <2>3
<1>5. CASE SendWaited
  <2>1. TypeOK' /\ LocalsOK' /\ CallInv' /\ SendInv' /\ RoomInv' /\ FinInv'
    BY <1>5 DEF SendWaited
  <2>2. CountInv' /\ OutInv' /\ PeerInv'
    BY <1>5 DEF SendWaited
  <2>3. StreamInv'
    BY <1>5 DEF SendWaited
  <2> QED  BY <2>1, <2>2, <2>3
<1>6. ASSUME NEW n \in Nat, SendEnter(n) PROVE IInv'
  <2>1. TypeOK' /\ LocalsOK' /\ CallInv' /\ SendInv' /\ RoomInv' /\ FinInv'
    BY <1>6 DEF SendEnter
  <2>2. CountInv' /\ OutInv' /\ PeerInv'
    BY <1>6 DEF SendEnter
  <2>3. StreamInv'
    BY <1>6 DEF SendEnter
  <2> QED  BY <2>1, <2>2, <2>3
<1>7. CASE RecvLook
  <2>1. TypeOK' /\ LocalsOK' /\ CallInv' /\ SendInv' /\ RoomInv' /\ FinInv'
    BY <1>7 DEF RecvLook
  <2>2. CountInv' /\ OutInv' /\ PeerInv'
    BY <1>7 DEF RecvLook
  <2>3. StreamInv'
    BY <1>7 DEF RecvLook
  <2> QED  BY <2>1, <2>2, <2>3
<1>8. CASE RecvReturn
  <2>1. TypeOK' /\ LocalsOK' /\ CallInv' /\ SendInv' /\ RoomInv' /\ FinInv'
    BY <1>8 DEF RecvReturn
  <2>2. CountInv' /\ OutInv' /\ PeerInv'
    BY <1>8 DEF RecvReturn
  <2>3. StreamInv'
    BY <1>8 DEF RecvReturn
  <2> QED  BY <2>1, <2>2, <2>3
<1>9. CASE RecvAgain
  <2>1. TypeOK' /\ LocalsOK' /\ CallInv' /\ SendInv' /\ RoomInv' /\ FinInv'
    BY <1>9 DEF RecvAgain
  <2>2. CountInv' /\ OutInv' /\ PeerInv'
    BY <1>9 DEF RecvAgain
  <2>3. StreamInv'
    BY <1>9 DEF RecvAgain
  <2> QED  BY <2>1, <2>2, <2>3
<1>10. ASSUME NEW n \in Nat, RecvEnter(n) PROVE IInv'
  <2>1. TypeOK' /\ LocalsOK' /\ CallInv' /\ SendInv' /\ RoomInv' /\ FinInv'
    BY <1>10 DEF RecvEnter
  <2>2. CountInv' /\ OutInv' /\ PeerInv'
    BY <1>10 DEF RecvEnter
  <2>3. StreamInv'
    BY <1>10 DEF RecvEnter
  <2> QED  BY <2>1, <2>2, <2>3
<1>11. CASE PeerTakesSyn
  <2>1. TypeOK' /\ LocalsOK' /\ CallInv' /\ SendInv' /\ RoomInv' /\ FinInv'
    BY <1>11 DEF PeerTakesSyn
  <2>2. CountInv' /\ OutInv' /\ PeerInv'
    BY <1>11 DEF PeerTakesSyn
  <2>3. StreamInv'
    BY <1>11 DEF PeerTakesSyn
  <2> QED  BY <2>1, <2>2, <2>3
<1> QED
  BY <1>1, <1>2, <1>3, <1>4, <1>5, <1>6, <1>7, <1>8, <1>9, <1>10, <1>11

(* What Ctrl+C leaves is a socket without a program. *)
LEMMA KillIInv == IInv /\ Kill => IInv'
<1> SUFFICES ASSUME IInv, Kill PROVE IInv'
  OBVIOUS
<1>1. /\ call' = "none" /\ fd' = FALSE /\ len' = 0 /\ sent' = 0 /\ chunk' = 0 /\ copied' = << >>
      /\ UNCHANGED <<wrote, got, out, known, pgot, pfin, past>>
      /\ UNCHANGED <<used, state, pending_close, iss, snd_una, snd_nxt, rcv_nxt, remote_window,
                     retrans_count, recv_buf, recv_len>>
  BY DEF Kill, NoLocals, socket, peer
<1> USE <1>1 DEF IInv
<1>2. TypeOK'
  BY DEF TypeOK
<1>3. LocalsOK'
  BY NoBytes DEF LocalsOK
<1>4. CallInv' /\ SendInv' /\ RoomInv' /\ StreamInv' /\ FinInv'
  BY DEF CallInv, SendInv, RoomInv, StreamInv, FinInv, Clean, FinWait2MeansFinTaken, Sends,
     Recvs,
         Closes
<1>5. CountInv' /\ OutInv' /\ PeerInv'
  BY DEF CountInv, OutInv, PeerInv, Counted, Genuine, Off
<1> QED  BY <1>2, <1>3, <1>4, <1>5

LEMMA CloseEnterIInv == IInv /\ CloseEnter => IInv'
<1> SUFFICES ASSUME IInv, CloseEnter PROVE IInv'
  OBVIOUS
<1>1. /\ call = "none" /\ fd /\ used /\ state = "ESTABLISHED"
      /\ state' = "FIN_WAIT_1" /\ pending_close' = TRUE /\ call' = "close_fin"
      /\ UNCHANGED <<fd, len, sent, chunk, copied, wrote, got, out, known, pgot, pfin, past>>
      /\ UNCHANGED <<used, iss, snd_una, snd_nxt, rcv_nxt, remote_window, retrans_count,
                     recv_buf, recv_len>>
  BY DEF CloseEnter, Goto, sending, receiving, peer
<1> USE <1>1 DEF IInv
<1>2. TypeOK'
  BY DEF TypeOK, Connected
<1>3. LocalsOK' /\ CallInv' /\ SendInv' /\ RoomInv'
  BY DEF LocalsOK, CallInv, SendInv, RoomInv, Sends, Recvs, Closes, Closing
<1>4. StreamInv' /\ FinInv'
  BY DEF StreamInv, FinInv, Clean, PlaceInv, NextInv, Come, FinWait2MeansFinTaken, Ended
<1>5. CountInv' /\ OutInv' /\ PeerInv'
  BY TcpAssumption DEF CountInv, OutInv, PeerInv, Counted, Genuine, Off, Uncounted, TypeOK,
     CallInv
<1> QED  BY <1>2, <1>3, <1>4, <1>5

-----------------------------------------------------------------------------
(* A new connection. *)

LEMMA ConnectSetIInv == IInv /\ ConnectSet => IInv'
<1> SUFFICES ASSUME IInv, ConnectSet PROVE IInv'
  OBVIOUS
<1>1. PICK i \in Iss : iss' = i /\ snd_una' = i /\ snd_nxt' = Plus(i, 1)
  BY DEF ConnectSet
<1>2. /\ call = "connect_set" /\ call' = "connect_syn" /\ wrote' = 0 /\ got' = << >>
      /\ rcv_nxt' = 0 /\ state' = "SYN_SENT" /\ remote_window' = TCP_BUF_SIZE
      /\ retrans_count' = 0 /\ past' = IF recv_len > 0 THEN {"stale"} ELSE {}
      /\ out' = {} /\ known' = FALSE /\ pgot' = << >> /\ pfin' = FALSE
      /\ UNCHANGED <<fd, len, sent, chunk, copied, used, pending_close, recv_buf, recv_len>>
  BY DEF ConnectSet, Forget
<1>3. i \in Number /\ snd_nxt' \in Number /\ Off(snd_una)' = 0 /\ Off(snd_nxt)' = 1
  <2>1. i \in Number /\ Dist(i, i) = 0
    BY DistSelf, TcpAssumption DEF Number
  <2>2. Dist(i, Plus(i, 1)) = 1 /\ Plus(i, 1) \in Number
    BY <2>1, DistPlus, TcpAssumption
  <2> QED  BY <1>1, <2>1, <2>2 DEF Off
<1> USE <1>2 DEF IInv
<1>4. TypeOK'
  <2>1. {iss', snd_una', snd_nxt'} \subseteq 0 .. SeqSpace - 1
    BY <1>1, <1>3 DEF Number
  <2>2. /\ rcv_nxt' \in 0 .. PeerLen + 3 /\ retrans_count' \in 0 .. MaxRetrans
        /\ wrote' \in 0 .. MaxWrite
    BY TcpAssumption
  <2>3. Len(got') <= MaxRead
    BY NoBytes, TcpAssumption
  <2> QED  BY <2>1, <2>2, <2>3 DEF TypeOK
<1>5. LocalsOK'
  BY NoBytes DEF LocalsOK, Connects
<1>6. CallInv' /\ SendInv' /\ RoomInv' /\ FinInv'
  BY DEF CallInv, SendInv, RoomInv, FinInv, FinWait2MeansFinTaken, Connects, Sends, Recvs,
     Closes,
         Closing
<1>7. CountInv'
  BY <1>3, NoBytes, TcpAssumption DEF CountInv
<1>8. OutInv' /\ PeerInv'
  BY NoBytes, TcpAssumption DEF OutInv, PeerInv, Counted, Genuine, Uncounted
<1>9. StreamInv'
  BY NoBytes, TcpAssumption
     DEF StreamInv, Clean, PlaceInv, NextInv, Come, Ended, TypeOK
<1> QED  BY <1>4, <1>5, <1>6, <1>7, <1>8, <1>9

-----------------------------------------------------------------------------
(* Segments go out. *)

(* One that carries no bytes. *)
LEMMA EmptySegment ==
    ASSUME IInv, NEW flag \in {"SYN", "FIN"}, NEW s \in Number, Transmit(Segment(flag, s, << >>)),
           UNCHANGED <<iss, fd, wrote, chunk, past>>, Uncounted' = Uncounted
    PROVE  OutInv' /\ out' \subseteq SegmentSet
<1> DEFINE seg == Segment(flag, s, << >>)
<1>1. seg \in SegmentSet /\ seg.flag # "DATA"
  BY NoBytes DEF Segment, SegmentSet, Number
<1>2. out' = out \cup {seg}
  BY DEF Transmit
<1> HIDE DEF seg
<1>3. OutInv'
  BY <1>1, <1>2 DEF IInv, OutInv, Counted, Genuine, Off
<1> QED  BY <1>1, <1>2, <1>3 DEF IInv, LocalsOK

LEMMA ConnectSynIInv == IInv /\ ConnectSyn => IInv'
<1> SUFFICES ASSUME IInv, ConnectSyn PROVE IInv'
  OBVIOUS
<1>1. /\ call = "connect_syn" /\ call' = "connect_wait"
      /\ UNCHANGED <<fd, len, sent, chunk, copied, wrote, got, known, pgot, pfin, past>>
      /\ UNCHANGED <<used, state, pending_close, iss, snd_una, snd_nxt, rcv_nxt, remote_window,
                     retrans_count, recv_buf, recv_len>>
  BY DEF ConnectSyn, Goto, socket, peer
<1>2. OutInv' /\ out' \subseteq SegmentSet
  BY <1>1, EmptySegment, Typed DEF ConnectSyn, Uncounted
<1> USE <1>1 DEF IInv
<1>3. TypeOK' /\ LocalsOK'
  BY <1>2 DEF TypeOK, LocalsOK, Connects
<1>4. CallInv' /\ SendInv' /\ RoomInv' /\ FinInv'
  BY DEF CallInv, SendInv, RoomInv, FinInv, FinWait2MeansFinTaken, Sends, Recvs, Closes
<1>5. CountInv' /\ PeerInv'
  BY DEF CountInv, PeerInv, Counted, Genuine, Off, Uncounted
<1>6. StreamInv'
  BY DEF StreamInv, Clean, PlaceInv, NextInv, Come
<1> QED  BY <1>2, <1>3, <1>4, <1>5, <1>6

LEMMA CloseFinIInv == IInv /\ CloseFin => IInv'
<1> SUFFICES ASSUME IInv, CloseFin PROVE IInv'
  OBVIOUS
<1>1. /\ call = "close_fin" /\ call' = "close_count"
      /\ UNCHANGED <<fd, len, sent, chunk, copied, wrote, got, known, pgot, pfin, past>>
      /\ UNCHANGED <<used, state, pending_close, iss, snd_una, snd_nxt, rcv_nxt, remote_window,
                     retrans_count, recv_buf, recv_len>>
  BY DEF CloseFin, Goto, socket, peer
<1>2. OutInv' /\ out' \subseteq SegmentSet
  BY <1>1, EmptySegment, Typed DEF CloseFin, Uncounted
<1> USE <1>1 DEF IInv
<1>3. TypeOK' /\ LocalsOK'
  BY <1>2 DEF TypeOK, LocalsOK, Closes
<1>4. CallInv' /\ SendInv' /\ RoomInv' /\ FinInv'
  BY DEF CallInv, SendInv, RoomInv, FinInv, FinWait2MeansFinTaken, Sends, Recvs, Closes
<1>5. CountInv' /\ PeerInv'
  BY DEF CountInv, PeerInv, Counted, Genuine, Off, Uncounted
<1>6. StreamInv'
  BY DEF StreamInv, Clean, PlaceInv, NextInv, Come
<1> QED  BY <1>2, <1>3, <1>4, <1>5, <1>6

(* The FIN is counted; no answer that came before makes FIN_WAIT_2 a lie unnoticed. *)
LEMMA CloseCountIInv == IInv /\ CloseCount => IInv'
<1> SUFFICES ASSUME IInv, CloseCount PROVE IInv'
  OBVIOUS
<1>1. /\ call = "close_count" /\ call' = "close_wait" /\ snd_nxt' = Plus(snd_nxt, 1)
      /\ UNCHANGED <<fd, len, sent, chunk, copied, wrote, got, out, known, pgot, pfin, past>>
      /\ UNCHANGED <<used, state, pending_close, iss, snd_una, rcv_nxt, remote_window,
                     retrans_count, recv_buf, recv_len>>
  BY DEF CloseCount, Goto, receiving, peer
<1>2. fd /\ pending_close /\ state \in Closing /\ state \notin {"CLOSED", "SYN_SENT"}
  BY <1>1 DEF IInv, CallInv, Closes, Closing, LocalsOK
<1>3. Off(snd_nxt) = wrote + 1 /\ wrote \in 0 .. MaxWrite
  BY <1>1, <1>2 DEF IInv, CountInv, TypeOK
<1>4. snd_nxt' \in Number /\ Off(snd_nxt)' = wrote + 2
  <2>1. Dist(iss, snd_nxt) + 1 < SeqSpace /\ Dist(iss, snd_nxt) = wrote + 1
    BY <1>3, TcpAssumption DEF Off
  <2> QED  BY <1>1, <1>3, <2>1, DistPlus, Typed DEF Off
<1> USE <1>1 DEF IInv
<1>5. TypeOK'
  BY <1>4 DEF TypeOK, Number
<1>6. LocalsOK' /\ CallInv' /\ SendInv' /\ RoomInv'
  BY <1>2 DEF LocalsOK, CallInv, SendInv, RoomInv, Sends, Recvs, Closes
<1>7. FinInv'
  BY <1>2 DEF FinInv, FinWait2MeansFinTaken
<1>8. CountInv'
  <2>1. Off(snd_una) \in Nat /\ Off(snd_una)' = Off(snd_una)
    BY OffType, Typed DEF Off
  <2> QED  BY <1>2, <1>3, <1>4, <2>1, TcpAssumption DEF CountInv
<1>9. OutInv' /\ PeerInv'
  BY DEF OutInv, PeerInv, Counted, Genuine, Off, Uncounted
<1>10. StreamInv'
  BY DEF StreamInv, Clean, PlaceInv, NextInv, Come
<1> QED  BY <1>5, <1>6, <1>7, <1>8, <1>9, <1>10

(* The chunk carries the bytes the number of the next segment stands for. *)
LEMMA SendChunkIInv == IInv /\ SendChunk => IInv'
<1> SUFFICES ASSUME IInv, SendChunk PROVE IInv'
  OBVIOUS
<1> DEFINE n == Least(len - sent, Least(TCP_MSS, remote_window))
           bytes == [i \in 1 .. n |-> wrote + i]
           seg == Segment("DATA", snd_nxt, bytes)
<1>1. /\ call = "send" /\ sent < len /\ InFlight < remote_window
      /\ chunk' = n /\ out' = out \cup {seg} /\ call' = "send_count"
      /\ UNCHANGED <<fd, len, sent, copied, wrote, got, known, pgot, pfin, past>>
      /\ UNCHANGED <<used, state, pending_close, iss, snd_una, snd_nxt, rcv_nxt, remote_window,
                     retrans_count, recv_buf, recv_len>>
  BY DEF SendChunk, Transmit, socket, peer
<1>2. n \in Nat /\ n <= len - sent /\ wrote \in Nat /\ len \in Nat /\ sent \in Nat
  <2>1. InFlight \in Nat
    BY DistIs, Typed DEF InFlight, Number
  <2>2. remote_window \in Nat /\ wrote \in Nat
    BY TcpAssumption DEF IInv, TypeOK
  <2>3. len \in Nat /\ sent \in Nat
    BY DEF IInv, LocalsOK
  <2> QED  BY <1>1, <2>1, <2>2, <2>3, TcpAssumption DEF Least
<1>3. fd /\ state \in {"ESTABLISHED", "CLOSE_WAIT"} /\ Off(snd_nxt) = wrote + 1
  BY <1>1 DEF IInv, CallInv, CountInv, Sends
<1>4. seg \in SegmentSet /\ seg.bytes = bytes /\ Len(bytes) = n /\ seg.seq = snd_nxt
      /\ DOMAIN bytes = 1 .. n
  <2>1. bytes \in [1 .. n -> Nat]
    BY <1>2
  <2>2. bytes \in Seq(Nat) /\ Len(bytes) = n
    BY <1>2, <2>1, FcnIsSeq
  <2> QED  BY <2>1, <2>2, Typed DEF Segment, SegmentSet, Number
<1>5. wrote + n <= MaxWrite /\ sent + n <= len
  <2>1. wrote + (len - sent) <= MaxWrite /\ MaxWrite \in Nat
    BY <1>1, TcpAssumption DEF IInv, SendInv, Sends
  <2> HIDE DEF n
  <2> QED  BY <1>2, <2>1
<1>6. \A i \in 1 .. n : bytes[i] = wrote + i
  OBVIOUS
<1>7. Uncounted' = n /\ Uncounted = 0
  BY <1>1 DEF Uncounted
<1> HIDE DEF n, bytes, seg
<1> USE <1>1 DEF IInv
<1>8. TypeOK'
  BY DEF TypeOK
<1>9. LocalsOK'
  BY <1>2, <1>4 DEF LocalsOK, Sends
<1>10. CallInv' /\ SendInv' /\ RoomInv' /\ FinInv'
  BY <1>2, <1>5, <1>7 DEF CallInv, SendInv, RoomInv, FinInv, FinWait2MeansFinTaken, Sends,
     Recvs, Closes
<1>11. CountInv'
  BY <1>3 DEF CountInv, Off
<1>12. StreamInv'
  BY DEF StreamInv, Clean, PlaceInv, NextInv, Come
<1>13. PeerInv'
  <2>1. Len(pgot) \in Nat
    BY DEF LocalsOK
  <2> QED  BY <1>2, <1>7, <2>1 DEF PeerInv, Counted, Genuine
<1>14. OutInv'
  <2> SUFFICES ASSUME NEW g \in out', g.flag = "DATA"
               PROVE  /\ Off(g.seq)' >= 1
                      /\ Counted(Off(g.seq) - 1 + Len(g.bytes))'
                      /\ Genuine(g.bytes, Off(g.seq) - 1)'
    BY DEF OutInv
  <2>1. CASE g \in out
    <3>1. Off(g.seq) \in Nat /\ Len(g.bytes) \in Nat
      BY <2>1, OffType
    <3> QED  BY <1>2, <1>7, <2>1, <3>1 DEF OutInv, Counted, Genuine, Off
  <2>2. CASE g = seg
    <3>1. Off(g.seq)' = wrote + 1 /\ Off(g.seq)' - 1 = wrote /\ wrote + 1 >= 1
      BY <1>2, <1>3, <1>4, <2>2 DEF Off
    <3>2. g.bytes = bytes /\ Len(g.bytes) = n
      BY <1>4, <2>2
    <3>3. Counted(Off(g.seq) - 1 + Len(g.bytes))'
      BY <1>2, <1>5, <1>7, <3>1, <3>2 DEF Counted
    <3>4. Genuine(g.bytes, Off(g.seq) - 1)'
      BY <1>4, <1>6, <3>1, <3>2 DEF Genuine
    <3> QED  BY <3>1, <3>3, <3>4
  <2> QED  BY <2>1, <2>2
<1> QED  BY <1>8, <1>9, <1>10, <1>11, <1>12, <1>13, <1>14

(* What was sent is counted. *)
LEMMA SendCountIInv == IInv /\ SendCount => IInv'
<1> SUFFICES ASSUME IInv, SendCount PROVE IInv'
  OBVIOUS
<1>1. /\ call = "send_count" /\ snd_nxt' = Plus(snd_nxt, chunk)
      /\ sent' = sent + chunk /\ wrote' = wrote + chunk /\ retrans_count' = 0
      /\ call' \in {"send", "send_wait"}
      /\ UNCHANGED <<fd, len, chunk, copied, got, out, known, pgot, pfin, past>>
      /\ UNCHANGED <<used, state, pending_close, iss, snd_una, rcv_nxt, remote_window,
                     recv_buf, recv_len>>
  BY DEF SendCount, receiving, peer
<1>2. fd /\ state \in {"ESTABLISHED", "CLOSE_WAIT"} /\ Off(snd_nxt) = wrote + 1 /\ ~pending_close
  BY <1>1 DEF IInv, CallInv, CountInv, Sends, Closing
<1>3. chunk \in Nat /\ sent \in Nat /\ len \in Nat /\ wrote \in Nat /\ MaxWrite \in Nat
      /\ sent + chunk <= len /\ wrote + (len - sent) <= MaxWrite
  BY <1>1, TcpAssumption DEF IInv, LocalsOK, TypeOK, SendInv, Sends, Uncounted
<1>4. wrote + chunk <= MaxWrite /\ Uncounted = chunk /\ Uncounted' = 0
  BY <1>1, <1>3 DEF Uncounted
<1>5. snd_nxt' \in Number /\ Off(snd_nxt)' = wrote + chunk + 1
  <2>1. Dist(iss, snd_nxt) + chunk < SeqSpace /\ Dist(iss, snd_nxt) = wrote + 1
    BY <1>2, <1>3, <1>4, TcpAssumption DEF Off
  <2>2. Dist(iss, snd_nxt') = Dist(iss, snd_nxt) + chunk /\ snd_nxt' \in Number
    BY <1>1, <1>3, <2>1, DistPlus, Typed
  <2> QED  BY <1>1, <1>3, <2>1, <2>2 DEF Off
<1> USE <1>1 DEF IInv
<1>6. TypeOK'
  BY <1>3, <1>4, <1>5, TcpAssumption DEF TypeOK, Number
<1>7. LocalsOK' /\ CallInv' /\ RoomInv' /\ FinInv'
  BY <1>2, <1>3 DEF LocalsOK, CallInv, RoomInv, FinInv, FinWait2MeansFinTaken, Sends, Recvs,
     Closes
<1>8. SendInv'
  BY <1>3, <1>4 DEF SendInv, Sends
<1>9. CountInv'
  <2>1. Off(snd_una) \in Nat
    BY OffType, Typed
  <2> QED  BY <1>2, <1>3, <1>4, <1>5, <2>1 DEF CountInv, Off
<1>10. OutInv' /\ PeerInv'
  BY <1>3, <1>4 DEF OutInv, PeerInv, Counted, Genuine, Off
<1>11. StreamInv'
  BY DEF StreamInv, Clean, PlaceInv, NextInv, Come
<1> QED  BY <1>6, <1>7, <1>8, <1>9, <1>10, <1>11

(* TcpPoll sends zeros, and past tells. *)
LEMMA RetransmitIInv == IInv /\ Retransmit => IInv'
<1> SUFFICES ASSUME IInv, Retransmit PROVE IInv'
  OBVIOUS
<1>1. /\ used /\ retrans_count < MaxRetrans /\ retrans_count' = retrans_count + 1
      /\ UNCHANGED <<fd, call, len, sent, chunk, copied, wrote, got, known, pgot, pfin>>
      /\ UNCHANGED <<used, state, pending_close, iss, snd_una, snd_nxt, rcv_nxt, remote_window,
                     recv_buf, recv_len>>
  BY DEF Retransmit, program, receiving, peer
<1>2. past \subseteq past' /\ past' \subseteq past \cup {"resent"}
  BY DEF Retransmit
<1>3. OutInv' /\ out' \subseteq SegmentSet
  <2>1. CASE state = "SYN_SENT"
    <3>1. Transmit(Segment("SYN", iss, << >>)) /\ UNCHANGED past
      BY <2>1 DEF Retransmit
    <3> QED  BY <1>1, <3>1, EmptySegment, Typed DEF Uncounted
  <2>2. CASE state = "ESTABLISHED" /\ snd_una < snd_nxt
    <3> DEFINE n == Least(InFlight, TCP_MSS)
               bytes == [i \in 1 .. n |-> 0]
               seg == Segment("DATA", snd_una, bytes)
    <3>1. out' = out \cup {seg} /\ "resent" \in past'
      <4>1. ~(snd_una >= snd_nxt) /\ state # "SYN_SENT"
        BY <2>2, Typed, TcpAssumption DEF Number
      <4>2. Transmit(seg) /\ past' = past \cup {"resent"}
        BY <4>1 DEF Retransmit
      <4> QED  BY <4>2 DEF Transmit
    <3>2. /\ Off(snd_una) \in Nat /\ Off(snd_nxt) \in Nat
          /\ Off(snd_una) >= 1 /\ Off(snd_una) <= Off(snd_nxt) /\ Off(snd_nxt) <= MaxWrite + 1
          /\ fd => Off(snd_nxt) = wrote + 1
      BY <1>1, <2>2, OffType, Typed DEF IInv, CountInv, CallInv, Closes, Closing, Uncounted
    <3>3. InFlight = Off(snd_nxt) - Off(snd_una)
      BY <3>2, DistBetween, Typed DEF InFlight, Off
    <3>4. n \in Nat /\ Off(snd_una) - 1 + n <= Off(snd_nxt) - 1
      BY <3>2, <3>3, TcpAssumption DEF Least
    <3>5. seg \in SegmentSet /\ seg.bytes = bytes /\ seg.seq = snd_una /\ Len(bytes) = n
          /\ \A i \in DOMAIN bytes : bytes[i] = 0
      <4>1. bytes \in [1 .. n -> Nat]
        OBVIOUS
      <4>2. bytes \in Seq(Nat) /\ Len(bytes) = n
        BY <3>4, <4>1, FcnIsSeq
      <4> QED  BY <4>1, <4>2, Typed DEF Segment, SegmentSet, Number
    <3> HIDE DEF n, bytes, seg
    <3>6. ASSUME NEW g \in out', g.flag = "DATA"
          PROVE  /\ Off(g.seq)' >= 1
                 /\ Counted(Off(g.seq) - 1 + Len(g.bytes))'
                 /\ Genuine(g.bytes, Off(g.seq) - 1)'
      <4>1. CASE g \in out
        BY <1>1, <1>2, <3>6, <4>1 DEF IInv, OutInv, Counted, Genuine, Off, Uncounted
      <4>2. CASE g = seg
        <5>1. Off(g.seq)' = Off(snd_una)
          BY <1>1, <3>5, <4>2 DEF Off
        <5>2. Uncounted \in Nat /\ Uncounted' = Uncounted /\ wrote \in Nat
          BY <1>1, TcpAssumption DEF Uncounted, IInv, LocalsOK, TypeOK
        <5>3. Counted(Off(g.seq) - 1 + Len(g.bytes))'
          <6>1. Off(snd_una) - 1 + n <= MaxWrite
            BY <3>2, <3>4, TcpAssumption
          <6>2. fd => Off(snd_una) - 1 + n <= wrote + Uncounted
            BY <3>2, <3>4, <5>2
          <6>3. Off(g.seq)' - 1 + Len(g.bytes) = Off(snd_una) - 1 + n
            BY <3>5, <4>2, <5>1
          <6> QED  BY <1>1, <5>2, <6>1, <6>2, <6>3 DEF Counted
        <5> QED  BY <3>1, <3>2, <3>5, <4>2, <5>1, <5>3 DEF Genuine
      <4> QED  BY <3>1, <3>6, <4>1, <4>2
    <3>7. OutInv'
      BY <3>6 DEF OutInv
    <3> QED  BY <3>1, <3>5, <3>7 DEF IInv, LocalsOK
  <2>3. CASE UNCHANGED <<out, past>>
    BY <1>1, <2>3 DEF IInv, LocalsOK, OutInv, Counted, Genuine, Off, Uncounted
  <2> QED  BY <2>1, <2>2, <2>3 DEF Retransmit
<1> USE <1>1 DEF IInv
<1>4. TypeOK'
  BY TcpAssumption DEF TypeOK
<1>5. LocalsOK'
  BY <1>2, <1>3 DEF LocalsOK
<1>6. CallInv' /\ SendInv' /\ RoomInv'
  BY DEF CallInv, SendInv, RoomInv, Uncounted
<1>7. FinInv'
  BY <1>2 DEF FinInv, FinWait2MeansFinTaken
<1>8. CountInv' /\ PeerInv'
  BY <1>2 DEF CountInv, PeerInv, Counted, Genuine, Off, Uncounted
<1>9. StreamInv'
  BY <1>2 DEF StreamInv, Clean, PlaceInv, NextInv, Come
<1> QED  BY <1>3, <1>4, <1>5, <1>6, <1>7, <1>8, <1>9

(* Whatever order the segments come in, the peer puts bytes where they belong. *)
LEMMA PeerTakesIInv == ASSUME IInv, NEW seg \in out, PeerTakes(seg) PROVE IInv'
<1> DEFINE from == Off(seg.seq) - 1
           next == Len(pgot) - from
           tail == SubSeq(seg.bytes, next + 1, Len(seg.bytes))
<1>1. /\ UNCHANGED <<fd, call, len, sent, chunk, copied, wrote, got, out, known, past>>
      /\ UNCHANGED <<used, state, pending_close, iss, snd_una, snd_nxt, rcv_nxt, remote_window,
                     retrans_count, recv_buf, recv_len>>
  BY DEF PeerTakes, program, socket
<1>9. \/ /\ seg.flag = "DATA" /\ next \in 0 .. Len(seg.bytes) - 1
         /\ pgot' = pgot \o tail /\ UNCHANGED pfin
      \/ pfin' = TRUE /\ UNCHANGED pgot
  BY DEF PeerTakes
<1>2. from \in Int /\ Len(pgot) \in Nat /\ pgot \in Seq(Nat)
      /\ seg.bytes \in Seq(Nat) /\ Len(seg.bytes) \in Nat
  BY OffType DEF IInv, LocalsOK
<1>3. PeerInv' /\ pgot' \in Seq(Nat) /\ Len(pgot') >= Len(pgot)
      /\ (pfin' = pfin \/ pfin') /\ pfin' \in BOOLEAN
  <2>1. CASE UNCHANGED pgot
    <3>1. PeerInv'
      BY <1>1, <2>1 DEF IInv, PeerInv, Counted, Genuine, Uncounted
    <3>2. (pfin' = pfin \/ pfin') /\ pfin' \in BOOLEAN
      BY <1>9 DEF IInv, LocalsOK
    <3> QED  BY <1>2, <2>1, <3>1, <3>2
  <2>2. CASE /\ seg.flag = "DATA" /\ next \in 0 .. Len(seg.bytes) - 1
             /\ pgot' = pgot \o tail /\ UNCHANGED pfin
    <3>1. /\ Counted(from + Len(seg.bytes))
          /\ \A i \in 1 .. Len(seg.bytes) :
                 seg.bytes[i] = from + i \/ (seg.bytes[i] = 0 /\ "resent" \in past)
      <4>1. DOMAIN seg.bytes = 1 .. Len(seg.bytes)
        BY <1>2
      <4> QED  BY <2>2, <4>1 DEF IInv, OutInv, Genuine
    <3> HIDE DEF from
    <3>2. next \in Nat /\ next < Len(seg.bytes)
      BY <1>2, <2>2
    <3>3. /\ tail \in Seq(Nat) /\ Len(tail) = Len(seg.bytes) - next
          /\ \A i \in 1 .. Len(seg.bytes) - next : tail[i] = seg.bytes[next + i]
      <4>1. next + 1 \in Int /\ \A i \in next + 1 .. Len(seg.bytes) : seg.bytes[i] \in Nat
        BY <1>2, <3>2, ElementOfSeq
      <4> HIDE DEF next
      <4>2. /\ tail \in Seq(Nat)
            /\ Len(tail) = IF next + 1 <= Len(seg.bytes) THEN Len(seg.bytes) - (next + 1) + 1 ELSE 0
            /\ \A i \in 1 .. Len(seg.bytes) - (next + 1) + 1 :
                   tail[i] = seg.bytes[next + 1 + i - 1]
        BY <1>2, <4>1, SubSeqProperties
      <4> HIDE DEF tail
      <4>3. Len(seg.bytes) - (next + 1) + 1 = Len(seg.bytes) - next
        BY <1>2, <3>2
      <4>4. \A i \in 1 .. Len(seg.bytes) - next : next + 1 + i - 1 = next + i
        BY <3>2
      <4> QED  BY <1>2, <3>2, <4>2, <4>3, <4>4
    <3> HIDE DEF tail
    <3>4. /\ pgot' \in Seq(Nat) /\ Len(pgot') = Len(pgot) + Len(tail)
          /\ \A i \in 1 .. Len(pgot) + Len(tail) :
                 pgot'[i] = IF i <= Len(pgot) THEN pgot[i] ELSE tail[i - Len(pgot)]
      BY <1>2, <2>2, <3>3, ConcatProperties
    <3>5. Len(pgot') = from + Len(seg.bytes) /\ Len(tail) \in Nat
      BY <1>2, <3>2, <3>3, <3>4
    <3>6. \A i \in 1 .. Len(pgot') : pgot'[i] = i \/ (pgot'[i] = 0 /\ "resent" \in past)
      <4> SUFFICES ASSUME NEW i \in 1 .. Len(pgot')
                   PROVE  pgot'[i] = i \/ (pgot'[i] = 0 /\ "resent" \in past)
        OBVIOUS
      <4>1. CASE i <= Len(pgot)
        <5>1. i \in DOMAIN pgot /\ i \in 1 .. Len(pgot) + Len(tail) /\ 0 + i = i
          BY <1>2, <3>4, <4>1
        <5> QED  BY <3>4, <4>1, <5>1 DEF IInv, PeerInv, Genuine
      <4>2. CASE i > Len(pgot)
        <5>1. i - Len(pgot) \in 1 .. Len(seg.bytes) - next
          BY <1>2, <3>2, <3>3, <3>4, <3>5, <4>2
        <5>2. next + (i - Len(pgot)) \in 1 .. Len(seg.bytes)
              /\ from + (next + (i - Len(pgot))) = i
          BY <1>2, <3>2, <5>1
        <5>3. pgot'[i] = seg.bytes[next + (i - Len(pgot))]
          <6>1. i \in 1 .. Len(pgot) + Len(tail) /\ ~(i <= Len(pgot))
            BY <1>2, <3>4, <4>2
          <6> QED  BY <3>3, <3>4, <5>1, <6>1
        <5> QED  BY <3>1, <5>2, <5>3
      <4> QED  BY <1>2, <4>1, <4>2
    <3>7. Counted(Len(pgot))'
      BY <1>1, <3>1, <3>5 DEF Counted, Uncounted
    <3>8. DOMAIN pgot' = 1 .. Len(pgot') /\ \A i \in DOMAIN pgot' : 0 + i = i
      BY <3>4
    <3>9. Genuine(pgot, 0)'
      BY <1>1, <3>6, <3>8 DEF Genuine
    <3> QED  BY <1>2, <2>2, <3>2, <3>3, <3>4, <3>7, <3>9 DEF PeerInv, IInv, LocalsOK
  <2> QED  BY <1>9, <2>1, <2>2
<1> HIDE DEF next, tail
<1> USE <1>1 DEF IInv
<1>4. TypeOK' /\ LocalsOK'
  BY <1>3 DEF TypeOK, LocalsOK
<1>5. CallInv' /\ SendInv' /\ RoomInv'
  BY DEF CallInv, SendInv, RoomInv, Uncounted
<1>6. FinInv'
  BY <1>3 DEF FinInv, FinWait2MeansFinTaken
<1>7. OutInv' /\ StreamInv'
  BY DEF OutInv, Counted, Genuine, Off, Uncounted, StreamInv, Clean, PlaceInv, NextInv, Come
<1>8. CountInv'
  <2>1. Off(snd_una) \in Nat /\ Off(snd_una)' = Off(snd_una) /\ Off(snd_nxt)' = Off(snd_nxt)
        /\ Len(pgot') \in Nat /\ (pfin => pfin')
    BY <1>3, OffType, Typed DEF Off
  <2> QED  BY <1>2, <1>3, <2>1 DEF CountInv
<1> QED  BY <1>3, <1>4, <1>5, <1>6, <1>7, <1>8


-----------------------------------------------------------------------------
(* TcpRecv copies, shifts and subtracts, each on its own. *)

LEMMA BufferCells == IInv => \A i \in 1 .. TCP_BUF_SIZE : recv_buf[i] \in 0 .. PeerLen
BY DEF IInv, TypeOK, Cell

LEMMA RecvCopyIInv == IInv /\ RecvCopy => IInv'
<1> SUFFICES ASSUME IInv, RecvCopy PROVE IInv'
  OBVIOUS
<1> DEFINE n == Least(len, recv_len)
<1>1. /\ call = "recv" /\ recv_len > 0 /\ copied' = SubSeq(recv_buf, 1, n) /\ call' = "recv_shift"
      /\ UNCHANGED <<fd, len, sent, chunk, wrote, got, out, known, pgot, pfin, past>>
      /\ UNCHANGED <<used, state, pending_close, iss, snd_una, snd_nxt, rcv_nxt, remote_window,
                     retrans_count, recv_buf, recv_len>>
  BY DEF RecvCopy, socket, peer
<1>2. /\ len \in Nat /\ recv_len \in Nat /\ TCP_BUF_SIZE \in Nat
      /\ used /\ recv_len <= TCP_BUF_SIZE
  BY <1>1, TcpAssumption DEF IInv, TypeOK, LocalsOK, RoomInv, Recvs
<1>3. n \in Nat /\ n <= len /\ n <= recv_len
  BY <1>2 DEF Least
<1> HIDE DEF n
<1>4. /\ copied' \in Seq(0 .. PeerLen) /\ Len(copied') = n
      /\ \A i \in 1 .. n : copied'[i] = recv_buf[i]
  <2>1. \A i \in 1 .. n : recv_buf[i] \in 0 .. PeerLen
    BY <1>2, <1>3, BufferCells
  <2>2. /\ SubSeq(recv_buf, 1, n) \in Seq(0 .. PeerLen)
        /\ Len(SubSeq(recv_buf, 1, n)) = IF 1 <= n THEN n - 1 + 1 ELSE 0
        /\ \A i \in 1 .. n - 1 + 1 : SubSeq(recv_buf, 1, n)[i] = recv_buf[1 + i - 1]
    BY <1>3, <2>1, SubSeqProperties
  <2>3. n - 1 + 1 = n /\ \A i \in 1 .. n : 1 + i - 1 = i
    BY <1>3
  <2> QED  BY <1>1, <1>3, <2>2, <2>3
<1> USE <1>1 DEF IInv
<1>5. TypeOK'
  BY DEF TypeOK
<1>6. LocalsOK'
  BY <1>4 DEF LocalsOK, Recvs
<1>7. CallInv' /\ SendInv' /\ FinInv'
  BY DEF CallInv, SendInv, FinInv, FinWait2MeansFinTaken, Sends, Recvs, Closes
<1>8. RoomInv'
  BY <1>2, <1>3, <1>4 DEF RoomInv, Recvs
<1>9. CountInv' /\ OutInv' /\ PeerInv'
  BY DEF CountInv, OutInv, PeerInv, Counted, Genuine, Off, Uncounted
<1>10. StreamInv'
  <2>1. ASSUME Clean PROVE PlaceInv'
    <3>1. \A i \in 1 .. n : recv_buf[i] = Len(got) + i
      BY <1>2, <1>3, <2>1 DEF StreamInv, PlaceInv
    <3> QED  BY <1>4, <2>1, <3>1 DEF StreamInv, PlaceInv, Come
  <2> QED  BY <2>1 DEF StreamInv, Clean, NextInv, Come
<1> QED  BY <1>5, <1>6, <1>7, <1>8, <1>9, <1>10

(* Every byte moves to where it is looked for next. *)
LEMMA RecvShiftIInv == IInv /\ RecvShift => IInv'
<1> SUFFICES ASSUME IInv, RecvShift PROVE IInv'
  OBVIOUS
<1> DEFINE n == Len(copied)
<1>1. /\ call = "recv_shift" /\ call' = "recv_take" /\ recv_buf' = Shifted(n)
      /\ UNCHANGED <<fd, len, sent, chunk, copied, wrote, got, out, known, pgot, pfin, past>>
      /\ UNCHANGED <<used, state, pending_close, iss, snd_una, snd_nxt, rcv_nxt, remote_window,
                     retrans_count, recv_len>>
  BY DEF RecvShift, Goto, sending, peer
<1>2. /\ n \in Nat /\ recv_len \in Nat /\ TCP_BUF_SIZE \in Nat
      /\ recv_len <= TCP_BUF_SIZE
      /\ used => n <= recv_len
  BY <1>1, TcpAssumption DEF IInv, TypeOK, LocalsOK, RoomInv, Recvs
<1> HIDE DEF n
<1>3. \A i \in Cell : recv_buf'[i] = IF i + n <= recv_len THEN recv_buf[i + n] ELSE recv_buf[i]
  BY <1>1 DEF Shifted
<1>4. recv_buf' \in [Cell -> 0 .. PeerLen]
  <2>1. \A i \in Cell : i + n <= recv_len => i + n \in Cell
    BY <1>2 DEF Cell
  <2>2. \A i \in Cell : recv_buf[i] \in 0 .. PeerLen
    BY DEF IInv, TypeOK
  <2> QED  BY <1>1, <2>1, <2>2 DEF Shifted
<1> USE <1>1 DEF IInv
<1>5. TypeOK'
  BY <1>4 DEF TypeOK
<1>6. LocalsOK' /\ CallInv' /\ SendInv' /\ RoomInv' /\ FinInv'
  BY DEF LocalsOK, CallInv, SendInv, RoomInv, FinInv, FinWait2MeansFinTaken, Sends, Recvs, Closes
<1>7. CountInv' /\ OutInv' /\ PeerInv'
  BY DEF CountInv, OutInv, PeerInv, Counted, Genuine, Off, Uncounted
<1>8. StreamInv'
  <2>1. ASSUME Clean PROVE PlaceInv'
    <3>1. \A i \in 1 .. recv_len : recv_buf[i] = Len(got) + i
      BY <2>1 DEF StreamInv, PlaceInv
    <3>2. ASSUME NEW i \in 1 .. recv_len - n PROVE recv_buf'[i] = Len(got) + n + i
      <4>1. i \in Cell /\ i + n <= recv_len /\ i + n \in 1 .. recv_len
        BY <1>2 DEF Cell
      <4>2. recv_buf'[i] = Len(got) + (i + n)
        BY <1>3, <3>1, <4>1
      <4>3. Len(got) \in Nat
        BY DEF LocalsOK
      <4> QED  BY <1>2, <4>2, <4>3
    <3>3. \A i \in 1 .. (recv_len - Len(copied))' : recv_buf'[i] = (Len(got) + Len(copied) + i)'
      BY <3>2 DEF n
    <3> QED  BY <2>1, <3>3 DEF StreamInv, PlaceInv, Come
  <2> QED  BY <2>1 DEF StreamInv, Clean, NextInv, Come
<1> QED  BY <1>5, <1>6, <1>7, <1>8

(* What was copied is the program's; recv_len is reduced by as much. *)
LEMMA RecvTakeIInv == IInv /\ RecvTake => IInv'
<1> SUFFICES ASSUME IInv, RecvTake PROVE IInv'
  OBVIOUS
<1> DEFINE n == Len(copied)
<1>1. /\ call = "recv_take" /\ call' = "none" /\ recv_len' = (recv_len - n) % SeqSpace
      /\ got' = got \o copied /\ len' = 0 /\ sent' = 0 /\ chunk' = 0 /\ copied' = << >>
      /\ UNCHANGED <<fd, wrote, out, known, pgot, pfin, past>>
      /\ UNCHANGED <<used, state, pending_close, iss, snd_una, snd_nxt, rcv_nxt, remote_window,
                     retrans_count, recv_buf>>
  BY DEF RecvTake, NoLocals, sending, peer
<1>2. /\ n \in Nat /\ recv_len \in 0 .. SeqSpace - 1 /\ TCP_BUF_SIZE \in Nat
      /\ SeqSpace \in Nat \ {0} /\ len \in Nat
      /\ used => n <= recv_len /\ recv_len <= TCP_BUF_SIZE
      /\ n <= len /\ Len(got) + len <= MaxRead
  BY <1>1, TcpAssumption DEF IInv, TypeOK, LocalsOK, RoomInv, Recvs
<1>3. /\ got' \in Seq(0 .. PeerLen) /\ Len(got') = Len(got) + n /\ Len(got) \in Nat
      /\ \A i \in 1 .. Len(got) + n :
             got'[i] = IF i <= Len(got) THEN got[i] ELSE copied[i - Len(got)]
  <2>1. got \in Seq(0 .. PeerLen) /\ copied \in Seq(0 .. PeerLen)
    BY DEF IInv, LocalsOK
  <2> QED  BY <1>1, <2>1, ConcatProperties
<1>4. /\ recv_len' \in 0 .. SeqSpace - 1
      /\ used => recv_len' = recv_len - n
  <2> DEFINE x == recv_len - n
  <2>1. x \in Int /\ (used => x \in 0 .. SeqSpace - 1)
    BY <1>2
  <2>2. x % SeqSpace \in 0 .. SeqSpace - 1 /\ (x \in 0 .. SeqSpace - 1 => x % SeqSpace = x)
    BY <1>2, <2>1, Remainders
  <2> QED  BY <1>1, <2>1, <2>2
<1>5. /\ used => recv_len' <= TCP_BUF_SIZE
      /\ Len(got') <= MaxRead
  <2>1. Len(got) + n <= MaxRead
    BY <1>2, <1>3, TcpAssumption
  <2> QED  BY <1>2, <1>3, <1>4, <2>1
<1> HIDE DEF n
<1> USE <1>1 DEF IInv
<1>6. TypeOK'
  <2>1. (used => recv_len <= TCP_BUF_SIZE)' /\ (Len(got) <= MaxRead)'
    BY <1>5
  <2> QED  BY <1>4, <2>1 DEF TypeOK
<1>7. LocalsOK'
  BY <1>3, NoBytes DEF LocalsOK
<1>8. CallInv' /\ SendInv' /\ RoomInv' /\ FinInv'
  BY DEF CallInv, SendInv, RoomInv, FinInv, FinWait2MeansFinTaken, Sends, Recvs, Closes
<1>9. CountInv' /\ OutInv' /\ PeerInv'
  BY DEF CountInv, OutInv, PeerInv, Counted, Genuine, Off, Uncounted
<1>10. StreamInv'
  <2> SUFFICES ASSUME Clean PROVE PlaceInv' /\ NextInv'
    BY DEF StreamInv, Clean
  <2>1. used /\ recv_len' = recv_len - n
    BY <1>4 DEF Clean
  <2>2. Come' = Come
    <3>1. \A a, b, c \in Int : (a + b) + (c - b) = a + c
      OBVIOUS
    <3>2. Len(got) \in Int /\ n \in Int /\ recv_len \in Int
      BY <1>2, <1>3
    <3>3. Len(got') = Len(got) + n
      BY <1>3
    <3>4. (Len(got) + n) + (recv_len - n) = Len(got) + recv_len
      BY <3>1, <3>2
    <3>5. Len(got') + recv_len' = Len(got) + recv_len
      BY <2>1, <3>3, <3>4
    <3> QED  BY <3>5 DEF Come
  <2>3. PlaceInv /\ NextInv
    BY DEF StreamInv
  <2>4. \A i \in 1 .. Len(got') : got'[i] = i
    <3>1. \A i \in 1 .. Len(got) : got[i] = i
      BY <2>3 DEF PlaceInv
    <3>2. \A i \in 1 .. n : copied[i] = Len(got) + i
      BY <2>3 DEF PlaceInv, n
    <3>3. ASSUME NEW i \in 1 .. Len(got') PROVE got'[i] = i
      <4>1. i \in 1 .. Len(got) + n
        BY <1>3
      <4>2. CASE i <= Len(got)
        BY <1>3, <3>1, <4>1, <4>2
      <4>3. CASE i > Len(got)
        <5>1. i - Len(got) \in 1 .. n /\ Len(got) + (i - Len(got)) = i /\ ~(i <= Len(got))
          BY <1>2, <1>3, <4>1, <4>3
        <5> QED  BY <1>3, <3>2, <4>1, <5>1
      <4> QED  BY <1>3, <4>1, <4>2, <4>3
    <3> QED  BY <3>3
  <2>5. \A i \in 1 .. recv_len' : recv_buf'[i] = Len(got') + i
    <3>1. \A i \in 1 .. recv_len - n : recv_buf[i] = Len(got) + n + i
      BY <2>3 DEF PlaceInv, n
    <3> QED  BY <1>3, <2>1, <3>1
  <2>6. PlaceInv'
    BY <2>2, <2>3, <2>4, <2>5 DEF PlaceInv
  <2>7. NextInv'
    BY <2>2, <2>3 DEF NextInv
  <2> QED  BY <2>6, <2>7
<1> QED  BY <1>6, <1>7, <1>8, <1>9, <1>10

-----------------------------------------------------------------------------
(* The timer interrupt hands over what the peer has sent. *)

LEMMA HandleSynAckIInv == ASSUME IInv, NEW w \in Windows, HandleSynAck(w) PROVE IInv'
<1>1. /\ used /\ remote_window' = w
      /\ UNCHANGED <<fd, call, len, sent, chunk, copied, wrote, got, out, known, pgot, pfin, past>>
      /\ UNCHANGED <<used, pending_close, iss, snd_nxt, retrans_count, recv_buf, recv_len>>
  BY DEF HandleSynAck, program, peer
<1>2. \/ /\ state = "SYN_SENT" /\ state' = "ESTABLISHED" /\ snd_una' = Plus(iss, 1) /\ rcv_nxt' = 1
      \/ UNCHANGED <<snd_una, rcv_nxt, state>>
  BY DEF HandleSynAck
<1>3. CASE UNCHANGED <<snd_una, rcv_nxt, state>>
  <2> USE <1>1, <1>3 DEF IInv
  <2>1. TypeOK'
    BY DEF TypeOK
  <2>2. LocalsOK' /\ CallInv' /\ SendInv' /\ RoomInv' /\ FinInv'
    BY DEF LocalsOK, CallInv, SendInv, RoomInv, FinInv, FinWait2MeansFinTaken, Uncounted
  <2>3. CountInv' /\ OutInv' /\ PeerInv'
    BY DEF CountInv, OutInv, PeerInv, Counted, Genuine, Off, Uncounted
  <2>4. StreamInv'
    BY DEF StreamInv, Clean, PlaceInv, NextInv, Come
  <2> QED  BY <2>1, <2>2, <2>3, <2>4
<1>4. CASE state = "SYN_SENT" /\ state' = "ESTABLISHED" /\ snd_una' = Plus(iss, 1) /\ rcv_nxt' = 1
  <2>1. snd_una' \in Number /\ Off(snd_una)' = 1
    <3>1. Dist(iss, iss) = 0 /\ 0 + 1 < SeqSpace /\ 0 + 1 = 1
      BY DistSelf, Typed, TcpAssumption
    <3> QED  BY <1>1, <1>4, <3>1, DistPlus, Typed DEF Off
  <2> USE <1>1, <1>4 DEF IInv
  <2>2. TypeOK'
    <3>1. {iss, snd_una, snd_nxt}' \subseteq 0 .. SeqSpace - 1
      BY <2>1, Typed DEF Number
    <3>2. rcv_nxt' \in 0 .. PeerLen + 3
      BY TcpAssumption
    <3>3. state' \in Connected
      BY DEF Connected
    <3> QED  BY <3>1, <3>2, <3>3 DEF TypeOK
  <2>3. LocalsOK' /\ CallInv' /\ SendInv' /\ RoomInv' /\ FinInv'
    BY DEF LocalsOK, CallInv, SendInv, RoomInv, FinInv, FinWait2MeansFinTaken, Uncounted,
       Closing, Sends,
           Recvs, Closes
  <2>4. CountInv'
    <3>1. Off(snd_nxt)' = 1 /\ wrote' = 0 /\ ~pending_close'
      BY DEF CountInv, CallInv, Closing, Off
    <3>2. Len(pgot') \in Nat
      BY DEF LocalsOK
    <3>3. fd => call # "close_wait"
      BY DEF CallInv, Closing, Closes
    <3> QED  BY <2>1, <3>1, <3>2, <3>3, TcpAssumption DEF CountInv
  <2>5. OutInv' /\ PeerInv'
    BY DEF OutInv, PeerInv, Counted, Genuine, Off, Uncounted
  <2>6. StreamInv'
    <3> SUFFICES ASSUME Clean PROVE PlaceInv' /\ NextInv'
      BY DEF StreamInv, Clean
    <3>1. PlaceInv /\ NextInv /\ rcv_nxt = 0
      BY DEF StreamInv, RoomInv
    <3>2. Come = 0
      <4>1. Come \in Nat
        <5>1. Len(got) \in Nat /\ recv_len \in Nat
          BY TcpAssumption DEF LocalsOK, TypeOK
        <5> QED  BY <5>1 DEF Come
      <4> QED  BY <3>1, <4>1, TcpAssumption DEF NextInv
    <3>3. PlaceInv'
      BY <3>1 DEF PlaceInv, Come
    <3>4. Come' = 0
      BY <3>2 DEF Come
    <3> QED  BY <3>3, <3>4 DEF NextInv, Ended
  <2> QED  BY <2>2, <2>3, <2>4, <2>5, <2>6
<1> QED  BY <1>2, <1>3, <1>4

LEMMA HandleLateIInv == ASSUME IInv, NEW w \in Windows, HandleLate(w) PROVE IInv'
<1>1. /\ remote_window' = w
      /\ UNCHANGED <<fd, call, len, sent, chunk, copied, wrote, got, out, known, pgot, pfin, past>>
      /\ UNCHANGED <<used, state, pending_close, iss, snd_una, snd_nxt, rcv_nxt, retrans_count,
                     recv_buf, recv_len>>
  BY DEF HandleLate, program, peer, receiving
<1> USE <1>1 DEF IInv
<1>2. TypeOK'
  BY DEF TypeOK
<1>3. LocalsOK' /\ CallInv' /\ SendInv' /\ RoomInv' /\ FinInv'
  BY DEF LocalsOK, CallInv, SendInv, RoomInv, FinInv, FinWait2MeansFinTaken, Uncounted
<1>4. CountInv' /\ OutInv' /\ PeerInv'
  BY DEF CountInv, OutInv, PeerInv, Counted, Genuine, Off, Uncounted
<1>5. StreamInv'
  BY DEF StreamInv, Clean, PlaceInv, NextInv, Come
<1> QED  BY <1>2, <1>3, <1>4, <1>5

(* A segment of the peer: how much is taken, and what its acknowledgement is worth. *)
LEMMA SegmentTaken ==
    ASSUME IInv, used, NEW m \in PeerSegments
    PROVE  /\ m.from \in Nat /\ m.from >= 1 /\ m.n \in Nat /\ m.from + m.n <= PeerLen + 1
           /\ m.fin \in BOOLEAN /\ m.window \in Windows
           /\ m.fin => m.from + m.n = PeerLen + 1
           /\ Taken(m) \in Nat /\ Taken(m) <= m.n /\ recv_len + Taken(m) <= TCP_BUF_SIZE
           /\ Taken(m) > 0 => m.from = rcv_nxt
           /\ recv_len \in Nat /\ rcv_nxt \in Nat
<1>1. /\ m.from \in Nat /\ m.from >= 1 /\ m.n \in Nat /\ m.from + m.n <= PeerLen + 1
      /\ m.fin \in BOOLEAN /\ m.window \in Windows
      /\ m.fin => m.from + m.n = PeerLen + 1
  BY TcpAssumption DEF PeerSegments
<1>2. recv_len \in Nat /\ recv_len <= TCP_BUF_SIZE /\ TCP_BUF_SIZE \in Nat /\ rcv_nxt \in Nat
  BY TcpAssumption DEF IInv, TypeOK
<1> QED  BY <1>1, <1>2 DEF Taken, Least

LEMMA SegmentAck ==
    ASSUME IInv, NEW m \in PeerSegments
    PROVE  /\ m.ack \in Number /\ Off(m.ack) \in Nat
           /\ Off(m.ack) <= Len(pgot) + 1 + (IF pfin THEN 1 ELSE 0)
<1>1. PICK a \in PeerAcks : m.ack = Plus(iss, a)
  BY DEF PeerSegments
<1>2. Len(pgot) \in Nat /\ Len(pgot) <= MaxWrite
  BY DEF IInv, LocalsOK, PeerInv, Counted
<1>3. a \in Nat /\ a <= Len(pgot) + 1 + (IF pfin THEN 1 ELSE 0)
  BY <1>1, <1>2 DEF PeerAcks
<1>4. a < SeqSpace
  BY <1>2, <1>3, TcpAssumption
<1>5. Dist(iss, iss) = 0 /\ 0 + a = a
  BY <1>3, DistSelf, Typed
<1>6. Dist(iss, m.ack) = a /\ m.ack \in Number
  BY <1>1, <1>3, <1>4, <1>5, DistPlus, Typed
<1> QED  BY <1>3, <1>6 DEF Off

(* Once the FIN is counted, an acknowledgement that reaches snd_nxt acknowledges it, if
   the numbers have not wrapped. *)
LEMMA AckOfFin ==
    ASSUME IInv, used, fd, state = "FIN_WAIT_1", call = "close_wait", snd_nxt >= iss,
           NEW m \in PeerSegments, m.ack >= snd_nxt
    PROVE  pfin
<1>1. m.ack \in Number /\ Off(m.ack) <= Len(pgot) + 1 + (IF pfin THEN 1 ELSE 0)
  BY SegmentAck
<1>2. Off(m.ack) = IF iss <= m.ack THEN m.ack - iss ELSE m.ack - iss + SeqSpace
  BY <1>1, DistIs, Typed DEF Off
<1>3. Off(snd_nxt) = IF iss <= snd_nxt THEN snd_nxt - iss ELSE snd_nxt - iss + SeqSpace
  BY DistIs, Typed DEF Off
<1>4. Off(snd_nxt) = wrote + 2
  BY DEF IInv, CountInv
<1>5. Len(pgot) <= wrote /\ Len(pgot) \in Nat /\ wrote \in Nat
  <2>1. Uncounted = 0
    BY DEF Uncounted
  <2> QED  BY <2>1, TcpAssumption DEF IInv, PeerInv, Counted, LocalsOK, TypeOK
<1>6. iss \in Int /\ snd_nxt \in Int /\ m.ack \in Int /\ SeqSpace \in Nat
  BY <1>1, Typed, TcpAssumption DEF Number
<1>7. Off(m.ack) >= wrote + 2
  BY <1>2, <1>3, <1>4, <1>5, <1>6
<1>8. Off(m.ack) \in Int
  BY <1>2, <1>6
<1>9. CASE ~pfin
  <2>1. Off(m.ack) <= Len(pgot) + 1
    BY <1>1, <1>5, <1>9
  <2> QED  BY <1>5, <1>7, <1>8, <2>1
<1> QED  BY <1>9

LEMMA HandleSegmentIInv == ASSUME IInv, NEW m \in PeerSegments, HandleSegment(m) PROVE IInv'
<1> DEFINE t == Taken(m)
           st == IF m.fin THEN AfterFin(m) ELSE state
<1>1. /\ used /\ state \in Connected /\ remote_window' = m.window
      /\ m.fin => rcv_nxt <= PeerLen + 2
      /\ rcv_nxt' = rcv_nxt + t + (IF m.fin THEN 1 ELSE 0)
      /\ state' = AfterAck(st, m)
      /\ UNCHANGED <<fd, call, len, sent, chunk, copied, wrote, got, out, known, pgot, pfin>>
      /\ UNCHANGED <<used, pending_close, iss, snd_nxt, retrans_count>>
  BY DEF HandleSegment, program, peer
<1>2. /\ recv_len' = recv_len + t
      /\ recv_buf' = [i \in Cell |-> IF i \in recv_len + 1 .. recv_len + t
                                     THEN m.from + (i - recv_len - 1) ELSE recv_buf[i]]
  BY DEF HandleSegment, HandleData
<1>3. snd_una' = IF m.ack > snd_una /\ m.ack <= snd_nxt THEN m.ack ELSE snd_una
  BY DEF HandleSegment, HandleAck
<1>4. /\ past \subseteq past'
      /\ past' \subseteq past \cup {"raced", "early", "rushed"}
      /\ "raced" \notin past' => ~(call = "recv_take" /\ t > 0)
      /\ "early" \notin past' => ~(m.fin /\ rcv_nxt + t <= PeerLen)
      /\ "rushed" \notin past' => call \notin {"close_fin", "close_count"}
      /\ "resent" \in past' => "resent" \in past
  BY DEF HandleSegment
<1>5. /\ m.from \in Nat /\ m.from >= 1 /\ m.n \in Nat /\ m.from + m.n <= PeerLen + 1
      /\ m.fin \in BOOLEAN /\ m.window \in Windows
      /\ m.fin => m.from + m.n = PeerLen + 1
      /\ t \in Nat /\ t <= m.n /\ recv_len + t <= TCP_BUF_SIZE
      /\ t > 0 => m.from = rcv_nxt
      /\ recv_len \in Nat /\ rcv_nxt \in Nat
  BY <1>1, SegmentTaken
<1> HIDE DEF t
<1>6. /\ state = "ESTABLISHED" => state' \in {"ESTABLISHED", "CLOSE_WAIT"}
      /\ state = "CLOSE_WAIT" => state' = "CLOSE_WAIT"
      /\ state \in {"FIN_WAIT_1", "FIN_WAIT_2"} => state' \in Closing
      /\ state' \in Ended => m.fin \/ state \in Ended
      /\ state' = "FIN_WAIT_2" =>
             ~m.fin /\ (state = "FIN_WAIT_2" \/ (state = "FIN_WAIT_1" /\ m.ack >= snd_nxt))
  BY <1>1 DEF AfterAck, AfterFin, Connected, Closing, Ended
<1> HIDE DEF st
<1>7. state' \in Connected \cup {"CLOSING", "TIME_WAIT"}
  BY <1>1, <1>6 DEF Connected, Closing
<1>8. /\ snd_una' \in Number
      /\ Off(snd_una) <= Off(snd_una)' /\ Off(snd_una)' <= Off(snd_nxt)
      /\ Off(snd_una)' <= Len(pgot) + 1 + (IF pfin THEN 1 ELSE 0)
  <2>1. Off(snd_una)' = Off(snd_una') /\ Off(snd_una) \in Nat
    BY <1>1, OffType, Typed DEF Off
  <2>2. CASE m.ack > snd_una /\ m.ack <= snd_nxt
    <3>1. Off(snd_una) <= Off(m.ack) /\ Off(m.ack) <= Off(snd_nxt)
      <4>1. Dist(iss, snd_una) <= Dist(iss, snd_nxt)
        BY DEF IInv, CountInv, Off
      <4>2. m.ack \in Number
        BY SegmentAck
      <4> QED  BY <2>2, <4>1, <4>2, AckBetween, Typed DEF Off
    <3> QED  BY <1>3, <2>1, <2>2, <3>1, SegmentAck
  <2>3. CASE ~(m.ack > snd_una /\ m.ack <= snd_nxt)
    BY <1>3, <2>1, <2>3, Typed DEF IInv, CountInv
  <2> QED  BY <2>2, <2>3
<1>9. TypeOK'
  <2>1. recv_buf' \in [Cell -> 0 .. PeerLen]
    <3>1. \A i \in Cell : recv_buf[i] \in 0 .. PeerLen
      BY DEF IInv, TypeOK
    <3>2. \A i \in recv_len + 1 .. recv_len + t : m.from + (i - recv_len - 1) \in 0 .. PeerLen
      BY <1>5, TcpAssumption
    <3> QED  BY <1>2, <3>1, <3>2
  <2>2. {iss, snd_una, snd_nxt}' \subseteq 0 .. SeqSpace - 1
    BY <1>1, <1>8, Typed DEF Number
  <2>3. recv_len' \in 0 .. SeqSpace - 1 /\ recv_len' <= TCP_BUF_SIZE
    BY <1>2, <1>5, TcpAssumption
  <2>4. rcv_nxt' \in 0 .. PeerLen + 3
    <3>1. rcv_nxt \in 0 .. PeerLen + 3 /\ PeerLen \in Nat
      BY TcpAssumption DEF IInv, TypeOK
    <3>2. CASE t > 0
      BY <1>1, <1>5, <3>1, <3>2
    <3>3. CASE t = 0
      BY <1>1, <1>5, <3>1, <3>3
    <3> QED  BY <1>5, <3>2, <3>3
  <2> QED  BY <1>1, <1>5, <1>7, <2>1, <2>2, <2>3, <2>4 DEF IInv, TypeOK
<1>10. LocalsOK'
  BY <1>1, <1>4 DEF IInv, LocalsOK
<1>11. CallInv'
  BY <1>1, <1>6 DEF IInv, CallInv, Connected, Closing
<1>12. SendInv' /\ OutInv' /\ PeerInv'
  BY <1>1, <1>4 DEF IInv, SendInv, OutInv, PeerInv, Counted, Genuine, Off, Uncounted
<1>13. RoomInv'
  <2>1. rcv_nxt' >= 1
    <3>1. rcv_nxt >= 1
      BY <1>1 DEF IInv, RoomInv, Connected
    <3> QED  BY <1>1, <1>5, <3>1
  <2>2. call \in {"recv_shift", "recv_take"} => Len(copied) <= recv_len'
    <3>1. Len(copied) \in Nat
      BY DEF IInv, LocalsOK
    <3> QED  BY <1>1, <1>2, <1>5, <3>1 DEF IInv, RoomInv
  <2>3. state' # "SYN_SENT"
    BY <1>7 DEF Connected
  <2> QED  BY <1>1, <2>1, <2>2, <2>3 DEF IInv, RoomInv
<1>14. CountInv'
  <2>1. Off(snd_una)' >= 1
    <3>1. Off(snd_una) >= 1 /\ Off(snd_una) \in Nat /\ Off(snd_una)' \in Nat
      <4>1. Off(snd_una)' = Off(snd_una')
        BY <1>1 DEF Off
      <4> QED  BY <1>1, <1>8, <4>1, OffType, Typed DEF IInv, CountInv, Connected
    <3> QED  BY <1>8, <3>1
  <2>2. Off(snd_nxt)' = Off(snd_nxt)
    BY <1>1 DEF Off
  <2>3. state \notin {"CLOSED", "SYN_SENT"} /\ state' \notin {"CLOSED", "SYN_SENT"}
    BY <1>1, <1>7 DEF Connected
  <2> QED  BY <1>1, <1>8, <2>1, <2>2, <2>3 DEF IInv, CountInv
<1>15. FinInv'
  <2>1. call \in {"close_fin", "close_count"} => "rushed" \in past'
    BY <1>4
  <2>2. ASSUME fd, state' = "FIN_WAIT_2", "rushed" \notin past', snd_nxt >= iss
        PROVE  pfin
    <3>1. "rushed" \notin past /\ call \notin {"close_fin", "close_count"}
      BY <1>4, <2>2
    <3>2. CASE state = "FIN_WAIT_2"
      BY <1>1, <2>2, <3>1, <3>2 DEF IInv, FinInv, FinWait2MeansFinTaken
    <3>3. CASE state = "FIN_WAIT_1" /\ m.ack >= snd_nxt
      <4>1. call = "close_wait"
        BY <2>2, <3>1, <3>3 DEF IInv, CallInv, Closing, Closes
      <4> QED  BY <1>1, <2>2, <3>3, <4>1, AckOfFin
    <3> QED  BY <1>6, <2>2, <3>2, <3>3
  <2> QED  BY <1>1, <2>1, <2>2 DEF FinInv, FinWait2MeansFinTaken
<1>16. StreamInv'
  <2> SUFFICES ASSUME Clean' PROVE PlaceInv' /\ NextInv'
    BY DEF StreamInv
  <2>1. /\ Clean /\ PlaceInv /\ NextInv
        /\ ~(call = "recv_take" /\ t > 0) /\ ~(m.fin /\ rcv_nxt + t <= PeerLen)
    BY <1>1, <1>4 DEF Clean, IInv, StreamInv
  <2>2. Come \in Nat /\ Come <= PeerLen /\ PeerLen \in Nat /\ Len(got) \in Nat /\ rcv_nxt >= 1
        /\ Come = Len(got) + recv_len
    <3>1. Len(got) \in Nat
      BY DEF IInv, LocalsOK
    <3> QED  BY <1>1, <1>5, <2>1, <3>1, TcpAssumption DEF Come, PlaceInv, IInv, RoomInv, Connected
  <2>3. Come' = Come + t
    BY <1>1, <1>2, <1>5, <2>2 DEF Come
  <2>4. rcv_nxt = Come + 1 \/ (rcv_nxt >= PeerLen + 2 /\ Come = PeerLen)
    BY <2>1, <2>2 DEF NextInv
  <2>5. t > 0 => m.from = Come + 1 /\ Come + t <= PeerLen /\ rcv_nxt = Come + 1
    BY <1>5, <2>2, <2>4
  <2>6. Come + t <= PeerLen
    BY <1>5, <2>2, <2>5
  <2>7. m.fin => Come + t = PeerLen
    BY <1>5, <2>1, <2>2, <2>4, <2>6
  <2>8. NextInv'
    <3>1. \/ rcv_nxt' = Come + t + 1
          \/ rcv_nxt' >= PeerLen + 2 /\ Come + t = PeerLen
      BY <1>1, <1>5, <2>2, <2>4, <2>5, <2>6, <2>7
    <3>2. state' \in Ended => Come + t = PeerLen
      BY <1>5, <1>6, <2>1, <2>2, <2>6, <2>7 DEF NextInv
    <3> QED  BY <2>3, <3>1, <3>2 DEF NextInv
  <2>9. ASSUME NEW i \in 1 .. recv_len'
        PROVE  /\ i <= recv_len => recv_buf'[i] = recv_buf[i]
               /\ i > recv_len => recv_buf'[i] = Len(got) + i
    <3>1. i \in Cell /\ i <= recv_len + t
      BY <1>2, <1>5, TcpAssumption DEF Cell
    <3>2. CASE i <= recv_len
      <4>1. i \notin recv_len + 1 .. recv_len + t
        BY <1>5, <3>2
      <4> QED  BY <1>2, <1>5, <3>1, <3>2, <4>1
    <3>3. CASE i > recv_len
      <4>1. i \in recv_len + 1 .. recv_len + t
        BY <1>5, <3>1, <3>3
      <4>2. recv_buf'[i] = m.from + (i - recv_len - 1)
        BY <1>2, <3>1, <4>1
      <4>3. t > 0 /\ m.from = Len(got) + recv_len + 1
        BY <1>5, <2>2, <2>5, <3>1, <3>3
      <4> QED  BY <1>5, <2>2, <3>3, <4>2, <4>3
    <3> QED  BY <3>2, <3>3
  <2>10. call # "recv_take" => \A i \in 1 .. recv_len' : recv_buf'[i] = Len(got) + i
    <3> SUFFICES ASSUME call # "recv_take", NEW i \in 1 .. recv_len'
                 PROVE  recv_buf'[i] = Len(got) + i
      OBVIOUS
    <3>1. CASE i <= recv_len
      BY <1>5, <2>1, <2>9, <3>1 DEF PlaceInv
    <3>2. CASE i > recv_len
      BY <2>9, <3>2
    <3> QED  BY <1>5, <3>1, <3>2
  <2>11. call = "recv_take" => \A i \in 1 .. recv_len' - Len(copied) :
                                   recv_buf'[i] = Len(got) + Len(copied) + i
    <3> SUFFICES ASSUME call = "recv_take", NEW i \in 1 .. recv_len' - Len(copied)
                 PROVE  recv_buf'[i] = Len(got) + Len(copied) + i
      OBVIOUS
    <3>1. t = 0 /\ recv_len' = recv_len /\ Len(copied) \in Nat
      BY <1>2, <1>5, <2>1 DEF IInv, LocalsOK
    <3>2. i \in 1 .. recv_len' /\ i <= recv_len
      BY <1>5, <3>1
    <3> QED  BY <2>1, <2>9, <3>1, <3>2 DEF PlaceInv
  <2>12. PlaceInv'
    BY <1>1, <2>1, <2>3, <2>6, <2>10, <2>11 DEF PlaceInv
  <2> QED  BY <2>8, <2>12
<1> QED
  BY <1>9, <1>10, <1>11, <1>12, <1>13, <1>14, <1>15, <1>16 DEF IInv

-----------------------------------------------------------------------------
(* The invariant holds. *)

LEMMA StayIInv == IInv /\ UNCHANGED vars => IInv'
<1> SUFFICES ASSUME IInv, UNCHANGED vars PROVE IInv'
  OBVIOUS
<1>1. /\ UNCHANGED <<fd, call, len, sent, chunk, copied, wrote, got, out, known, pgot, pfin, past>>
      /\ UNCHANGED <<used, state, pending_close, iss, snd_una, snd_nxt, rcv_nxt, remote_window,
                     retrans_count, recv_buf, recv_len>>
  BY DEF vars, socket, program, peer
<1> USE <1>1 DEF IInv
<1>2. TypeOK' /\ LocalsOK' /\ CallInv' /\ SendInv' /\ RoomInv' /\ FinInv'
  BY DEF TypeOK, LocalsOK, CallInv, SendInv, RoomInv, FinInv, FinWait2MeansFinTaken, Uncounted
<1>3. CountInv' /\ OutInv' /\ PeerInv'
  BY DEF CountInv, OutInv, PeerInv, Counted, Genuine, Off, Uncounted
<1>4. StreamInv'
  BY DEF StreamInv, Clean, PlaceInv, NextInv, Come
<1> QED  BY <1>2, <1>3, <1>4

LEMMA NextIInv == IInv /\ [Next]_vars => IInv'
<1> SUFFICES ASSUME IInv, [Next]_vars PROVE IInv'
  OBVIOUS
<1>1. ASSUME NEW n \in 1 .. MaxWrite, SendEnter(n) PROVE IInv'
  BY <1>1, MoveIInv, TcpAssumption
<1>2. ASSUME NEW n \in 1 .. TCP_BUF_SIZE, RecvEnter(n) PROVE IInv'
  BY <1>2, MoveIInv, TcpAssumption
<1>3. CASE \/ ConnectCheck \/ ConnectDone \/ ConnectTimeout \/ SendReturn \/ SendWaited
           \/ RecvLook \/ RecvReturn \/ RecvAgain \/ PeerTakesSyn
  BY <1>3, MoveIInv
<1>4. ASSUME NEW w \in Windows, HandleSynAck(w) \/ HandleLate(w) PROVE IInv'
  BY <1>4, HandleSynAckIInv, HandleLateIInv
<1>5. CASE SocketCreate \/ Kill \/ CloseFree \/ PollFree
  BY <1>5, SocketCreateIInv, KillIInv, CloseFreeIInv, PollFreeIInv
<1>6. CASE ConnectSet \/ ConnectSyn
  BY <1>6, ConnectSetIInv, ConnectSynIInv
<1>7. CASE SendChunk \/ SendCount
  BY <1>7, SendChunkIInv, SendCountIInv
<1>8. CASE RecvCopy \/ RecvShift \/ RecvTake
  BY <1>8, RecvCopyIInv, RecvShiftIInv, RecvTakeIInv
<1>9. CASE CloseEnter \/ CloseFin \/ CloseCount
  BY <1>9, CloseEnterIInv, CloseFinIInv, CloseCountIInv
<1>10. CASE Retransmit
  BY <1>10, RetransmitIInv
<1>11. ASSUME NEW seg \in out, PeerTakes(seg) PROVE IInv'
  BY <1>11, PeerTakesIInv
<1>12. ASSUME NEW m \in PeerSegments, HandleSegment(m) PROVE IInv'
  BY <1>12, HandleSegmentIInv
<1>13. CASE UNCHANGED vars
  BY <1>13, StayIInv
<1> QED
  BY <1>1, <1>2, <1>3, <1>4, <1>5, <1>6, <1>7, <1>8, <1>9, <1>10, <1>11, <1>12, <1>13 DEF Next

LEMMA IInvAlways == Spec => []IInv
BY InitIInv, NextIInv, PTL DEF Spec

-----------------------------------------------------------------------------
(* Every number of the socket keeps its range, and recv_len, which TcpRecv reduces by
   what it copied before the timer interrupt could add to it, never exceeds the
   buffer. *)
THEOREM TcpTypes == Spec => []TypeOK
<1>1. IInv => TypeOK
  BY DEF IInv
<1> QED  BY <1>1, IInvAlways, PTL

(* TcpSend works on a connection until it is done, and TcpClose likewise: TcpPoll, which
   frees a slot in the state CLOSED from the timer interrupt, never finds them there. *)
THEOREM TcpNotFreedInUse == Spec => []NotFreedInUse
<1>1. IInv => NotFreedInUse
  BY DEF IInv, CallInv, NotFreedInUse, Sends, Closes, Closing
<1> QED  BY <1>1, IInvAlways, PTL

(* TcpClose waits for a state CLOSED that never comes, so it always takes its whole
   time-out; pending_close never meets CLOSE_WAIT, where LAST_ACK would begin. *)
THEOREM TcpCloseWaitsOut == Spec => []CloseWaitsOut
<1>1. IInv => CloseWaitsOut
  BY DEF IInv, CallInv, CloseWaitsOut, Closes, Closing
<1> QED  BY <1>1, IInvAlways, PTL

(* The acknowledgements TcpHandlePacket accepts, with comparisons that take no account of
   the wrap of sequence numbers, are between what was acknowledged and what was sent,
   and the peer has what they say, wherever the initial number lies. *)
THEOREM TcpAckedIsTaken == Spec => []AckedIsTaken
<1>1. IInv => AckedIsTaken
  BY DEF IInv, CountInv, AckedIsTaken
<1> QED  BY <1>1, IInvAlways, PTL

(* The peer's copy of what the program sent is right byte by byte, but for zeros that
   TcpPoll's retransmission puts in: the chunks of TcpSend carry the bytes their
   sequence numbers stand for, although snd_nxt is advanced after the segment is out. *)
THEOREM TcpPeerGetsBytesOrZeros == Spec => []PeerGetsBytesOrZeros
<1>1. IInv => PeerGetsBytesOrZeros
  <2> SUFFICES ASSUME IInv PROVE PeerGetsBytesOrZeros
    OBVIOUS
  <2>1. /\ Len(pgot) \in Nat /\ chunk \in Nat /\ wrote \in Nat
        /\ pgot \in Seq(Nat)
    BY TcpAssumption DEF IInv, LocalsOK, TypeOK
  <2>2. fd => Len(pgot) <= wrote + chunk
    BY <2>1 DEF IInv, PeerInv, Counted, Uncounted
  <2>3. \A i \in DOMAIN pgot : pgot[i] = i \/ (pgot[i] = 0 /\ "resent" \in past)
    BY <2>1 DEF IInv, PeerInv, Genuine
  <2> QED  BY <2>2, <2>3 DEF PeerGetsBytesOrZeros
<1> QED  BY <1>1, IInvAlways, PTL

(* FIN_WAIT_2 tells the truth when TcpClose had counted its FIN before the answer and the
   numbers have not wrapped. *)
THEOREM TcpFinWait2 == Spec => []FinWait2MeansFinTaken
<1>1. IInv => FinWait2MeansFinTaken
  BY DEF IInv, FinInv
<1> QED  BY <1>1, IInvAlways, PTL

(* What has come, byte by byte. *)
LEMMA StreamIs ==
    ASSUME IInv, Clean
    PROVE  /\ Stream \in Seq(0 .. PeerLen) /\ Len(Stream) = Come
           /\ Come \in Nat /\ Come <= PeerLen
           /\ \A i \in 1 .. Come : Stream[i] = i
<1>1. PlaceInv /\ used
  BY DEF IInv, StreamInv, Clean
<1>2. /\ got \in Seq(0 .. PeerLen) /\ copied \in Seq(0 .. PeerLen)
      /\ Len(got) \in Nat /\ Len(copied) \in Nat
  BY DEF IInv, LocalsOK
<1>3. recv_len \in Nat /\ recv_len <= TCP_BUF_SIZE /\ TCP_BUF_SIZE \in Nat
  BY <1>1, TcpAssumption DEF IInv, TypeOK
<1>4. Come \in Nat /\ Come <= PeerLen
  BY <1>1, <1>2, <1>3 DEF Come, PlaceInv
<1>5. ASSUME NEW n \in Nat, n <= recv_len
      PROVE  /\ SubSeq(recv_buf, 1, n) \in Seq(0 .. PeerLen)
             /\ Len(SubSeq(recv_buf, 1, n)) = n
             /\ \A i \in 1 .. n : SubSeq(recv_buf, 1, n)[i] = recv_buf[i]
  <2>1. \A i \in 1 .. n : recv_buf[i] \in 0 .. PeerLen
    BY <1>3, <1>5, BufferCells
  <2>2. /\ SubSeq(recv_buf, 1, n) \in Seq(0 .. PeerLen)
        /\ Len(SubSeq(recv_buf, 1, n)) = IF 1 <= n THEN n - 1 + 1 ELSE 0
        /\ \A i \in 1 .. n - 1 + 1 : SubSeq(recv_buf, 1, n)[i] = recv_buf[1 + i - 1]
    BY <2>1, SubSeqProperties
  <2>3. n - 1 + 1 = n /\ \A i \in 1 .. n : 1 + i - 1 = i
    OBVIOUS
  <2> QED  BY <2>2, <2>3
<1>6. CASE call # "recv_take"
  <2> DEFINE b == SubSeq(recv_buf, 1, recv_len)
  <2>1. /\ b \in Seq(0 .. PeerLen) /\ Len(b) = recv_len
        /\ \A i \in 1 .. recv_len : b[i] = recv_buf[i]
    BY <1>3, <1>5
  <2>2. Stream = got \o b
    BY <1>6 DEF Stream
  <2> HIDE DEF b
  <2>3. /\ Stream \in Seq(0 .. PeerLen) /\ Len(Stream) = Len(got) + recv_len
        /\ \A i \in 1 .. Len(got) + recv_len :
               Stream[i] = IF i <= Len(got) THEN got[i] ELSE b[i - Len(got)]
    <3>1. /\ got \o b \in Seq(0 .. PeerLen) /\ Len(got \o b) = Len(got) + Len(b)
          /\ \A i \in 1 .. Len(got) + Len(b) :
                 (got \o b)[i] = IF i <= Len(got) THEN got[i] ELSE b[i - Len(got)]
      BY <1>2, <2>1, ConcatProperties
    <3>2. Len(b) = recv_len
      BY <2>1
    <3> QED  BY <2>2, <3>1, <3>2
  <2>4. ASSUME NEW i \in 1 .. Come PROVE Stream[i] = i
    <3>1. i \in 1 .. Len(got) + recv_len
      BY DEF Come
    <3>2. CASE i <= Len(got)
      BY <1>1, <1>2, <2>3, <3>1, <3>2 DEF PlaceInv
    <3>3. CASE ~(i <= Len(got))
      <4>1. i - Len(got) \in 1 .. recv_len /\ Len(got) + (i - Len(got)) = i
        BY <1>2, <1>3, <3>1, <3>3
      <4>2. recv_buf[i - Len(got)] = Len(got) + (i - Len(got))
        BY <1>1, <1>6, <4>1 DEF PlaceInv
      <4>3. Stream[i] = recv_buf[i - Len(got)]
        BY <2>1, <2>3, <3>1, <3>3, <4>1
      <4> QED  BY <4>1, <4>2, <4>3
    <3> QED  BY <3>2, <3>3
  <2> QED  BY <1>4, <2>3, <2>4 DEF Come
<1>7. CASE call = "recv_take"
  <2> DEFINE n == recv_len - Len(copied)
             b == SubSeq(recv_buf, 1, n)
             c == got \o copied
  <2>1. Len(copied) <= recv_len
    BY <1>1, <1>7 DEF IInv, RoomInv
  <2>2. n \in Nat /\ n <= recv_len
    BY <1>2, <1>3, <2>1
  <2>3. b \in Seq(0 .. PeerLen) /\ Len(b) = n /\ \A i \in 1 .. n : b[i] = recv_buf[i]
    BY <1>5, <2>2
  <2>4. Stream = c \o b
    BY <1>7 DEF Stream
  <2>5. /\ c \in Seq(0 .. PeerLen) /\ Len(c) = Len(got) + Len(copied)
        /\ \A i \in 1 .. Len(got) + Len(copied) :
               c[i] = IF i <= Len(got) THEN got[i] ELSE copied[i - Len(got)]
    BY <1>2, ConcatProperties
  <2>6. Len(c) + n = Come
    BY <1>2, <1>3, <2>5 DEF Come
  <2> HIDE DEF b, c
  <2>7. /\ Stream \in Seq(0 .. PeerLen) /\ Len(Stream) = Len(c) + n
        /\ \A i \in 1 .. Len(c) + n : Stream[i] = IF i <= Len(c) THEN c[i] ELSE b[i - Len(c)]
    BY <2>3, <2>4, <2>5, ConcatProperties
  <2>8. /\ \A i \in 1 .. Len(got) : got[i] = i
        /\ \A i \in 1 .. Len(copied) : copied[i] = Len(got) + i
        /\ \A i \in 1 .. n : recv_buf[i] = Len(got) + Len(copied) + i
    BY <1>1, <1>7 DEF PlaceInv
  <2> HIDE DEF n
  <2>9. ASSUME NEW i \in 1 .. Come PROVE Stream[i] = i
    <3>1. i \in 1 .. Len(c) + n
      BY <2>6
    <3>2. CASE i <= Len(got)
      <4>1. i \in 1 .. Len(got) + Len(copied) /\ i <= Len(c)
        BY <1>2, <2>5, <3>1, <3>2
      <4> QED  BY <2>5, <2>7, <2>8, <3>1, <3>2, <4>1
    <3>3. CASE ~(i <= Len(got)) /\ i <= Len(c)
      <4>1. /\ i \in 1 .. Len(got) + Len(copied) /\ i - Len(got) \in 1 .. Len(copied)
            /\ Len(got) + (i - Len(got)) = i
        BY <1>2, <2>5, <3>1, <3>3
      <4> QED  BY <2>5, <2>7, <2>8, <3>1, <3>3, <4>1
    <3>4. CASE ~(i <= Len(c))
      <4>1. i - Len(c) \in 1 .. n /\ Len(got) + Len(copied) + (i - Len(c)) = i
        BY <1>2, <2>2, <2>5, <3>1, <3>4
      <4>2. Stream[i] = recv_buf[i - Len(c)]
        BY <2>3, <2>7, <3>1, <3>4, <4>1
      <4> QED  BY <2>8, <4>1, <4>2
    <3> QED  BY <3>2, <3>3, <3>4
  <2> QED  BY <1>4, <2>6, <2>7, <2>9
<1> QED  BY <1>6, <1>7

LEMMA PeerStreamIs == /\ PeerStream \in Seq(0 .. PeerLen) /\ Len(PeerStream) = PeerLen
                      /\ \A i \in 1 .. PeerLen : PeerStream[i] = i
<1>1. PeerStream \in [1 .. PeerLen -> 0 .. PeerLen] /\ PeerLen \in Nat
  BY TcpAssumption DEF PeerStream
<1> QED  BY <1>1, FcnIsSeq DEF PeerStream

LEMMA PrefixIs ==
    ASSUME NEW S, NEW s \in Seq(S), NEW u \in Seq(S), Len(s) <= Len(u),
           \A i \in 1 .. Len(s) : s[i] = u[i]
    PROVE  IsPrefix(s, u)
<1> DEFINE n == Len(s)
           p == SubSeq(u, 1, n)
<1>1. n \in Nat /\ Len(u) \in Nat /\ n <= Len(u)
  BY LenProperties
<1>2. \A i \in 1 .. n : u[i] \in S
  BY <1>1, ElementOfSeq
<1> HIDE DEF n
<1>3. /\ p \in Seq(S) /\ Len(p) = IF 1 <= n THEN n - 1 + 1 ELSE 0
      /\ \A i \in 1 .. n - 1 + 1 : p[i] = u[1 + i - 1]
  BY <1>1, <1>2, SubSeqProperties
<1>4. n - 1 + 1 = n /\ \A i \in 1 .. n : 1 + i - 1 = i
  BY <1>1
<1> HIDE DEF p
<1>5. Len(p) = n /\ \A i \in 1 .. n : p[i] = s[i]
  BY <1>1, <1>3, <1>4 DEF n
<1>6. p = s
  BY <1>3, <1>5, SeqEqual DEF n
<1>7. SubSeq(s, 1, Len(s)) = s
  BY SubSeqFull
<1> QED  BY <1>1, <1>6, <1>7 DEF IsPrefix, n, p

(* The program receives the peer's bytes, in order, each once, although TcpHandlePacket
   appends to the buffer between the steps of TcpRecv, for buffers and streams of any
   length; the exceptions are those named in past. *)
THEOREM TcpReceivedIsPrefix == Spec => []ReceivedIsPrefix
<1>1. IInv => ReceivedIsPrefix
  <2> SUFFICES ASSUME IInv, Clean PROVE IsPrefix(Stream, PeerStream)
    BY DEF ReceivedIsPrefix
  <2>1. /\ Stream \in Seq(0 .. PeerLen) /\ Len(Stream) = Come /\ Come \in Nat /\ Come <= PeerLen
        /\ \A i \in 1 .. Come : Stream[i] = i
    BY StreamIs
  <2>2. Len(Stream) <= Len(PeerStream) /\ \A i \in 1 .. Len(Stream) : Stream[i] = PeerStream[i]
    BY <2>1, PeerStreamIs, TcpAssumption
  <2> QED  BY <2>1, <2>2, PeerStreamIs, PrefixIs
<1> QED  BY <1>1, IInvAlways, PTL

(* When TcpRecv reports the end of the stream, all of it has come: the FIN is behind the
   last byte. *)
THEOREM TcpEndOfStream == Spec => []EndOfStream
<1>1. IInv => EndOfStream
  <2> SUFFICES ASSUME IInv, Clean, state \in Ended PROVE Stream = PeerStream
    BY DEF EndOfStream, Ended
  <2>1. /\ Stream \in Seq(0 .. PeerLen) /\ Len(Stream) = Come
        /\ \A i \in 1 .. Come : Stream[i] = i
    BY StreamIs
  <2>2. Come = PeerLen
    BY DEF IInv, StreamInv, NextInv
  <2> QED  BY <2>1, <2>2, PeerStreamIs, SeqEqual
<1> QED  BY <1>1, IInvAlways, PTL
=============================================================================
