----------------------------- MODULE EchoServer -----------------------------
(***************************************************************************)
(* The TCP command server, echo.c, with its MATLAB clients and lwIP as the *)
(* environment.  Every function of echo.c is a callback that lwIP runs to  *)
(* its end from the main loop, so a callback is one step here; what        *)
(* interleaves is the arrival of segments, acknowledgements, closes and    *)
(* resets.  The server keeps its state in file-scope variables that all    *)
(* connections share.                                                      *)
(*                                                                         *)
(* Clients connect one after another, as the MATLAB functions do: each     *)
(* opens a connection, writes its commands, waits for the reply if there   *)
(* is one, and leaves; its last segments, its close and acknowledgements   *)
(* of what it was sent may still be on their way when the next one opens.  *)
(*                                                                         *)
(* What a client writes is a stream of units: a command in text, or one    *)
(* byte of a payload (op RAW, n its value).  A segment is a command and    *)
(* any number of the payload bytes behind it, or any number of them alone: *)
(* an upload is cut wherever the stack likes, inside a word too.  Whatever *)
(* else can happen to a stream is a mishap, counted and bounded: the text  *)
(* of a command is cut, a run behind the first part of a segment is lost   *)
(* with it, a segment comes before an earlier connection's, a client's     *)
(* reset drops what it wrote.                                              *)
(*                                                                         *)
(* A reply is a sequence of byte offsets into the receive buffer.  A       *)
(* capture itself is one call here: Capture models it.                     *)
(***************************************************************************)
EXTENDS Integers, Sequences, FiniteSets

CONSTANTS
    Scripts,      \* Scripts[c]: the units that the c-th client writes
    SampleBytes,  \* bytes of one captured sample in memory (16)
    WordBytes,    \* bytes of one sample of an upload (4)
    Align,        \* replies are cut at multiples of this (8)
    SndBuf,       \* TCP_SND_BUF
    U16,          \* tcp_write's length is an unsigned number below this
    FftSizes,     \* the sample counts GET_FD_DATA accepts
    MaxData,      \* samples the signal generator's memory holds (4096)
    InitSize,     \* the data size before a client sets one (1024)
    BufBytes,     \* bytes in tx1_data and tx2_data (4096*4)
    CmdBytes,     \* bytes a swallowed command counts for
    Numbers,      \* what a number that was cut short may read as
    Digits,       \* digits that may be left over in dest, behind the number
    MaxLinger,    \* how many earlier connections may not be closed yet
    MaxMishaps    \* how many mishaps may happen

Conns == 1 .. Len(Scripts)
Channels == {1, 2}
Settings == {"en1", "en2", "lo", "mode1", "mode2", "gain1", "gain2", "profile"}

Units == [op : {"TEST", "TD", "FD", "SIZE", "DATA", "SET", "GET", "RAW"},
          ch : Channels, n : Nat, key : Settings]

\* What a MATLAB function writes on its connection: one command, or the size and
\* the bytes of a waveform.
IsRequest(s) == Len(s) = 1 /\ s[1].op \in {"TEST", "TD", "FD", "SET", "GET"}

IsUpload(s) ==
    /\ Len(s) >= 2 /\ s[1].op = "SIZE" /\ s[2].op = "DATA" /\ s[1].ch = s[2].ch
    /\ s[1].n \in 1 .. MaxData /\ Len(s) = 2 + s[1].n * WordBytes
    /\ \A i \in 3 .. Len(s) : s[i].op = "RAW"

ASSUME ScriptAssumption ==
    /\ Scripts \in Seq(Seq(Units))
    /\ \A c \in Conns : IsRequest(Scripts[c]) \/ IsUpload(Scripts[c])

\* tcp_sndbuf returns an unsigned 16 bit number.
ASSUME BufferAssumption ==
    /\ {SampleBytes, SndBuf, MaxData, InitSize, BufBytes, CmdBytes} \subseteq Nat
    /\ WordBytes \in Nat \ {0} /\ Align \in Nat \ {0} /\ U16 \in Nat
    /\ SndBuf < U16 /\ MaxData * WordBytes <= BufBytes

ASSUME BoundAssumption ==
    /\ Numbers \subseteq Nat /\ Digits \subseteq 0 .. 9
    /\ MaxLinger \in Nat /\ MaxMishaps \in Nat

VARIABLES
    conn,       \* conn[c]: "new", "open", "fin" (its client has left), "closing"
                \* (tcp_close was called, the reply is not acknowledged) or "closed"
    net,        \* net[c]: the units on their way to the server
    out,        \* out[c]: what tcp_write accepted on c while its client reads
    unacked,    \* unacked[c]: bytes that tcp_write accepted, not acknowledged yet
    window,     \* window[c]: taken from c's receive window and not given back
    bytesTotal, bytesSent,      \* the reply in progress
    received,   \* total_received
    rip,        \* rip[ch]: receive_in_progress
    size,       \* size[ch]: tx data size
    stack,      \* stack[ch]: the local arrays tx1_data and tx2_data
    torn,       \* torn[ch]: such an array was lost while it was being filled
    dataset,    \* dataset[ch]: the waveform loaded into the signal generator
    radio,      \* the settings made through the driver
    mishaps,    \* the mishaps so far
    spoiled     \* open connections whose command was cut, or whose reply a callback
                \* of another connection touched while the client waited for the rest

server == <<bytesTotal, bytesSent, received, rip, size, stack, torn, dataset, radio>>
vars == <<conn, net, out, unacked, window, server, mishaps, spoiled>>

upload == <<received, rip, size, stack, torn, dataset>>

Junk == 0
NoBytes == [i \in 1 .. BufBytes |-> Junk]

\* A byte that is not part of a whole command.
Raw == [op |-> "RAW", ch |-> 1, n |-> Junk, key |-> "lo"]

TypeOK ==
    /\ conn \in [Conns -> {"new", "open", "fin", "closing", "closed"}]
    /\ net \in [Conns -> Seq(Units)]
    /\ unacked \in [Conns -> 0 .. SndBuf]
    /\ window \in [Conns -> Nat]
    /\ bytesTotal \in Int /\ bytesSent \in Int
    /\ received \in Nat
    /\ rip \in [Channels -> BOOLEAN]
    /\ size \in [Channels -> Nat]
    /\ torn \in [Channels -> BOOLEAN]
    /\ radio \in [Settings -> Nat]
    /\ mishaps \in 0 .. MaxMishaps
    /\ spoiled \subseteq Conns

Init ==
    /\ conn = [c \in Conns |-> "new"]
    /\ net = [c \in Conns |-> <<>>]
    /\ out = [c \in Conns |-> <<>>]
    /\ unacked = [c \in Conns |-> 0]
    /\ window = [c \in Conns |-> 0]
    /\ bytesTotal = 0 /\ bytesSent = 0
    /\ received = 0
    /\ rip = [ch \in Channels |-> FALSE]
    /\ size = [ch \in Channels |-> InitSize]
    /\ stack = [ch \in Channels |-> NoBytes]
    /\ torn = [ch \in Channels |-> FALSE]
    /\ dataset = [ch \in Channels |-> <<>>]
    /\ radio = [s \in Settings |-> 0]
    /\ mishaps = 0
    /\ spoiled = {}

----------------------------------------------------------------------------
(* The client.                                                             *)

\* accept_callback: the connection gets its callbacks, and the client writes.
\* The client before it has left; what it left behind may be on its way.
Accept(c) ==
    /\ conn[c] = "new"
    /\ \A b \in 1 .. c - 1 : conn[b] \in {"fin", "closing", "closed"}
    /\ \A b \in 1 .. c - 1 : b + MaxLinger < c => conn[b] = "closed"
    /\ conn' = [conn EXCEPT ![c] = "open"]
    /\ net' = [net EXCEPT ![c] = Scripts[c]]
    /\ UNCHANGED <<out, unacked, window, server, mishaps, spoiled>>

\* A capture's client reads the bytes it asked for before it closes.
Expected(c) ==
    IF Scripts[c][1].op \in {"TD", "FD"} THEN Scripts[c][1].n * SampleBytes ELSE 0

Satisfied(c) == Len(out[c]) >= Expected(c)

Leave(c) ==
    /\ conn[c] = "open"
    /\ conn' = [conn EXCEPT ![c] = "fin"]
    /\ out' = [out EXCEPT ![c] = <<>>]
    /\ spoiled' = spoiled \ {c}
    /\ UNCHANGED <<net, unacked, window, server, mishaps>>

ClientClose(c) == Satisfied(c) /\ Leave(c)

\* The Timeout of the MATLAB connection passes first.
ClientGiveUp(c) == ~Satisfied(c) /\ Leave(c)

\* The client resets the connection, also after the server has closed it: no
\* callback runs.
Reset(c) ==
    /\ conn[c] \in {"open", "fin", "closing"}
    /\ net[c] # <<>> => mishaps < MaxMishaps
    /\ conn' = [conn EXCEPT ![c] = "closed"]
    /\ net' = [net EXCEPT ![c] = <<>>]
    /\ out' = [out EXCEPT ![c] = <<>>]
    /\ unacked' = [unacked EXCEPT ![c] = 0]
    /\ window' = [window EXCEPT ![c] = 0]
    /\ mishaps' = IF net[c] = <<>> THEN mishaps ELSE mishaps + 1
    /\ spoiled' = spoiled \ {c}
    /\ UNCHANGED server

\* A segment ends inside the text of a command.  Its first part is no command,
\* or one with a number cut short; the rest is not one.
Numbered(u) ==
    u.op \in {"TD", "FD", "SIZE"}
        \/ (u.op = "SET" /\ u.key \in {"lo", "gain1", "gain2", "profile"})

CutCommand(c) ==
    /\ mishaps < MaxMishaps
    /\ net[c] # <<>> /\ Head(net[c]).op # "RAW"
    /\ \E u \in {Raw} \cup {[Head(net[c]) EXCEPT !.n = m] : m \in Numbers} :
        /\ u = Raw \/ Numbered(Head(net[c]))
        /\ net' = [net EXCEPT ![c] = <<u, Raw>> \o Tail(@)]
    /\ mishaps' = mishaps + 1
    /\ spoiled' = IF conn[c] = "open" THEN spoiled \cup {c} ELSE spoiled
    /\ UNCHANGED <<conn, out, unacked, window, server>>

----------------------------------------------------------------------------
(* tcp_write: refused as a whole when the send buffer cannot take it, and  *)
(* once the connection is being closed.                                    *)

\* Mutant: the size of the send buffer is taken for the room left in it.
RoomWhole(c) == SndBuf

Room(c) == SndBuf - unacked[c]

\* bytes are accepted on c, of whose buffer acked bytes have become free.
Accepted(c, acked, bytes) ==
    /\ unacked' = [unacked EXCEPT ![c] = (@ - acked) + Len(bytes)]
    /\ out' = IF conn[c] = "open" THEN [out EXCEPT ![c] = @ \o bytes] ELSE out

\* The receive buffer from offset from.
RxBuffer(from, len) == [i \in 1 .. len |-> from + i - 1]

\* A short text or value that is not part of the receive buffer.
WriteText(c) ==
    IF Room(c) > 0 THEN Accepted(c, 0, <<-1>>) ELSE UNCHANGED <<out, unacked>>

RoundDown(n) == n - (n % Align)

----------------------------------------------------------------------------
(* recv_callback with a pbuf.                                              *)

Payload(c) == Head(net[c])

\* The callback reads the first k units.  A further run of lost units is freed
\* with them: the rest of a pbuf behind a command, or the further pbufs of a
\* chain, which only tcp_recved does not count.
Mishap(c, lost) == lost > 0 \/ \E b \in 1 .. c - 1 : net[b] # <<>>

\* Clients whose command has been handled and who wait for the rest of a reply.
Waiting == {b \in Conns : conn[b] = "open" /\ net[b] = <<>> /\ ~Satisfied(b)}

Spoil(c) == spoiled' = spoiled \cup (Waiting \ {c})

\* What every call does before it looks at the payload.
Received(c, k, lost) ==
    /\ k \in 1 .. Len(net[c]) /\ lost \in 0 .. Len(net[c]) - k
    /\ k > 1 => Payload(c).op \in {"DATA", "RAW"}
    /\ \A i \in 2 .. k : net[c][i].op = "RAW"
    /\ Mishap(c, lost) => mishaps < MaxMishaps
    /\ mishaps' = IF Mishap(c, lost) THEN mishaps + 1 ELSE mishaps
    /\ net' = [net EXCEPT ![c] = SubSeq(@, k + lost + 1, Len(@))]
    /\ \E chained \in {0, lost} : window' = [window EXCEPT ![c] = @ + chained]
    /\ Spoil(c)
    /\ UNCHANGED conn

NoReply == bytesSent' = 0 /\ bytesTotal' = 0

TestConn(c, k, lost) ==
    /\ Received(c, k, lost)
    /\ Payload(c).op = "TEST"
    /\ WriteText(c)
    /\ NoReply
    /\ UNCHANGED <<upload, radio>>

\* The data is in the receive buffer; the first piece of it is as long as
\* the send buffer allows, whatever was asked for.
StartReply(c, n) ==
    /\ bytesTotal' = n * SampleBytes
    /\ bytesSent' = RoundDown(Room(c))
    /\ Accepted(c, 0, RxBuffer(0, RoundDown(Room(c))))

GetTdData(c, k, lost) ==
    /\ Received(c, k, lost)
    /\ Payload(c).op = "TD"
    /\ StartReply(c, Payload(c).n)
    /\ UNCHANGED <<upload, radio>>

GetFdData(c, k, lost) ==
    /\ Received(c, k, lost)
    /\ Payload(c).op = "FD"
    /\ IF Payload(c).n \in FftSizes
       THEN StartReply(c, Payload(c).n)
       ELSE WriteText(c) /\ NoReply
    /\ UNCHANGED <<upload, radio>>

SetDataSize(c, k, lost) ==
    /\ Received(c, k, lost)
    /\ Payload(c).op = "SIZE"
    /\ size' = [size EXCEPT ![Payload(c).ch] = Payload(c).n]
    /\ NoReply
    /\ UNCHANGED <<out, unacked, received, rip, stack, torn, dataset, radio>>

Early(c) == Payload(c).op \in {"TEST", "TD", "FD", "SIZE"}

\* Channel ch takes the payload: it carries SET_TXn_DATA, or an upload of the
\* channel is in progress, whatever the payload is; channel 1 comes first.
Uploads(c, ch) ==
    /\ ~Early(c)
    /\ (Payload(c).op = "DATA" /\ Payload(c).ch = ch) \/ rip[ch]
    /\ ch = 2 => ~rip[1] /\ ~(Payload(c).op = "DATA" /\ Payload(c).ch = 1)

Bytes(units) == [i \in 1 .. Len(units) |-> units[i].n]

\* The bytes the callback copies: the first segment of an upload without its
\* header, any later one as a whole.
Copied(c, k, ch) ==
    LET bytes == Bytes(SubSeq(net[c], 1, k))
    IN  IF Payload(c).op = "RAW" THEN bytes
        ELSE IF rip[ch] THEN [i \in 1 .. CmdBytes |-> Junk] \o Tail(bytes)
        ELSE Tail(bytes)

\* Mutant: every segment is copied to the start of the array.
PlacedAtStart(old, new) ==
    [i \in 1 .. BufBytes |-> IF i \in 1 .. Len(new) THEN new[i] ELSE old[i]]

\* The array after the new bytes were copied behind the ones already there.
Placed(old, new) ==
    [i \in 1 .. BufBytes |->
        IF i \in received + 1 .. received + Len(new) THEN new[i - received] ELSE old[i]]

\* Mutant: one byte more is awaited.
CompleteLate(total, ch) == total > size[ch] * WordBytes

Complete(total, ch) == total >= size[ch] * WordBytes

\* The arrays are locals of the callback: what an earlier call left in them
\* may or may not still be there (Junk is whatever else is).  A call that has
\* filled one leaves nothing that a later upload would rely on.
SetTxData(c, k, lost, ch) ==
    /\ Received(c, k, lost)
    /\ Uploads(c, ch)
    /\ \E gone \in BOOLEAN :
         LET new == Copied(c, k, ch)
             total == received + Len(new)
             array == Placed(IF gone THEN NoBytes ELSE stack[ch], new)
             done == Complete(total, ch)
         IN  /\ stack' = [stack EXCEPT ![ch] = IF done THEN NoBytes ELSE array]
             /\ torn' = [torn EXCEPT ![ch] = rip[ch] /\ (gone \/ @)]
             /\ rip' = [rip EXCEPT ![ch] = ~done]
             /\ received' = IF done THEN 0 ELSE total
             /\ dataset' = IF done /\ size[ch] \in 1 .. MaxData
                           THEN [dataset EXCEPT ![ch] = SubSeq(array, 1, size[ch] * WordBytes)]
                           ELSE dataset
    /\ NoReply
    /\ UNCHANGED <<out, unacked, size, radio>>

Late(c) == ~Early(c) /\ \A ch \in Channels : ~Uploads(c, ch)

\* SET_LO_FREQ and SET_RXn_GAIN answer with the value set; EN_TXn_OUTPUT,
\* DIS_TXn_OUTPUT, SET_PROFILE, RXn_AUTO and RXn_MANUAL answer nothing.
Answered(key) == key \in {"lo", "gain1", "gain2"}

\* SET_PROFILE loads one of three filter sets: the rate in units of 10 kHz.
Effect(key, n) ==
    IF key # "profile" THEN n ELSE IF n = 1 THEN 1536 ELSE IF n = 2 THEN 3072 ELSE 6144

\* What is set.  The answered commands do not end the copy of their number in
\* dest, which is not initialised: digits left there are read as part of it (one
\* digit stands for any run of them).
Readings(key, n) ==
    {Effect(key, n)} \cup (IF Answered(key) THEN {10 * n + d : d \in Digits} ELSE {})

Set(c, k, lost) ==
    /\ Received(c, k, lost)
    /\ Late(c) /\ Payload(c).op = "SET"
    /\ \E value \in Readings(Payload(c).key, Payload(c).n) :
            radio' = [radio EXCEPT ![Payload(c).key] = value]
    /\ IF Answered(Payload(c).key) THEN WriteText(c) ELSE UNCHANGED <<out, unacked>>
    /\ NoReply
    /\ UNCHANGED upload

\* GET_LO_FREQ and GET_RXn_GAIN answer with the value, anything else that is
\* not a command with "Unknown command received."
GetOrUnknown(c, k, lost) ==
    /\ Received(c, k, lost)
    /\ Late(c) /\ Payload(c).op \in {"GET", "RAW"}
    /\ WriteText(c)
    /\ NoReply
    /\ UNCHANGED <<upload, radio>>

Handle(c, k, lost) ==
    \/ TestConn(c, k, lost)
    \/ GetTdData(c, k, lost)
    \/ GetFdData(c, k, lost)
    \/ SetDataSize(c, k, lost)
    \/ \E ch \in Channels : SetTxData(c, k, lost, ch)
    \/ Set(c, k, lost)
    \/ GetOrUnknown(c, k, lost)

RecvCallback(c) ==
    \E k \in 1 .. Len(net[c]) : \E lost \in 0 .. Len(net[c]) - k : Handle(c, k, lost)

\* recv_callback without a pbuf: the client has closed.  Only tcp_recv is taken
\* back; tcp_close resets the connection if its window is not whole, else it
\* stays, with its send_callback, until everything is acknowledged.
Close(c) ==
    /\ conn[c] = "fin" /\ net[c] = <<>>
    /\ IF unacked[c] = 0 \/ window[c] > 0
       THEN /\ conn' = [conn EXCEPT ![c] = "closed"]
            /\ unacked' = [unacked EXCEPT ![c] = 0]
       ELSE /\ conn' = [conn EXCEPT ![c] = "closing"]
            /\ UNCHANGED unacked
    /\ window' = [window EXCEPT ![c] = 0]
    /\ NoReply
    /\ Spoil(c)
    /\ UNCHANGED <<net, out, upload, radio, mishaps>>

----------------------------------------------------------------------------
(* send_callback, which lwIP calls when n more bytes are acknowledged.     *)

\* Mutant: the last piece is never sent.
PieceFullOnly(rest, room) == IF rest > room THEN RoundDown(room) ELSE 0

\* How much of the rest goes out now.
Piece(rest, room) == IF rest > room THEN RoundDown(room) ELSE rest

\* Mutant: the offset is taken after bytes_sent has moved.
OffsetAfter(len) == bytesSent + len

\* Where in the receive buffer the piece begins.
Offset(len) == bytesSent

\* n bytes are acknowledged; a closing connection is gone with the last of them.
\* bytes_sent moves whether or not tcp_write takes the piece.
SendCallback(c, n) ==
    LET room == Room(c) + n
        rest == bytesTotal - bytesSent
        len == Piece(rest, room)
        taken == rest # 0 /\ conn[c] # "closing" /\ len % U16 <= room
    IN
    /\ conn[c] \in {"open", "fin", "closing"}
    /\ n \in 1 .. unacked[c]
    /\ bytesSent' = IF rest = 0 THEN bytesSent ELSE bytesSent + len
    /\ Accepted(c, n, IF taken THEN RxBuffer(Offset(len), len % U16) ELSE <<>>)
    /\ conn' = IF conn[c] = "closing" /\ n = unacked[c]
               THEN [conn EXCEPT ![c] = "closed"] ELSE conn
    /\ IF rest = 0 THEN UNCHANGED spoiled ELSE Spoil(c)
    /\ UNCHANGED <<net, window, bytesTotal, upload, radio, mishaps>>

Next ==
    \E c \in Conns :
        \/ Accept(c)
        \/ ClientClose(c)
        \/ ClientGiveUp(c)
        \/ Reset(c)
        \/ CutCommand(c)
        \/ RecvCallback(c)
        \/ Close(c)
        \/ \E n \in 1 .. SndBuf : SendCallback(c, n)

\* The main loop handles what has arrived, segments and acknowledgements alike,
\* one after the other.  No client has to come, to leave or to give up.
Fairness == WF_vars(\E c \in Conns : RecvCallback(c) \/ SendCallback(c, unacked[c]))

Spec == Init /\ [][Next]_vars /\ Fairness

----------------------------------------------------------------------------
(* Properties.                                                             *)

\* A client with a capture that the server accepts.
Captures(c) ==
    LET m == Scripts[c][1] IN m.op = "TD" \/ (m.op = "FD" /\ m.n \in FftSizes)

\* However the acknowledgements cut it, the reply a client reads is the
\* receive buffer from its first byte on: no byte of the first Expected ones
\* is skipped, repeated or taken from the reply of a client that gave up or
\* reset its connection in the middle, whatever was lost, cut or overtaken on
\* the others.  Excepted are clients whose own command was cut, and, since all
\* connections share bytes_sent and bytes_total, those for whose reply a late
\* acknowledgement, close or segment of another connection came between its
\* beginning and its end.
ReplyInOrder ==
    \A c \in Conns \ spoiled : Captures(c) =>
        \A i \in 1 .. Len(out[c]) : i <= Expected(c) => out[c][i] = i - 1

\* Every capture's client gets all the bytes it asked for, unless it leaves or
\* is one of those that ReplyInOrder excepts.
ReplyCompletes ==
    \A c \in {b \in Conns : Captures(b)} :
        conn[c] = "open" ~> (Satisfied(c) \/ conn[c] # "open" \/ c \in spoiled)

\* The clients of channel ch's waveform, and of a setting.
Uploaders(ch) == {c \in Conns : Scripts[c][1].op = "SIZE" /\ Scripts[c][1].ch = ch}

Setters(key) == {c \in Conns : Scripts[c][1].op = "SET" /\ Scripts[c][1].key = key}

\* The last of them that has connected.
Latest(S) == {c \in S : conn[c] # "new" /\ \A d \in S : d > c => conn[d] = "new"}

Wave(c) == Bytes(SubSeq(Scripts[c], 3, Len(Scripts[c])))

\* Nothing that a client wrote is still on its way.
Idle == \A c \in Conns : net[c] = <<>>

\* While nothing is on its way each channel plays the waveform that was last
\* sent to it, in however many segments, provided the local array survived
\* from one callback to the next and there was no mishap.
UploadLoaded ==
    mishaps = 0 /\ Idle =>
        \A ch \in Channels : \A c \in Latest(Uploaders(ch)) : torn[ch] \/ dataset[ch] = Wave(c)

\* While nothing is on its way every setting is the one last asked for, exactly
\* or, for LO frequency and gains, followed by leftover digits: without a
\* mishap no upload swallows a command, since each notices its own end.
SettingsApplied ==
    mishaps = 0 /\ Idle =>
        \A key \in Settings : \A c \in Latest(Setters(key)) :
            radio[key] \in Readings(key, Scripts[c][1].n)

----------------------------------------------------------------------------
(* What the documentation says and the code does not do.                   *)

\* set_tx_data.m:5: "Format must be 2 x n, 1<=n<=4096", and nothing about
\* how many segments carry it: the waveform sent is the waveform loaded.
UploadIntact ==
    Idle => \A ch \in Channels : \A c \in Latest(Uploaders(ch)) : dataset[ch] = Wave(c)
============================================================================
