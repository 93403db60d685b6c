------------------------- MODULE EchoServer_proofs -------------------------
(***************************************************************************)
(* Proofs about EchoServer for all scripts, buffers and piece sizes, any   *)
(* number of mishaps and any cut of the streams.  Whatever happens, the    *)
(* types hold and the reply of a capture is in order for a client that is  *)
(* not spoiled; as long as there is no mishap every upload is loaded and   *)
(* every setting is applied.                                               *)
(***************************************************************************)
EXTENDS EchoServer, SequenceTheorems, TLAPS

----------------------------------------------------------------------------
(* What holds whatever happens.                                            *)

WireTypes ==
    /\ conn \in [Conns -> {"new", "open", "fin", "closing", "closed"}]
    /\ net \in [Conns -> Seq(Units)]
    /\ out \in [Conns -> Seq(Int)]
    /\ unacked \in [Conns -> 0 .. SndBuf]
    /\ window \in [Conns -> Nat]
    /\ bytesTotal \in Int /\ bytesSent \in Int
    /\ mishaps \in 0 .. MaxMishaps
    /\ spoiled \in SUBSET Conns

ServerTypes ==
    /\ received \in Nat
    /\ rip \in [Channels -> BOOLEAN]
    /\ size \in [Channels -> Nat]
    /\ torn \in [Channels -> BOOLEAN]
    /\ stack \in [Channels -> [1 .. BufBytes -> Nat]]
    /\ dataset \in [Channels -> Seq(Nat)]
    /\ radio \in [Settings -> Nat]

\* A client that is not there has been sent nothing, one to come nothing at all.
Fresh(c) ==
    /\ conn[c] # "open" => out[c] = <<>>
    /\ conn[c] = "new" => net[c] = <<>> /\ unacked[c] = 0

InOrder(c) == \A i \in 1 .. Len(out[c]) : i <= Expected(c) => out[c][i] = i - 1

\* A reply starts when its command is received.  While it is not complete the
\* server's two counters are those of this reply.
Reply(c) ==
    Captures(c) /\ conn[c] = "open" /\ c \notin spoiled =>
        /\ InOrder(c)
        /\ \/ net[c] = Scripts[c] /\ out[c] = <<>> /\ unacked[c] = 0
           \/ /\ net[c] = <<>>
              /\ ~Satisfied(c) => bytesTotal = Expected(c) /\ bytesSent = Len(out[c])

WireInv == WireTypes /\ ServerTypes /\ \A c \in Conns : Fresh(c) /\ Reply(c)

----------------------------------------------------------------------------
(* Lemmas about the constants and the operators.                           *)

LEMMA BufferFacts ==
    /\ SampleBytes \in Nat /\ SndBuf \in Nat /\ MaxData \in Nat /\ BufBytes \in Nat
    /\ InitSize \in Nat /\ CmdBytes \in Nat /\ Align \in Nat \ {0} /\ U16 \in Nat
    /\ WordBytes \in Nat \ {0} /\ SndBuf < U16 /\ MaxData * WordBytes <= BufBytes
BY BufferAssumption

\* What a script can be.
LEMMA ScriptFacts ==
    ASSUME NEW c \in Conns
    PROVE  /\ Scripts[c] \in Seq(Units) /\ Len(Scripts[c]) \in Nat /\ Len(Scripts[c]) >= 1
           /\ \A i \in 1 .. Len(Scripts[c]) : Scripts[c][i] \in Units
           /\ IsRequest(Scripts[c]) \/ IsUpload(Scripts[c])
<1>1. Scripts \in Seq(Seq(Units)) /\ (IsRequest(Scripts[c]) \/ IsUpload(Scripts[c]))
  BY ScriptAssumption
<1>2. Scripts[c] \in Seq(Units)
  BY ScriptAssumption DEF Conns
<1>3. Len(Scripts[c]) \in Nat /\ Len(Scripts[c]) >= 1
  BY <1>1, <1>2, ScriptAssumption DEF IsRequest, IsUpload
<1>. QED  BY <1>2, <1>3, ScriptAssumption

LEMMA CaptureFacts ==
    ASSUME NEW c \in Conns, Captures(c)
    PROVE  /\ Len(Scripts[c]) = 1 /\ Scripts[c][1].op \in {"TD", "FD"}
           /\ Scripts[c][1].op = "FD" => Scripts[c][1].n \in FftSizes
           /\ Expected(c) = Scripts[c][1].n * SampleBytes /\ Expected(c) \in Nat
<1>1. Scripts[c][1].op \in {"TD", "FD"} /\ (Scripts[c][1].op = "FD" => Scripts[c][1].n \in FftSizes)
  BY DEF Captures
<1>2. Len(Scripts[c]) = 1
  BY <1>1, ScriptFacts DEF IsUpload, IsRequest
<1>3. Expected(c) = Scripts[c][1].n * SampleBytes
  BY <1>1 DEF Expected
<1>4. Scripts[c][1] \in Units
  BY <1>2, ScriptFacts
<1>5. Scripts[c][1].n \in Nat
  BY <1>4 DEF Units
<1>6. Scripts[c][1].n * SampleBytes \in Nat
  BY <1>5, BufferFacts
<1>. QED  BY <1>1, <1>2, <1>3, <1>6

LEMMA ExpectedFacts ==
    ASSUME NEW c \in Conns
    PROVE  Expected(c) \in Nat
<1>1. Scripts[c][1] \in Units
  BY ScriptFacts
<1>2. Scripts[c][1].n \in Nat
  BY <1>1 DEF Units
<1>3. Scripts[c][1].n * SampleBytes \in Nat
  BY <1>2, BufferFacts
<1>. QED  BY <1>3 DEF Expected

LEMMA RoundFacts ==
    ASSUME NEW n \in Nat
    PROVE  RoundDown(n) \in 0 .. n
<1>1. Align \in Nat \ {0}
  BY BufferFacts
<1>. QED  BY <1>1 DEF RoundDown

LEMMA CutFacts ==
    ASSUME NEW len \in Int
    PROVE  len % U16 \in Nat /\ (len \in 0 .. SndBuf => len % U16 = len)
<1>1. U16 \in Nat /\ U16 > 0 /\ SndBuf \in Nat /\ SndBuf < U16
  BY BufferFacts
<1>. QED  BY <1>1

LEMMA RxBufferFacts ==
    ASSUME NEW from \in Int, NEW len \in Nat
    PROVE  /\ RxBuffer(from, len) \in Seq(Int) /\ Len(RxBuffer(from, len)) = len
           /\ \A i \in 1 .. len : RxBuffer(from, len)[i] = from + i - 1
BY DEF RxBuffer

----------------------------------------------------------------------------
(* What the callbacks do to a connection.                                  *)

\* What tcp_write does to the connections: types, and nothing to any other one.
WriteTypes(c) ==
    /\ out' \in [Conns -> Seq(Int)] /\ unacked' \in [Conns -> 0 .. SndBuf]
    /\ \A b \in Conns : b # c => out'[b] = out[b] /\ unacked'[b] = unacked[b]
    /\ \A b \in Conns : conn[b] # "open" => out'[b] = out[b]

LEMMA NotWritten ==
    ASSUME WireTypes, NEW c \in Conns, UNCHANGED <<out, unacked>>
    PROVE  WriteTypes(c)
BY DEF WireTypes, WriteTypes

LEMMA AcceptedFacts ==
    ASSUME WireTypes, NEW c \in Conns, NEW acked \in 0 .. unacked[c], NEW bytes \in Seq(Int),
           Len(bytes) <= SndBuf - unacked[c] + acked, Accepted(c, acked, bytes)
    PROVE  WriteTypes(c) /\ (conn[c] = "open" => out'[c] = out[c] \o bytes)
<1>1. /\ out \in [Conns -> Seq(Int)] /\ unacked \in [Conns -> 0 .. SndBuf]
      /\ Len(bytes) \in Nat /\ SndBuf \in Nat
  BY BufferFacts DEF WireTypes
<1>2. unacked' = [unacked EXCEPT ![c] = (@ - acked) + Len(bytes)]
  BY DEF Accepted
<1>3. (unacked[c] - acked) + Len(bytes) \in 0 .. SndBuf
  BY <1>1
<1>4. unacked' \in [Conns -> 0 .. SndBuf] /\ \A b \in Conns : b # c => unacked'[b] = unacked[b]
  BY <1>1, <1>2, <1>3
<1>5. CASE conn[c] = "open"
  <2>1. out' = [out EXCEPT ![c] = @ \o bytes]
    BY <1>5 DEF Accepted
  <2>2. out[c] \o bytes \in Seq(Int)
    BY <1>1, ConcatProperties
  <2>. QED  BY <1>1, <1>4, <1>5, <2>1, <2>2 DEF WriteTypes
<1>6. CASE conn[c] # "open"
  <2>1. out' = out
    BY <1>6 DEF Accepted
  <2>. QED  BY <1>1, <1>4, <1>6, <2>1 DEF WriteTypes
<1>. QED  BY <1>5, <1>6

LEMMA WriteTextFacts ==
    ASSUME WireTypes, NEW c \in Conns, WriteText(c)
    PROVE  WriteTypes(c)
<1>1. <<-1>> \in Seq(Int) /\ Len(<<-1>>) = 1
  OBVIOUS
<1>2. unacked[c] \in 0 .. SndBuf /\ SndBuf \in Nat
  BY BufferFacts DEF WireTypes
<1>3. CASE Room(c) > 0
  <2>1. Accepted(c, 0, <<-1>>)
    BY <1>3 DEF WriteText
  <2>2. 1 <= SndBuf - unacked[c] + 0 /\ 0 \in 0 .. unacked[c]
    BY <1>2, <1>3 DEF Room
  <2>. QED  BY <1>1, <1>2, <2>1, <2>2, AcceptedFacts
<1>4. CASE ~(Room(c) > 0)
  BY <1>4, NotWritten DEF WriteText
<1>. QED  BY <1>3, <1>4

\* The first piece of a reply.
LEMMA StartReplyFacts ==
    ASSUME WireTypes, NEW c \in Conns, NEW n \in Nat, StartReply(c, n)
    PROVE  /\ WriteTypes(c)
           /\ bytesTotal' = n * SampleBytes /\ bytesTotal' \in Int /\ bytesSent' \in Int
           /\ conn[c] = "open" /\ out[c] = <<>> /\ unacked[c] = 0 =>
                  /\ bytesSent' = Len(out'[c])
                  /\ \A i \in 1 .. Len(out'[c]) : out'[c][i] = i - 1
<1> DEFINE len == RoundDown(Room(c))
<1>1. Room(c) \in 0 .. SndBuf /\ Room(c) = SndBuf - unacked[c] /\ unacked[c] \in 0 .. SndBuf
  BY BufferFacts DEF WireTypes, Room
<1>2. len \in 0 .. Room(c)
  BY <1>1, RoundFacts
<1>3. bytesTotal' = n * SampleBytes /\ bytesSent' = len /\ Accepted(c, 0, RxBuffer(0, len))
  BY DEF StartReply
<1> HIDE DEF len
<1>4. len \in Nat /\ len <= SndBuf - unacked[c] + 0
  BY <1>1, <1>2
<1>5. /\ RxBuffer(0, len) \in Seq(Int) /\ Len(RxBuffer(0, len)) = len
      /\ \A i \in 1 .. len : RxBuffer(0, len)[i] = 0 + i - 1
  BY <1>4, RxBufferFacts
<1>6. WriteTypes(c) /\ (conn[c] = "open" => out'[c] = out[c] \o RxBuffer(0, len))
  BY <1>1, <1>3, <1>4, <1>5, AcceptedFacts
<1>7. ASSUME conn[c] = "open", out[c] = <<>>
      PROVE  /\ bytesSent' = Len(out'[c])
             /\ \A i \in 1 .. Len(out'[c]) : out'[c][i] = i - 1
  <2>1. out'[c] = RxBuffer(0, len)
    BY <1>5, <1>6, <1>7, ConcatEmptySeq
  <2>. QED  BY <1>3, <1>5, <2>1
<1>8. n * SampleBytes \in Int
  BY BufferFacts
<1>. QED  BY <1>3, <1>4, <1>6, <1>7, <1>8

\* What the callback takes from the wire.
LEMMA ReceivedFacts ==
    ASSUME WireTypes, NEW c \in Conns, NEW k, NEW lost, Received(c, k, lost)
    PROVE  /\ k \in 1 .. Len(net[c]) /\ lost \in 0 .. Len(net[c]) - k
           /\ net[c] \in Seq(Units) /\ net[c] # <<>> /\ Len(net[c]) \in Nat
           /\ Payload(c) = net[c][1] /\ Payload(c) \in Units
           /\ conn' = conn /\ Spoil(c)
           /\ net' \in [Conns -> Seq(Units)] /\ window' \in [Conns -> Nat]
           /\ net'[c] = SubSeq(net[c], k + lost + 1, Len(net[c]))
           /\ \A b \in Conns : b # c => net'[b] = net[b]
           /\ mishaps' \in 0 .. MaxMishaps /\ mishaps' >= mishaps
           /\ mishaps' = mishaps => lost = 0 /\ \A b \in 1 .. c - 1 : net[b] = <<>>
<1>1. /\ net \in [Conns -> Seq(Units)] /\ net[c] \in Seq(Units) /\ Len(net[c]) \in Nat
      /\ k \in 1 .. Len(net[c]) /\ lost \in 0 .. Len(net[c]) - k
      /\ net' = [net EXCEPT ![c] = SubSeq(@, k + lost + 1, Len(@))]
      /\ conn' = conn /\ Spoil(c) /\ mishaps \in 0 .. MaxMishaps /\ MaxMishaps \in Nat
  BY BoundAssumption DEF Received, WireTypes
<1>2. net[c] # <<>>
  BY <1>1
<1>3. Payload(c) = net[c][1] /\ Payload(c) \in Units
  BY <1>1, <1>2, HeadTailProperties DEF Payload
<1>4. SubSeq(net[c], k + lost + 1, Len(net[c])) \in Seq(Units)
  BY <1>1, SubSeqProperties
<1>5. /\ net' \in [Conns -> Seq(Units)] /\ net'[c] = SubSeq(net[c], k + lost + 1, Len(net[c]))
      /\ \A b \in Conns : b # c => net'[b] = net[b]
  BY <1>1, <1>4
<1>6. window' \in [Conns -> Nat]
  <2>1. PICK chained \in {0, lost} : window' = [window EXCEPT ![c] = @ + chained]
    BY DEF Received
  <2>2. chained \in Nat
    BY <1>1, <2>1
  <2>. QED  BY <2>1, <2>2 DEF WireTypes
<1>7. /\ Mishap(c, lost) => mishaps < MaxMishaps
      /\ mishaps' = IF Mishap(c, lost) THEN mishaps + 1 ELSE mishaps
  BY DEF Received
<1>8. /\ mishaps' \in 0 .. MaxMishaps /\ mishaps' >= mishaps
      /\ mishaps' = mishaps => ~Mishap(c, lost)
  BY <1>1, <1>7
<1>9. ~Mishap(c, lost) => lost = 0 /\ \A b \in 1 .. c - 1 : net[b] = <<>>
  BY <1>1 DEF Mishap
<1>. QED  BY <1>1, <1>2, <1>3, <1>5, <1>6, <1>8, <1>9

----------------------------------------------------------------------------
(* recv_callback keeps the types.                                          *)

LEMMA BytesFacts ==
    ASSUME NEW units \in Seq(Units)
    PROVE  /\ Bytes(units) \in Seq(Nat) /\ Len(Bytes(units)) = Len(units)
           /\ \A i \in 1 .. Len(units) : Bytes(units)[i] = units[i].n
<1>1. \A i \in 1 .. Len(units) : units[i] \in Units
  OBVIOUS
<1>2. \A i \in 1 .. Len(units) : units[i].n \in Nat
  BY <1>1 DEF Units
<1>. QED  BY <1>2 DEF Bytes

LEMMA CopiedFacts ==
    ASSUME WireTypes, NEW c \in Conns, NEW ch \in Channels, NEW k \in 1 .. Len(net[c])
    PROVE  /\ Copied(c, k, ch) \in Seq(Nat)
           /\ Payload(c).op = "RAW" =>
                  /\ Len(Copied(c, k, ch)) = k
                  /\ \A i \in 1 .. k : Copied(c, k, ch)[i] = net[c][i].n
           /\ Payload(c).op # "RAW" /\ ~rip[ch] =>
                  /\ Len(Copied(c, k, ch)) = k - 1
                  /\ \A i \in 1 .. k - 1 : Copied(c, k, ch)[i] = net[c][i + 1].n
<1> DEFINE first == SubSeq(net[c], 1, k)
           bytes == Bytes(first)
           header == [i \in 1 .. CmdBytes |-> Junk]
<1>1. net[c] \in Seq(Units) /\ Len(net[c]) \in Nat /\ k \in Nat /\ k >= 1
  BY DEF WireTypes
<1>2. first \in Seq(Units) /\ Len(first) = k /\ \A i \in 1 .. k : first[i] = net[c][i]
  <2>1. \A i \in 1 .. k : net[c][i] \in Units
    BY <1>1
  <2>2. \A i \in 1 .. k - 1 + 1 : first[i] = net[c][1 + i - 1]
    BY <1>1, <2>1, SubSeqProperties
  <2>3. first \in Seq(Units) /\ Len(first) = k
    BY <1>1, <2>1, SubSeqProperties
  <2>. QED  BY <1>1, <2>2, <2>3
<1> HIDE DEF first
<1>3. bytes \in Seq(Nat) /\ Len(bytes) = k /\ \A i \in 1 .. k : bytes[i] = net[c][i].n
  BY <1>2, BytesFacts
<1> HIDE DEF bytes
<1>4. /\ Tail(bytes) \in Seq(Nat) /\ Len(Tail(bytes)) = k - 1
      /\ \A i \in 1 .. k - 1 : Tail(bytes)[i] = net[c][i + 1].n
  <2>1. bytes # <<>>
    BY <1>1, <1>3
  <2>2. /\ Tail(bytes) \in Seq(Nat) /\ Len(Tail(bytes)) = Len(bytes) - 1
        /\ \A i \in 1 .. Len(Tail(bytes)) : Tail(bytes)[i] = bytes[i + 1]
    BY <1>3, <2>1, HeadTailProperties
  <2>3. \A i \in 1 .. k - 1 : i + 1 \in 1 .. k
    BY <1>1
  <2>. QED  BY <1>3, <2>2, <2>3
<1>5. header \in Seq(Nat)
  BY BufferFacts DEF Junk
<1> HIDE DEF header
<1>6. header \o Tail(bytes) \in Seq(Nat)
  BY <1>4, <1>5, ConcatProperties
<1>7. Copied(c, k, ch) = IF Payload(c).op = "RAW" THEN bytes
                         ELSE IF rip[ch] THEN header \o Tail(bytes) ELSE Tail(bytes)
  BY DEF Copied, bytes, first, header
<1>. QED  BY <1>3, <1>4, <1>6, <1>7

\* What recv_callback does to an upload, with the parts of it named.
SetEffect(c, k, ch, gone, array, total, done) ==
    /\ gone \in BOOLEAN
    /\ total = received + Len(Copied(c, k, ch))
    /\ array = Placed(IF gone THEN NoBytes ELSE stack[ch], Copied(c, k, ch))
    /\ done = Complete(total, ch)
    /\ stack' = [stack EXCEPT ![ch] = IF done THEN NoBytes ELSE array]
    /\ torn' = [torn EXCEPT ![ch] = rip[ch] /\ (gone \/ @)]
    /\ rip' = [rip EXCEPT ![ch] = ~done]
    /\ received' = IF done THEN 0 ELSE total
    /\ dataset' = IF done /\ size[ch] \in 1 .. MaxData
                  THEN [dataset EXCEPT ![ch] = SubSeq(array, 1, size[ch] * WordBytes)]
                  ELSE dataset

LEMMA SetEffectOf ==
    ASSUME NEW c, NEW k, NEW lost, NEW ch, SetTxData(c, k, lost, ch)
    PROVE  \E gone, array, total, done : SetEffect(c, k, ch, gone, array, total, done)
<1>1. PICK gone \in BOOLEAN :
         LET new == Copied(c, k, ch)
             total == received + Len(new)
             array == Placed(IF gone THEN NoBytes ELSE stack[ch], new)
             done == Complete(total, ch)
         IN  /\ stack' = [stack EXCEPT ![ch] = IF done THEN NoBytes ELSE array]
             /\ torn' = [torn EXCEPT ![ch] = rip[ch] /\ (gone \/ @)]
             /\ rip' = [rip EXCEPT ![ch] = ~done]
             /\ received' = IF done THEN 0 ELSE total
             /\ dataset' = IF done /\ size[ch] \in 1 .. MaxData
                           THEN [dataset EXCEPT ![ch] = SubSeq(array, 1, size[ch] * WordBytes)]
                           ELSE dataset
  BY DEF SetTxData
<1> DEFINE total == received + Len(Copied(c, k, ch))
           array == Placed(IF gone THEN NoBytes ELSE stack[ch], Copied(c, k, ch))
           done == Complete(total, ch)
<1>2. SetEffect(c, k, ch, gone, array, total, done)
  BY <1>1 DEF SetEffect
<1>. QED  BY <1>2

LEMMA PlacedFacts ==
    ASSUME NEW old \in [1 .. BufBytes -> Nat], NEW new \in Seq(Nat), received \in Nat
    PROVE  /\ Placed(old, new) \in [1 .. BufBytes -> Nat]
           /\ \A i \in 1 .. BufBytes :
                  /\ i \in 1 .. received => Placed(old, new)[i] = old[i]
                  /\ i \in received + 1 .. received + Len(new) =>
                         Placed(old, new)[i] = new[i - received]
<1>1. Len(new) \in Nat /\ BufBytes \in Nat /\ received \in Nat
  BY BufferFacts
<1>2. \A i \in received + 1 .. received + Len(new) : i - received \in 1 .. Len(new)
  BY <1>1
<1>3. \A i \in received + 1 .. received + Len(new) : new[i - received] \in Nat
  BY <1>1, <1>2
<1>4. Placed(old, new) \in [1 .. BufBytes -> Nat]
  BY <1>3 DEF Placed
<1>5. \A i \in 1 .. received : i \notin received + 1 .. received + Len(new)
  BY <1>1
<1>. QED  BY <1>4, <1>5 DEF Placed

LEMMA SetTxDataTypes ==
    ASSUME WireTypes, ServerTypes, NEW c \in Conns, NEW k, NEW lost, NEW ch \in Channels,
           SetTxData(c, k, lost, ch)
    PROVE  ServerTypes'
<1>1. k \in 1 .. Len(net[c]) /\ UNCHANGED <<size, radio>>
  BY DEF SetTxData, Received
<1>2. PICK gone, array, total, done : SetEffect(c, k, ch, gone, array, total, done)
  BY SetEffectOf
<1>3. Copied(c, k, ch) \in Seq(Nat)
  BY <1>1, CopiedFacts
<1>4. (IF gone THEN NoBytes ELSE stack[ch]) \in [1 .. BufBytes -> Nat] /\ NoBytes \in [1 .. BufBytes -> Nat]
  BY DEF ServerTypes, NoBytes, Junk
<1>5. array \in [1 .. BufBytes -> Nat]
  BY <1>2, <1>3, <1>4, PlacedFacts DEF SetEffect, ServerTypes
<1>6. total \in Nat
  BY <1>2, <1>3 DEF SetEffect, ServerTypes
<1>7. done \in BOOLEAN
  <2>1. done = (total >= size[ch] * WordBytes)
    BY <1>2 DEF SetEffect, Complete
  <2>. QED  BY <2>1
<1>8. received' \in Nat
  BY <1>2, <1>6 DEF SetEffect
<1>9. stack' \in [Channels -> [1 .. BufBytes -> Nat]]
  BY <1>2, <1>4, <1>5 DEF SetEffect, ServerTypes
<1>10. torn' \in [Channels -> BOOLEAN] /\ rip' \in [Channels -> BOOLEAN]
  BY <1>2 DEF SetEffect, ServerTypes
<1>11. dataset' \in [Channels -> Seq(Nat)]
  <2>1. CASE done /\ size[ch] \in 1 .. MaxData
    <3>1. size[ch] * WordBytes \in Nat /\ size[ch] * WordBytes <= BufBytes
      <4>1. size[ch] \in Nat /\ MaxData \in Nat /\ WordBytes \in Nat /\ size[ch] <= MaxData
        BY <2>1, BufferFacts
      <4>2. size[ch] * WordBytes <= MaxData * WordBytes /\ size[ch] * WordBytes \in Nat
        BY <4>1
      <4>3. MaxData * WordBytes \in Nat /\ MaxData * WordBytes <= BufBytes /\ BufBytes \in Nat
        BY <4>1, BufferFacts
      <4>. QED  BY <4>2, <4>3
    <3> DEFINE upto == size[ch] * WordBytes
    <3> HIDE DEF upto
    <3>2. upto \in Nat /\ upto <= BufBytes /\ BufBytes \in Nat
      BY <3>1, BufferFacts DEF upto
    <3>3. \A i \in 1 .. upto : array[i] \in Nat
      BY <1>5, <3>2
    <3>4. SubSeq(array, 1, upto) \in Seq(Nat)
      BY <3>2, <3>3, SubSeqProperties
    <3>5. dataset' = [dataset EXCEPT ![ch] = SubSeq(array, 1, upto)]
      BY <1>2, <2>1 DEF SetEffect, upto
    <3>. QED  BY <3>4, <3>5 DEF ServerTypes
  <2>2. CASE ~(done /\ size[ch] \in 1 .. MaxData)
    BY <1>2, <2>2 DEF SetEffect, ServerTypes
  <2>. QED  BY <2>1, <2>2
<1>. QED  BY <1>1, <1>8, <1>9, <1>10, <1>11 DEF ServerTypes

LEMMA ReadingsFacts ==
    ASSUME NEW key \in Settings, NEW n \in Nat
    PROVE  Readings(key, n) \subseteq Nat
<1>1. Effect(key, n) \in Nat
  BY DEF Effect
<1>2. \A d \in Digits : d \in Nat
  BY BoundAssumption
<1>3. \A d \in Digits : 10 * n + d \in Nat
  BY <1>2
<1>. QED  BY <1>1, <1>3 DEF Readings

LEMMA HandleTypes ==
    ASSUME WireTypes, ServerTypes, NEW c \in Conns, NEW k, NEW lost, Handle(c, k, lost)
    PROVE  /\ Received(c, k, lost) /\ WriteTypes(c) /\ ServerTypes'
           /\ bytesTotal' \in Int /\ bytesSent' \in Int
<1> USE DEF NoReply
<1>1. CASE TestConn(c, k, lost)
  BY <1>1, WriteTextFacts DEF TestConn, ServerTypes, upload
<1>2. CASE GetTdData(c, k, lost)
  <2>1. Received(c, k, lost) /\ StartReply(c, Payload(c).n) /\ UNCHANGED <<upload, radio>>
    BY <1>2 DEF GetTdData
  <2>2. Payload(c).n \in Nat
    BY <2>1, ReceivedFacts DEF Units
  <2>. QED  BY <2>1, <2>2, StartReplyFacts DEF ServerTypes, upload
<1>3. CASE GetFdData(c, k, lost)
  <2>1. /\ Received(c, k, lost) /\ UNCHANGED <<upload, radio>>
        /\ StartReply(c, Payload(c).n) \/ (WriteText(c) /\ NoReply)
    BY <1>3 DEF GetFdData
  <2>2. Payload(c).n \in Nat
    BY <2>1, ReceivedFacts DEF Units
  <2>. QED  BY <2>1, <2>2, StartReplyFacts, WriteTextFacts DEF ServerTypes, upload
<1>4. CASE SetDataSize(c, k, lost)
  <2>1. Received(c, k, lost)
    BY <1>4 DEF SetDataSize
  <2>2. Payload(c).n \in Nat /\ Payload(c).ch \in Channels
    BY <2>1, ReceivedFacts DEF Units
  <2>. QED  BY <1>4, <2>1, <2>2, NotWritten DEF SetDataSize, ServerTypes
<1>5. ASSUME NEW ch \in Channels, SetTxData(c, k, lost, ch)
      PROVE  /\ Received(c, k, lost) /\ WriteTypes(c) /\ ServerTypes'
             /\ bytesTotal' \in Int /\ bytesSent' \in Int
  <2>1. Received(c, k, lost) /\ UNCHANGED <<out, unacked>> /\ bytesTotal' = 0 /\ bytesSent' = 0
    BY <1>5 DEF SetTxData
  <2>. QED  BY <1>5, <2>1, NotWritten, SetTxDataTypes
<1>6. CASE Set(c, k, lost)
  <2>1. /\ Received(c, k, lost) /\ UNCHANGED upload /\ bytesTotal' = 0 /\ bytesSent' = 0
        /\ WriteText(c) \/ UNCHANGED <<out, unacked>>
    BY <1>6 DEF Set
  <2>2. Payload(c).n \in Nat /\ Payload(c).key \in Settings
    BY <2>1, ReceivedFacts DEF Units
  <2>3. PICK value \in Readings(Payload(c).key, Payload(c).n) :
            radio' = [radio EXCEPT ![Payload(c).key] = value]
    BY <1>6 DEF Set
  <2>4. value \in Nat
    BY <2>2, <2>3, ReadingsFacts
  <2>5. radio' \in [Settings -> Nat]
    BY <2>3, <2>4 DEF ServerTypes
  <2>. QED  BY <2>1, <2>5, WriteTextFacts, NotWritten DEF ServerTypes, upload
<1>7. CASE GetOrUnknown(c, k, lost)
  BY <1>7, WriteTextFacts DEF GetOrUnknown, ServerTypes, upload
<1>. QED  BY <1>1, <1>2, <1>3, <1>4, <1>5, <1>6, <1>7 DEF Handle

----------------------------------------------------------------------------
(* WireInv is inductive.                                                   *)

\* Another connection: its reply is not touched, or it is spoiled.
LEMMA OthersReply ==
    ASSUME WireInv, NEW b \in Conns, NEW c \in Conns, b # c,
           conn'[b] = conn[b], net'[b] = net[b], out'[b] = out[b], unacked'[b] = unacked[b],
           \/ UNCHANGED <<bytesTotal, bytesSent>> /\ (b \in spoiled' <=> b \in spoiled)
           \/ Spoil(c)
    PROVE  Fresh(b)' /\ Reply(b)'
<1>1. Fresh(b)'
  BY DEF WireInv, Fresh
<1>2. ASSUME Captures(b), conn[b] = "open", b \notin spoiled'
      PROVE  /\ InOrder(b)'
             /\ \/ net[b] = Scripts[b] /\ out[b] = <<>> /\ unacked[b] = 0
                \/ /\ net[b] = <<>>
                   /\ ~Satisfied(b) => bytesTotal' = Expected(b) /\ bytesSent' = Len(out[b])
  <2>1. b \notin spoiled
    BY <1>2 DEF Spoil
  <2>2. /\ InOrder(b)
        /\ \/ net[b] = Scripts[b] /\ out[b] = <<>> /\ unacked[b] = 0
           \/ /\ net[b] = <<>>
              /\ ~Satisfied(b) => bytesTotal = Expected(b) /\ bytesSent = Len(out[b])
    BY <1>2, <2>1 DEF WireInv, Reply
  <2>3. InOrder(b)'
    BY <2>2 DEF InOrder, Expected
  <2>4. ASSUME Spoil(c), net[b] = <<>>, ~Satisfied(b)
        PROVE  FALSE
    <3>1. b \in Waiting
      BY <1>2, <2>4 DEF Waiting
    <3>. QED  BY <1>2, <2>4, <3>1 DEF Spoil
  <2>. QED  BY <2>2, <2>3, <2>4
<1>3. Reply(b)'
  BY <1>2 DEF Reply, Captures, Satisfied, Expected
<1>. QED  BY <1>1, <1>3

LEMMA AcceptWire ==
    ASSUME WireInv, NEW c \in Conns, Accept(c)
    PROVE  WireInv'
<1>1. /\ conn[c] = "new" /\ conn' = [conn EXCEPT ![c] = "open"]
      /\ net' = [net EXCEPT ![c] = Scripts[c]] /\ Scripts[c] \in Seq(Units)
      /\ UNCHANGED <<out, unacked, window, server, mishaps, spoiled>>
  BY ScriptFacts DEF Accept
<1>2. WireTypes' /\ ServerTypes'
  BY <1>1 DEF WireInv, WireTypes, ServerTypes, server
<1>3. ASSUME NEW b \in Conns PROVE Fresh(b)' /\ Reply(b)'
  <2>1. CASE b = c
    <3>1. out'[c] = <<>> /\ unacked'[c] = 0 /\ conn'[c] = "open" /\ net'[c] = Scripts[c]
      BY <1>1 DEF WireInv, Fresh, WireTypes
    <3>. QED  BY <2>1, <3>1 DEF Fresh, Reply, InOrder
  <2>2. CASE b # c
    BY <1>1, <2>2, OthersReply DEF WireInv, WireTypes, server
  <2>. QED  BY <2>1, <2>2
<1>. QED  BY <1>2, <1>3 DEF WireInv

LEMMA LeaveWire ==
    ASSUME WireInv, NEW c \in Conns, Leave(c)
    PROVE  WireInv'
<1>1. /\ conn[c] = "open" /\ conn' = [conn EXCEPT ![c] = "fin"]
      /\ out' = [out EXCEPT ![c] = <<>>] /\ spoiled' = spoiled \ {c}
      /\ UNCHANGED <<net, unacked, window, server, mishaps>>
  BY DEF Leave
<1>2. WireTypes' /\ ServerTypes'
  <2>1. <<>> \in Seq(Int)
    OBVIOUS
  <2>. QED  BY <1>1, <2>1 DEF WireInv, WireTypes, ServerTypes, server
<1>3. ASSUME NEW b \in Conns PROVE Fresh(b)' /\ Reply(b)'
  <2>1. CASE b = c
    <3>1. out'[c] = <<>> /\ conn'[c] = "fin"
      BY <1>1 DEF WireInv, WireTypes
    <3>. QED  BY <2>1, <3>1 DEF Fresh, Reply
  <2>2. CASE b # c
    BY <1>1, <2>2, OthersReply DEF WireInv, WireTypes, server
  <2>. QED  BY <2>1, <2>2
<1>. QED  BY <1>2, <1>3 DEF WireInv

LEMMA ResetWire ==
    ASSUME WireInv, NEW c \in Conns, Reset(c)
    PROVE  WireInv'
<1>1. /\ conn' = [conn EXCEPT ![c] = "closed"] /\ net' = [net EXCEPT ![c] = <<>>]
      /\ out' = [out EXCEPT ![c] = <<>>] /\ unacked' = [unacked EXCEPT ![c] = 0]
      /\ window' = [window EXCEPT ![c] = 0] /\ spoiled' = spoiled \ {c}
      /\ UNCHANGED server
      /\ net[c] # <<>> => mishaps < MaxMishaps
      /\ mishaps' = IF net[c] = <<>> THEN mishaps ELSE mishaps + 1
  BY DEF Reset
<1>2. <<>> \in Seq(Int) /\ <<>> \in Seq(Units) /\ 0 \in 0 .. SndBuf
  BY BufferFacts
<1>3. mishaps' \in 0 .. MaxMishaps
  <2>1. mishaps \in 0 .. MaxMishaps /\ MaxMishaps \in Nat
    BY BoundAssumption DEF WireInv, WireTypes
  <2>. QED  BY <1>1, <2>1
<1>4. WireTypes' /\ ServerTypes'
  BY <1>1, <1>2, <1>3 DEF WireInv, WireTypes, ServerTypes, server
<1>5. ASSUME NEW b \in Conns PROVE Fresh(b)' /\ Reply(b)'
  <2>1. CASE b = c
    <3>1. out'[c] = <<>> /\ conn'[c] = "closed"
      BY <1>1 DEF WireInv, WireTypes
    <3>. QED  BY <2>1, <3>1 DEF Fresh, Reply
  <2>2. CASE b # c
    BY <1>1, <2>2, OthersReply DEF WireInv, WireTypes, server
  <2>. QED  BY <2>1, <2>2
<1>. QED  BY <1>4, <1>5 DEF WireInv

LEMMA CutCommandWire ==
    ASSUME WireInv, NEW c \in Conns, CutCommand(c)
    PROVE  WireInv'
<1>1. /\ mishaps < MaxMishaps /\ mishaps' = mishaps + 1 /\ net[c] # <<>>
      /\ spoiled' = IF conn[c] = "open" THEN spoiled \cup {c} ELSE spoiled
      /\ UNCHANGED <<conn, out, unacked, window, server>>
  BY DEF CutCommand
<1>2. PICK u \in {Raw} \cup {[Head(net[c]) EXCEPT !.n = m] : m \in Numbers} :
          net' = [net EXCEPT ![c] = <<u, Raw>> \o Tail(@)]
  BY DEF CutCommand
<1>3. net[c] \in Seq(Units) /\ Head(net[c]) \in Units /\ Tail(net[c]) \in Seq(Units)
  BY <1>1, HeadTailProperties DEF WireInv, WireTypes
<1>4. u \in Units /\ Raw \in Units
  <2>1. Raw \in Units
    BY DEF Raw, Units, Channels, Settings, Junk
  <2>2. ASSUME NEW m \in Numbers PROVE [Head(net[c]) EXCEPT !.n = m] \in Units
    <3>1. m \in Nat
      BY BoundAssumption
    <3>. QED  BY <1>3, <3>1 DEF Units
  <2>. QED  BY <1>2, <2>1, <2>2
<1>5. <<u, Raw>> \o Tail(net[c]) \in Seq(Units)
  <2>1. <<u, Raw>> \in Seq(Units)
    BY <1>4
  <2>. QED  BY <1>3, <2>1, ConcatProperties
<1>6. net' \in [Conns -> Seq(Units)] /\ \A b \in Conns : b # c => net'[b] = net[b]
  BY <1>2, <1>5 DEF WireInv, WireTypes
<1>7. mishaps' \in 0 .. MaxMishaps
  BY <1>1, BoundAssumption DEF WireInv, WireTypes
<1>8. WireTypes' /\ ServerTypes'
  BY <1>1, <1>6, <1>7 DEF WireInv, WireTypes, ServerTypes, server
<1>9. ASSUME NEW b \in Conns PROVE Fresh(b)' /\ Reply(b)'
  <2>1. CASE b = c
    <3>1. conn'[c] # "new"
      BY <1>1 DEF WireInv, Fresh
    <3>2. conn'[c] = "open" => c \in spoiled'
      BY <1>1
    <3>. QED  BY <1>1, <2>1, <3>1, <3>2 DEF Fresh, Reply, WireInv
  <2>2. CASE b # c
    BY <1>1, <1>6, <2>2, OthersReply DEF server
  <2>. QED  BY <2>1, <2>2
<1>. QED  BY <1>8, <1>9 DEF WireInv

\* The reply of the connection whose command is handled.
LEMMA RecvReply ==
    ASSUME WireInv, NEW c \in Conns, NEW k, NEW lost, Handle(c, k, lost)
    PROVE  Reply(c)'
<1>1. Received(c, k, lost) /\ WriteTypes(c)
  BY HandleTypes DEF WireInv
<1>2. /\ k \in 1 .. Len(net[c]) /\ lost \in 0 .. Len(net[c]) - k /\ net[c] \in Seq(Units)
      /\ net[c] # <<>> /\ Payload(c) = net[c][1] /\ Payload(c) \in Units
      /\ conn' = conn /\ Spoil(c)
      /\ net'[c] = SubSeq(net[c], k + lost + 1, Len(net[c]))
  BY <1>1, ReceivedFacts DEF WireInv
<1>3. SUFFICES ASSUME Captures(c), conn[c] = "open", c \notin spoiled'
               PROVE  /\ InOrder(c)' /\ net'[c] = <<>>
                      /\ bytesTotal' = Expected(c) /\ bytesSent' = Len(out'[c])
  BY <1>2 DEF Reply, Captures, Satisfied, Expected
<1>4. net[c] = Scripts[c] /\ out[c] = <<>> /\ unacked[c] = 0
  <2>1. c \notin spoiled
    BY <1>2, <1>3 DEF Spoil
  <2>. QED  BY <1>2, <1>3, <2>1 DEF WireInv, Reply
<1>5. /\ Len(net[c]) = 1 /\ Payload(c) = Scripts[c][1] /\ Payload(c).op \in {"TD", "FD"}
      /\ Payload(c).op = "FD" => Payload(c).n \in FftSizes
      /\ Expected(c) = Payload(c).n * SampleBytes
  BY <1>2, <1>3, <1>4, CaptureFacts
<1>6. net'[c] = <<>>
  <2>1. k = 1 /\ lost = 0
    BY <1>2, <1>5
  <2>. QED  BY <1>2, <1>5, <2>1, SubSeqEmpty
<1>7. StartReply(c, Payload(c).n)
  <2>1. CASE Payload(c).op = "TD"
    <3>1. GetTdData(c, k, lost)
      BY <2>1 DEF Handle, TestConn, GetFdData, SetDataSize, SetTxData, Uploads, Set, GetOrUnknown,
                  Early, Late
    <3>. QED  BY <3>1 DEF GetTdData
  <2>2. CASE Payload(c).op = "FD"
    <3>1. GetFdData(c, k, lost)
      BY <2>2 DEF Handle, TestConn, GetTdData, SetDataSize, SetTxData, Uploads, Set, GetOrUnknown,
                  Early, Late
    <3>. QED  BY <1>5, <2>2, <3>1 DEF GetFdData
  <2>. QED  BY <1>5, <2>1, <2>2
<1>8. Payload(c).n \in Nat
  BY <1>2 DEF Units
<1>9. /\ bytesTotal' = Expected(c) /\ bytesSent' = Len(out'[c])
      /\ \A i \in 1 .. Len(out'[c]) : out'[c][i] = i - 1
  BY <1>3, <1>4, <1>5, <1>7, <1>8, StartReplyFacts DEF WireInv
<1>. QED  BY <1>6, <1>9 DEF InOrder, Expected

LEMMA RecvWire ==
    ASSUME WireInv, NEW c \in Conns, NEW k, NEW lost, Handle(c, k, lost)
    PROVE  WireInv'
<1>1. /\ Received(c, k, lost) /\ WriteTypes(c) /\ ServerTypes'
      /\ bytesTotal' \in Int /\ bytesSent' \in Int
  BY HandleTypes DEF WireInv
<1>2. /\ conn' = conn /\ Spoil(c) /\ net[c] # <<>>
      /\ net' \in [Conns -> Seq(Units)] /\ window' \in [Conns -> Nat]
      /\ \A b \in Conns : b # c => net'[b] = net[b]
      /\ mishaps' \in 0 .. MaxMishaps
  BY <1>1, ReceivedFacts DEF WireInv
<1>3. WireTypes'
  <2>1. spoiled' \in SUBSET Conns
    BY <1>2 DEF Spoil, Waiting, WireInv, WireTypes
  <2>. QED  BY <1>1, <1>2, <2>1 DEF WireInv, WireTypes, WriteTypes
<1>4. ASSUME NEW b \in Conns PROVE Fresh(b)' /\ Reply(b)'
  <2>1. CASE b = c
    <3>1. Fresh(c)'
      BY <1>1, <1>2 DEF WireInv, Fresh, WriteTypes
    <3>. QED  BY <2>1, <3>1, RecvReply
  <2>2. CASE b # c
    BY <1>1, <1>2, <2>2, OthersReply DEF WriteTypes
  <2>. QED  BY <2>1, <2>2
<1>. QED  BY <1>1, <1>3, <1>4 DEF WireInv

LEMMA CloseWire ==
    ASSUME WireInv, NEW c \in Conns, Close(c)
    PROVE  WireInv'
<1>1. /\ conn[c] = "fin" /\ bytesSent' = 0 /\ bytesTotal' = 0 /\ Spoil(c)
      /\ window' = [window EXCEPT ![c] = 0]
      /\ UNCHANGED <<net, out, upload, radio, mishaps>>
      /\ \/ conn' = [conn EXCEPT ![c] = "closed"] /\ unacked' = [unacked EXCEPT ![c] = 0]
         \/ conn' = [conn EXCEPT ![c] = "closing"] /\ unacked' = unacked
  BY DEF Close, NoReply
<1>2. /\ conn' \in [Conns -> {"new", "open", "fin", "closing", "closed"}]
      /\ unacked' \in [Conns -> 0 .. SndBuf] /\ conn'[c] \in {"closing", "closed"}
      /\ \A b \in Conns : b # c => conn'[b] = conn[b] /\ unacked'[b] = unacked[b]
  <2>1. 0 \in 0 .. SndBuf
    BY BufferFacts
  <2>. QED  BY <1>1, <2>1 DEF WireInv, WireTypes
<1>3. WireTypes' /\ ServerTypes'
  <2>1. spoiled' \in SUBSET Conns
    BY <1>1 DEF Spoil, Waiting, WireInv, WireTypes
  <2>. QED  BY <1>1, <1>2, <2>1 DEF WireInv, WireTypes, ServerTypes, upload
<1>4. ASSUME NEW b \in Conns PROVE Fresh(b)' /\ Reply(b)'
  <2>1. CASE b = c
    BY <1>1, <1>2, <2>1 DEF WireInv, Fresh, Reply
  <2>2. CASE b # c
    BY <1>1, <1>2, <2>2, OthersReply
  <2>. QED  BY <2>1, <2>2
<1>. QED  BY <1>3, <1>4 DEF WireInv

\* A send callback, with the parts of it named.
SendEffect(c, n, room, rest, len, bytes) ==
    /\ room = Room(c) + n /\ rest = bytesTotal - bytesSent /\ len = Piece(rest, room)
    /\ bytes = IF rest # 0 /\ conn[c] # "closing" /\ len % U16 <= room
               THEN RxBuffer(Offset(len), len % U16) ELSE <<>>
    /\ bytesSent' = IF rest = 0 THEN bytesSent ELSE bytesSent + len
    /\ Accepted(c, n, bytes)
    /\ rest = 0 => spoiled' = spoiled
    /\ rest # 0 => Spoil(c)

LEMMA SendEffectOf ==
    ASSUME NEW c, NEW n, SendCallback(c, n)
    PROVE  /\ \E room, rest, len, bytes : SendEffect(c, n, room, rest, len, bytes)
           /\ conn[c] \in {"open", "fin", "closing"} /\ n \in 1 .. unacked[c]
           /\ conn' = IF conn[c] = "closing" /\ n = unacked[c]
                      THEN [conn EXCEPT ![c] = "closed"] ELSE conn
           /\ UNCHANGED <<net, window, bytesTotal, upload, radio, mishaps>>
<1> DEFINE room == Room(c) + n
           rest == bytesTotal - bytesSent
           len == Piece(rest, room)
           bytes == IF rest # 0 /\ conn[c] # "closing" /\ len % U16 <= room
                    THEN RxBuffer(Offset(len), len % U16) ELSE <<>>
<1>1. SendEffect(c, n, room, rest, len, bytes)
  <2>1. Accepted(c, n, bytes)
    BY DEF SendCallback
  <2>2. bytesSent' = IF rest = 0 THEN bytesSent ELSE bytesSent + len
    BY DEF SendCallback
  <2>3. (rest = 0 => spoiled' = spoiled) /\ (rest # 0 => Spoil(c))
    BY DEF SendCallback
  <2>. QED  BY <2>1, <2>2, <2>3 DEF SendEffect
<1>2. \E room_1, rest_1, len_1, bytes_1 : SendEffect(c, n, room_1, rest_1, len_1, bytes_1)
  BY <1>1
<1> HIDE DEF room, rest, len, bytes
<1>. QED  BY <1>2 DEF SendCallback

LEMMA SendWire ==
    ASSUME WireInv, NEW c \in Conns, NEW n, SendCallback(c, n)
    PROVE  WireInv'
<1>1. PICK room, rest, len, bytes : SendEffect(c, n, room, rest, len, bytes)
  BY SendEffectOf
<1>2. /\ conn[c] \in {"open", "fin", "closing"} /\ n \in 1 .. unacked[c]
      /\ conn' = IF conn[c] = "closing" /\ n = unacked[c]
                 THEN [conn EXCEPT ![c] = "closed"] ELSE conn
      /\ UNCHANGED <<net, window, bytesTotal, upload, radio, mishaps>>
  BY SendEffectOf
<1>3. /\ unacked[c] \in 0 .. SndBuf /\ SndBuf \in Nat /\ n \in Nat /\ n >= 1 /\ n <= unacked[c]
      /\ bytesTotal \in Int /\ bytesSent \in Int
      /\ conn \in [Conns -> {"new", "open", "fin", "closing", "closed"}]
      /\ out[c] \in Seq(Int) /\ Len(out[c]) \in Nat
  BY <1>2, BufferFacts DEF WireInv, WireTypes
<1>4. /\ room = SndBuf - unacked[c] + n /\ room \in 0 .. SndBuf
      /\ rest = bytesTotal - bytesSent /\ rest \in Int
  BY <1>1, <1>3 DEF SendEffect, Room
<1>5. /\ len \in Int /\ len % U16 \in Nat
      /\ rest > room => len \in 0 .. room /\ len % U16 = len
      /\ rest <= room => len = rest
      /\ rest <= room /\ rest > 0 => len % U16 = len
  <2>1. len = IF rest > room THEN RoundDown(room) ELSE rest
    BY <1>1 DEF SendEffect, Piece
  <2>2. RoundDown(room) \in 0 .. room
    BY <1>4, RoundFacts
  <2>3. len \in Int
    BY <1>4, <2>1, <2>2
  <2>4. rest > room => len \in 0 .. SndBuf
    BY <1>3, <1>4, <2>1, <2>2
  <2>5. rest <= room /\ rest > 0 => len \in 0 .. SndBuf
    BY <1>3, <1>4, <2>1
  <2>. QED  BY <1>4, <2>1, <2>2, <2>3, <2>4, <2>5, CutFacts
<1>6. bytes \in Seq(Int) /\ Len(bytes) <= room
  <2>1. /\ RxBuffer(bytesSent, len % U16) \in Seq(Int) /\ Len(RxBuffer(bytesSent, len % U16)) = len % U16
    BY <1>3, <1>5, RxBufferFacts
  <2>2. <<>> \in Seq(Int) /\ Len(<<>>) = 0
    OBVIOUS
  <2>. QED  BY <1>1, <1>4, <2>1, <2>2 DEF SendEffect, Offset
<1>7. WriteTypes(c) /\ (conn[c] = "open" => out'[c] = out[c] \o bytes)
  <2>1. Accepted(c, n, bytes) /\ n \in 0 .. unacked[c] /\ Len(bytes) <= SndBuf - unacked[c] + n
    BY <1>1, <1>3, <1>4, <1>6 DEF SendEffect
  <2>. QED  BY <1>6, <2>1, AcceptedFacts DEF WireInv
<1>8. WireTypes' /\ ServerTypes'
  <2>1. bytesSent' \in Int
    BY <1>1, <1>3, <1>5 DEF SendEffect
  <2>2. spoiled' \in SUBSET Conns
    BY <1>1 DEF SendEffect, Spoil, Waiting, WireInv, WireTypes
  <2>3. conn' \in [Conns -> {"new", "open", "fin", "closing", "closed"}]
    BY <1>2, <1>3
  <2>. QED  BY <1>2, <1>7, <2>1, <2>2, <2>3 DEF WireInv, WireTypes, ServerTypes, upload, WriteTypes
<1>9. Fresh(c)'
  BY <1>2, <1>3, <1>7 DEF WireInv, Fresh, WriteTypes
<1>10. Reply(c)'
  <2>1. SUFFICES ASSUME Captures(c), conn[c] = "open", c \notin spoiled'
                 PROVE  /\ InOrder(c)' /\ net[c] = <<>>
                        /\ Satisfied(c)' \/ (bytesTotal = Expected(c) /\ bytesSent' = Len(out'[c]))
    BY <1>2 DEF Reply, Captures, Satisfied, Expected
  <2>2. c \notin spoiled
    BY <1>1, <2>1 DEF SendEffect, Spoil
  <2>3. /\ InOrder(c) /\ net[c] = <<>>
        /\ ~Satisfied(c) => bytesTotal = Expected(c) /\ bytesSent = Len(out[c])
    BY <1>3, <2>1, <2>2 DEF WireInv, Reply
  <2>4. out'[c] = out[c] \o bytes /\ Expected(c) \in Nat
    BY <1>7, <2>1, ExpectedFacts
  <2>5. /\ Len(out'[c]) = Len(out[c]) + Len(bytes) /\ Len(bytes) \in Nat
        /\ \A i \in 1 .. Len(out[c]) : out'[c][i] = out[c][i]
        /\ \A i \in 1 .. Len(bytes) : out'[c][Len(out[c]) + i] = bytes[i]
    <3> DEFINE all == out[c] \o bytes
    <3>1. Len(bytes) \in Nat
      BY <1>6
    <3>2. /\ Len(all) = Len(out[c]) + Len(bytes)
          /\ \A i \in 1 .. Len(out[c]) + Len(bytes) :
                 all[i] = IF i <= Len(out[c]) THEN out[c][i] ELSE bytes[i - Len(out[c])]
      BY <1>3, <1>6, ConcatProperties
    <3> HIDE DEF all
    <3>3. out'[c] = all
      BY <2>4 DEF all
    <3>4. ASSUME NEW i \in 1 .. Len(out[c]) PROVE all[i] = out[c][i]
      <4>1. i \in 1 .. Len(out[c]) + Len(bytes) /\ i <= Len(out[c])
        BY <1>3, <3>1
      <4>. QED  BY <3>2, <4>1
    <3>5. ASSUME NEW i \in 1 .. Len(bytes) PROVE all[Len(out[c]) + i] = bytes[i]
      <4>1. PICK j \in 1 .. Len(out[c]) + Len(bytes) : j = Len(out[c]) + i
        BY <1>3, <3>1
      <4>2. all[j] = IF j <= Len(out[c]) THEN out[c][j] ELSE bytes[j - Len(out[c])]
        BY <3>2
      <4>3. ~(j <= Len(out[c])) /\ j - Len(out[c]) = i
        BY <1>3, <3>1, <4>1
      <4>4. all[j] = bytes[i]
        BY <4>2, <4>3
      <4>. QED  BY <4>1, <4>4
    <3>. QED  BY <3>1, <3>2, <3>3, <3>4, <3>5
  <2>6. CASE Satisfied(c)
    <3>1. Len(out'[c]) >= Expected(c)
      BY <1>3, <2>4, <2>5, <2>6 DEF Satisfied
    <3>2. \A i \in 1 .. Len(out'[c]) : i <= Expected(c) => i \in 1 .. Len(out[c])
      BY <1>3, <2>4, <2>6 DEF Satisfied
    <3>3. InOrder(c)'
      BY <2>3, <2>5, <3>2 DEF InOrder, Expected
    <3>. QED  BY <2>3, <3>1, <3>3 DEF Satisfied, Expected
  <2>7. CASE ~Satisfied(c)
    <3>1. bytesTotal = Expected(c) /\ bytesSent = Len(out[c]) /\ rest > 0
      BY <1>3, <1>4, <2>3, <2>4, <2>7 DEF Satisfied
    <3>2. len \in Nat /\ len % U16 = len /\ len <= room
      BY <1>4, <1>5, <3>1
    <3>3. bytes = RxBuffer(bytesSent, len) /\ bytesSent' = bytesSent + len
      BY <1>1, <2>1, <3>1, <3>2 DEF SendEffect, Offset
    <3>4. Len(bytes) = len /\ \A i \in 1 .. len : bytes[i] = bytesSent + i - 1
      BY <1>3, <3>2, <3>3, RxBufferFacts
    <3>5. bytesSent' = Len(out'[c])
      BY <1>3, <2>5, <3>1, <3>3, <3>4
    <3>6. ASSUME NEW i \in 1 .. Len(out'[c]), i <= Expected(c)
          PROVE  out'[c][i] = i - 1
      <4>1. CASE i \in 1 .. Len(out[c])
        BY <2>3, <2>5, <3>6, <4>1 DEF InOrder
      <4>2. CASE i \notin 1 .. Len(out[c])
        <5>1. i - Len(out[c]) \in 1 .. len /\ i = Len(out[c]) + (i - Len(out[c]))
          BY <1>3, <2>5, <3>4, <3>6, <4>2
        <5>2. out'[c][i] = bytesSent + (i - Len(out[c])) - 1
          BY <2>5, <3>4, <5>1
        <5>. QED  BY <1>3, <3>1, <5>2
      <4>. QED  BY <4>1, <4>2
    <3>. QED  BY <2>3, <3>1, <3>5, <3>6 DEF InOrder, Expected
  <2>. QED  BY <2>6, <2>7
<1>11. ASSUME NEW b \in Conns, b # c PROVE Fresh(b)' /\ Reply(b)'
  <2>1. /\ conn'[b] = conn[b] /\ net'[b] = net[b] /\ out'[b] = out[b] /\ unacked'[b] = unacked[b]
    BY <1>2, <1>3, <1>7, <1>11 DEF WriteTypes
  <2>2. (UNCHANGED <<bytesTotal, bytesSent>> /\ spoiled' = spoiled) \/ Spoil(c)
    BY <1>1, <1>2 DEF SendEffect
  <2>. QED  BY <1>11, <2>1, <2>2, OthersReply
<1>. QED  BY <1>8, <1>9, <1>10, <1>11 DEF WireInv

LEMMA InitWire == Init => WireInv
<1> SUFFICES ASSUME Init PROVE WireInv
  OBVIOUS
<1>1. <<>> \in Seq(Int) /\ <<>> \in Seq(Units) /\ <<>> \in Seq(Nat) /\ 0 \in 0 .. SndBuf
  BY BufferFacts
<1>2. WireTypes
  BY <1>1, BoundAssumption DEF Init, WireTypes
<1>3. ServerTypes
  BY <1>1, BufferFacts DEF Init, ServerTypes, NoBytes, Junk
<1>4. \A c \in Conns : Fresh(c) /\ Reply(c)
  BY DEF Init, Fresh, Reply
<1>. QED  BY <1>2, <1>3, <1>4 DEF WireInv

LEMMA NextWire == WireInv /\ [Next]_vars => WireInv'
<1> SUFFICES ASSUME WireInv, [Next]_vars PROVE WireInv'
  OBVIOUS
<1>1. ASSUME NEW c \in Conns, Accept(c) PROVE WireInv'
  BY <1>1, AcceptWire
<1>2. ASSUME NEW c \in Conns, ClientClose(c) \/ ClientGiveUp(c) PROVE WireInv'
  BY <1>2, LeaveWire DEF ClientClose, ClientGiveUp
<1>3. ASSUME NEW c \in Conns, Reset(c) PROVE WireInv'
  BY <1>3, ResetWire
<1>4. ASSUME NEW c \in Conns, CutCommand(c) PROVE WireInv'
  BY <1>4, CutCommandWire
<1>5. ASSUME NEW c \in Conns, RecvCallback(c) PROVE WireInv'
  BY <1>5, RecvWire DEF RecvCallback
<1>6. ASSUME NEW c \in Conns, Close(c) PROVE WireInv'
  BY <1>6, CloseWire
<1>7. ASSUME NEW c \in Conns, NEW n \in 1 .. SndBuf, SendCallback(c, n) PROVE WireInv'
  BY <1>7, SendWire
<1>8. CASE UNCHANGED vars
  <2>1. WireTypes' /\ ServerTypes'
    BY <1>8 DEF vars, server, WireInv, WireTypes, ServerTypes
  <2>2. \A c \in Conns : Fresh(c)' /\ Reply(c)'
    BY <1>8 DEF vars, server, WireInv, Fresh, Reply, InOrder, Captures, Satisfied, Expected
  <2>. QED  BY <2>1, <2>2 DEF WireInv
<1>. QED  BY <1>1, <1>2, <1>3, <1>4, <1>5, <1>6, <1>7, <1>8 DEF Next

\* The server's state keeps its types, and no connection is given more than its
\* send buffer holds, whatever happens to streams, replies and connections
\* (echo.c:68-423).
THEOREM TypesHold == Spec => []TypeOK
<1>1. WireInv => TypeOK
  BY DEF WireInv, WireTypes, ServerTypes, TypeOK
<1>. QED  BY InitWire, NextWire, <1>1, PTL DEF Spec

\* What a client reads, that waits for its reply and is not spoiled, is the
\* receive buffer from its first byte on (echo.c:68-93), also after others have
\* left in the middle of theirs, and whatever is late, cut or lost.
THEOREM RepliesInOrder == Spec => []ReplyInOrder
<1>1. ASSUME WireInv PROVE ReplyInOrder
  <2>1. ASSUME NEW c \in Conns \ spoiled, Captures(c), NEW i \in 1 .. Len(out[c]), i <= Expected(c)
        PROVE  out[c][i] = i - 1
    <3>1. CASE conn[c] = "open"
      BY <1>1, <2>1, <3>1 DEF WireInv, Reply, InOrder
    <3>2. CASE conn[c] # "open"
      <4>1. out[c] = <<>>
        BY <1>1, <2>1, <3>2 DEF WireInv, Fresh
      <4>. QED  BY <2>1, <4>1
    <3>. QED  BY <3>1, <3>2
  <2>. QED  BY <2>1 DEF ReplyInOrder
<1>. QED  BY InitWire, NextWire, <1>1, PTL DEF Spec

----------------------------------------------------------------------------
(* What holds as long as there was no mishap: the streams are handled one  *)
(* after the other, and an upload in progress is the only one.             *)

From(s, t) == SubSeq(s, t + 1, Len(s))

\* How many units of c's stream were handled.
Taken(c) == Len(Scripts[c]) - Len(net[c])

Begun(c) == conn[c] # "new" /\ Taken(c) > 0

Done(c) == conn[c] # "new" /\ net[c] = <<>>

\* Connections come in their order, and no one's stream is begun before those
\* before it are done.
OneByOne ==
    /\ \A c \in Conns : conn[c] # "new" => Len(net[c]) <= Len(Scripts[c])
                                        /\ net[c] = From(Scripts[c], Taken(c))
    /\ \A c \in Conns : \A b \in 1 .. c - 1 :
           /\ conn[c] # "new" => conn[b] # "new"
           /\ Begun(c) => net[b] = <<>>

\* An upload that is begun and not done: its size is set, and what has come of
\* its bytes is in the array, or the array was torn.
Progress(c) ==
    Begun(c) /\ ~Done(c) =>
        LET ch == Scripts[c][1].ch
        IN  /\ size[ch] = Scripts[c][1].n
            /\ Taken(c) >= 2 =>
                  /\ rip[ch] /\ received = Taken(c) - 2
                  /\ torn[ch] \/ \A i \in 1 .. Taken(c) - 2 : stack[ch][i] = Scripts[c][i + 2].n

\* A channel is receiving only while such an upload is there.
Receiving ==
    /\ \A ch \in Channels : rip[ch] => \E c \in Uploaders(ch) : Begun(c) /\ ~Done(c) /\ Taken(c) >= 2
    /\ received # 0 => \E ch \in Channels : rip[ch]

\* The last upload and the last setting that were handled.
Loaded ==
    \A ch \in Channels : \A c \in Uploaders(ch) :
        Done(c) /\ (\A d \in Uploaders(ch) : d > c => ~Begun(d)) =>
            torn[ch] \/ dataset[ch] = Wave(c)

Applied ==
    \A key \in Settings : \A c \in Setters(key) :
        Done(c) /\ (\A d \in Setters(key) : d > c => ~Begun(d)) =>
            radio[key] \in Readings(key, Scripts[c][1].n)

Clean == OneByOne /\ (\A c \in Conns : Progress(c)) /\ Receiving /\ Loaded /\ Applied

CleanInv == mishaps = 0 => Clean

----------------------------------------------------------------------------
(* Lemmas about streams.                                                   *)

LEMMA FromFacts ==
    ASSUME NEW s \in Seq(Units), NEW t \in 0 .. Len(s)
    PROVE  /\ From(s, t) \in Seq(Units) /\ Len(From(s, t)) = Len(s) - t
           /\ \A i \in 1 .. Len(s) - t : From(s, t)[i] = s[t + i]
<1>1. Len(s) \in Nat /\ t + 1 \in 1 .. Len(s) + 1 /\ Len(s) - (t + 1) + 1 = Len(s) - t
  OBVIOUS
<1>2. \A i \in t + 1 .. Len(s) : s[i] \in Units
  BY <1>1
<1>3. /\ From(s, t) \in Seq(Units) /\ Len(From(s, t)) = Len(s) - t
  <2>1. /\ SubSeq(s, t + 1, Len(s)) \in Seq(Units)
        /\ Len(SubSeq(s, t + 1, Len(s))) = IF t + 1 <= Len(s) THEN Len(s) - (t + 1) + 1 ELSE 0
    BY <1>1, <1>2, SubSeqProperties
  <2>2. /\ t + 1 <= Len(s) => Len(s) - (t + 1) + 1 = Len(s) - t
        /\ ~(t + 1 <= Len(s)) => 0 = Len(s) - t
    <3>1. PICK n \in Nat : n = Len(s)
      BY <1>1
    <3>2. t \in Nat /\ t <= n
      BY <3>1
    <3>3. t + 1 <= n => n - (t + 1) + 1 = n - t
      BY <3>2
    <3>4. ~(t + 1 <= n) => 0 = n - t
      BY <3>2
    <3>. QED  BY <3>1, <3>3, <3>4
  <2>. QED  BY <2>1, <2>2 DEF From
<1>4. ASSUME NEW i \in 1 .. Len(s) - t PROVE From(s, t)[i] = s[t + i]
  <2>1. From(s, t)[i] = s[t + 1 + i - 1]
    BY <1>1, <1>2, <1>4, SubSeqProperties DEF From
  <2>2. t + 1 + i - 1 = t + i
    BY <1>1
  <2>. QED  BY <2>1, <2>2
<1>. QED  BY <1>3, <1>4

LEMMA FromWhole ==
    ASSUME NEW s \in Seq(Units)
    PROVE  From(s, 0) = s
<1>1. /\ From(s, 0) \in Seq(Units) /\ Len(From(s, 0)) = Len(s)
      /\ \A i \in 1 .. Len(s) : From(s, 0)[i] = s[0 + i]
  <2>1. 0 \in 0 .. Len(s) /\ Len(s) - 0 = Len(s)
    OBVIOUS
  <2>. QED  BY <2>1, FromFacts
<1>2. \A i \in 1 .. Len(s) : From(s, 0)[i] = s[i]
  BY <1>1
<1>. QED  BY <1>1, <1>2, SeqEqual

LEMMA FromFrom ==
    ASSUME NEW s \in Seq(Units), NEW t \in 0 .. Len(s), NEW k \in 0 .. Len(s) - t
    PROVE  From(From(s, t), k) = From(s, t + k)
<1> DEFINE r == From(s, t)
<1>1. /\ r \in Seq(Units) /\ Len(r) = Len(s) - t
      /\ \A i \in 1 .. Len(s) - t : r[i] = s[t + i]
  BY FromFacts
<1> HIDE DEF r
<1>2. t + k \in 0 .. Len(s) /\ k \in 0 .. Len(r) /\ Len(s) \in Nat
  BY <1>1
<1>3. /\ From(r, k) \in Seq(Units) /\ Len(From(r, k)) = Len(r) - k
      /\ \A i \in 1 .. Len(r) - k : From(r, k)[i] = r[k + i]
  BY <1>1, <1>2, FromFacts
<1>4. /\ From(s, t + k) \in Seq(Units) /\ Len(From(s, t + k)) = Len(s) - (t + k)
      /\ \A i \in 1 .. Len(s) - (t + k) : From(s, t + k)[i] = s[t + k + i]
  BY <1>2, FromFacts
<1>5. Len(From(r, k)) = Len(From(s, t + k))
  <2>1. Len(r) - k = Len(s) - (t + k)
    BY <1>1, <1>2
  <2>. QED  BY <1>3, <1>4, <2>1
<1>6. ASSUME NEW i \in 1 .. Len(From(r, k)) PROVE From(r, k)[i] = From(s, t + k)[i]
  <2>1. /\ i \in 1 .. Len(r) - k /\ i \in 1 .. Len(s) - (t + k) /\ k + i \in 1 .. Len(s) - t
        /\ t + (k + i) = t + k + i
    BY <1>1, <1>2, <1>3, <1>6
  <2>2. From(r, k)[i] = r[k + i] /\ r[k + i] = s[t + (k + i)]
    BY <1>1, <1>3, <2>1
  <2>. QED  BY <1>4, <2>1, <2>2
<1>7. From(r, k) = From(s, t + k)
  BY <1>3, <1>4, <1>5, <1>6, SeqEqual
<1>. QED  BY <1>7 DEF r

LEMMA EmptyFacts ==
    ASSUME NEW s \in Seq(Units)
    PROVE  Len(s) \in Nat /\ (s = <<>> <=> Len(s) = 0)
BY EmptySeq

\* A request is one unit, which is no part of an upload; an upload is its size,
\* its command and its bytes.
LEMMA RequestFacts ==
    ASSUME NEW c \in Conns, IsRequest(Scripts[c])
    PROVE  /\ Len(Scripts[c]) = 1 /\ Scripts[c][1].op \notin {"SIZE", "DATA", "RAW"}
           /\ \A ch \in Channels : c \notin Uploaders(ch)
BY DEF IsRequest, Uploaders

LEMMA UploadFacts ==
    ASSUME NEW c \in Conns, IsUpload(Scripts[c])
    PROVE  /\ Scripts[c][1].ch \in Channels /\ Scripts[c][1].n \in 1 .. MaxData
           /\ Scripts[c][1].op = "SIZE" /\ Scripts[c][2].op = "DATA"
           /\ Scripts[c][2].ch = Scripts[c][1].ch
           /\ Len(Scripts[c]) = 2 + Scripts[c][1].n * WordBytes /\ Len(Scripts[c]) >= 3
           /\ Scripts[c][1].n * WordBytes \in Nat /\ Scripts[c][1].n * WordBytes <= BufBytes
           /\ \A i \in 3 .. Len(Scripts[c]) : Scripts[c][i].op = "RAW" /\ Scripts[c][i].n \in Nat
           /\ c \in Uploaders(Scripts[c][1].ch)
           /\ \A ch \in Channels : c \in Uploaders(ch) => ch = Scripts[c][1].ch
           /\ \A key \in Settings : c \notin Setters(key)
<1>1. /\ Len(Scripts[c]) >= 2 /\ Scripts[c][1].op = "SIZE" /\ Scripts[c][2].op = "DATA"
      /\ Scripts[c][1].ch = Scripts[c][2].ch /\ Scripts[c][1].n \in 1 .. MaxData
      /\ Len(Scripts[c]) = 2 + Scripts[c][1].n * WordBytes
      /\ \A i \in 3 .. Len(Scripts[c]) : Scripts[c][i].op = "RAW"
  BY DEF IsUpload
<1>2. /\ Len(Scripts[c]) \in Nat /\ \A i \in 1 .. Len(Scripts[c]) : Scripts[c][i] \in Units
  BY ScriptFacts
<1>3. Scripts[c][1] \in Units
  BY <1>1, <1>2
<1>4. Scripts[c][1].ch \in Channels
  BY <1>3 DEF Units
<1>5. \A i \in 3 .. Len(Scripts[c]) : i \in 1 .. Len(Scripts[c])
  BY <1>2
<1>6. \A i \in 3 .. Len(Scripts[c]) : Scripts[c][i].n \in Nat
  BY <1>2, <1>5 DEF Units
<1>7. /\ Scripts[c][1].n * WordBytes \in Nat /\ Scripts[c][1].n * WordBytes <= BufBytes
      /\ Scripts[c][1].n * WordBytes >= 1
  <2> DEFINE n == Scripts[c][1].n
  <2>1. /\ n \in Nat /\ n >= 1 /\ n <= MaxData /\ MaxData \in Nat /\ WordBytes \in Nat
        /\ WordBytes >= 1 /\ BufBytes \in Nat /\ MaxData * WordBytes <= BufBytes
    BY <1>1, BufferFacts
  <2> HIDE DEF n
  <2>2. /\ n * WordBytes \in Nat /\ n * WordBytes <= MaxData * WordBytes /\ n * WordBytes >= 1
        /\ MaxData * WordBytes \in Nat
    BY <2>1
  <2>3. n * WordBytes <= BufBytes
    BY <2>1, <2>2
  <2>. QED  BY <2>2, <2>3 DEF n
<1>8. Len(Scripts[c]) >= 3
  BY <1>1, <1>7
<1>. QED  BY <1>1, <1>4, <1>6, <1>7, <1>8 DEF Uploaders, Setters

LEMMA SetterFacts ==
    ASSUME NEW key \in Settings, NEW c \in Setters(key)
    PROVE  c \in Conns /\ IsRequest(Scripts[c]) /\ Scripts[c][1].op = "SET" /\ Scripts[c][1].key = key
<1>1. c \in Conns /\ Scripts[c][1].op = "SET" /\ Scripts[c][1].key = key
  BY DEF Setters
<1>. QED  BY <1>1, ScriptFacts DEF IsUpload

LEMMA UploaderFacts ==
    ASSUME NEW ch \in Channels, NEW c \in Uploaders(ch)
    PROVE  c \in Conns /\ IsUpload(Scripts[c]) /\ Scripts[c][1].ch = ch
<1>1. c \in Conns /\ Scripts[c][1].op = "SIZE" /\ Scripts[c][1].ch = ch
  BY DEF Uploaders
<1>. QED  BY <1>1, ScriptFacts DEF IsRequest

----------------------------------------------------------------------------
(* Clean is kept.                                                          *)

\* Steps that take nothing from the wire and do not touch the server's state.
LEMMA StillClean ==
    ASSUME Clean, UNCHANGED <<net, upload, radio>>,
           \A c \in Conns : conn'[c] = "new" <=> conn[c] = "new"
    PROVE  Clean'
<1>1. OneByOne'
  <2>1. \A c \in Conns : \A b \in 1 .. c - 1 : b \in Conns
    BY DEF Conns
  <2>. QED  BY <2>1 DEF Clean, OneByOne, Begun, Taken
<1>2. \A c \in Conns : Progress(c)'
  BY DEF Clean, Progress, Begun, Done, Taken, upload
<1>3. Receiving'
  BY DEF Clean, Receiving, Uploaders, Begun, Done, Taken, upload
<1>4. Loaded'
  BY DEF Clean, Loaded, Uploaders, Begun, Done, Taken, Wave, upload
<1>5. Applied'
  BY DEF Clean, Applied, Setters, Begun, Done, Taken
<1>. QED  BY <1>1, <1>2, <1>3, <1>4, <1>5 DEF Clean

LEMMA AcceptClean ==
    ASSUME WireInv, Clean, NEW c \in Conns, Accept(c)
    PROVE  Clean'
<1>1. /\ conn[c] = "new" /\ conn' = [conn EXCEPT ![c] = "open"]
      /\ \A b \in 1 .. c - 1 : conn[b] # "new"
      /\ net' = [net EXCEPT ![c] = Scripts[c]]
      /\ UNCHANGED <<received, rip, size, stack, torn, dataset, radio>>
  BY DEF Accept, server
<1>2. /\ conn'[c] = "open" /\ net'[c] = Scripts[c]
      /\ \A b \in Conns : b # c => conn'[b] = conn[b] /\ net'[b] = net[b]
      /\ Scripts[c] \in Seq(Units) /\ Len(Scripts[c]) \in Nat /\ Len(Scripts[c]) >= 1
  BY <1>1, ScriptFacts DEF WireInv, WireTypes
<1>3. ~Begun(c) /\ ~Begun(c)' /\ ~Done(c)' /\ ~Done(c)
  <2>1. net'[c] # <<>> /\ Taken(c)' = 0
    BY <1>2, EmptyFacts DEF Taken
  <2>. QED  BY <1>1, <2>1 DEF Begun, Done
<1>4. \A b \in Conns : b # c => (Begun(b)' <=> Begun(b)) /\ (Done(b)' <=> Done(b)) /\ Taken(b)' = Taken(b)
  BY <1>2 DEF Begun, Done, Taken
<1>5. OneByOne'
  <2>1. ASSUME NEW b \in Conns, conn'[b] # "new"
        PROVE  Len(net'[b]) <= Len(Scripts[b]) /\ net'[b] = From(Scripts[b], Taken(b)')
    <3>1. CASE b = c
      <4>1. Taken(c)' = 0
        BY <1>2 DEF Taken
      <4>. QED  BY <1>2, <3>1, <4>1, FromWhole
    <3>2. CASE b # c
      BY <1>2, <1>4, <2>1, <3>2 DEF Clean, OneByOne
    <3>. QED  BY <3>1, <3>2
  <2>2. ASSUME NEW d \in Conns, NEW b \in 1 .. d - 1
        PROVE  (conn'[d] # "new" => conn'[b] # "new") /\ (Begun(d)' => net'[b] = <<>>)
    <3>1. b \in Conns
      BY DEF Conns
    <3>2. (conn[d] # "new" => conn[b] # "new") /\ (Begun(d) => net[b] = <<>>)
      BY DEF Clean, OneByOne
    <3>3. CASE d = c
      BY <1>1, <1>2, <1>3, <3>1, <3>3
    <3>4. CASE d # c /\ b = c
      BY <1>1, <1>2, <1>4, <3>2, <3>4 DEF Begun
    <3>5. CASE d # c /\ b # c
      BY <1>2, <1>4, <3>1, <3>2, <3>5
    <3>. QED  BY <3>3, <3>4, <3>5
  <2>. QED  BY <2>1, <2>2 DEF OneByOne
<1>6. \A b \in Conns : Progress(b)'
  BY <1>1, <1>3, <1>4 DEF Clean, Progress
<1>7. Receiving'
  <2>1. ASSUME NEW ch \in Channels, rip[ch]
        PROVE  \E b \in Uploaders(ch) : Begun(b)' /\ ~Done(b)' /\ Taken(b)' >= 2
    <3>1. PICK b \in Uploaders(ch) : Begun(b) /\ ~Done(b) /\ Taken(b) >= 2
      BY <2>1 DEF Clean, Receiving
    <3>2. b \in Conns /\ b # c
      BY <1>3, <3>1 DEF Uploaders
    <3>. QED  BY <1>4, <3>1, <3>2
  <2>2. received # 0 => \E ch \in Channels : rip[ch]
    BY DEF Clean, Receiving
  <2>. QED  BY <1>1, <2>1, <2>2 DEF Receiving, Uploaders
<1>8. Loaded'
  <2>1. ASSUME NEW ch \in Channels, NEW b \in Uploaders(ch), Done(b)',
               \A d \in Uploaders(ch) : d > b => ~Begun(d)'
        PROVE  torn[ch] \/ dataset[ch] = Wave(b)
    <3>1. b \in Conns /\ b # c /\ \A d \in Uploaders(ch) : d \in Conns
      BY <1>3, <2>1 DEF Uploaders
    <3>2. Done(b) /\ \A d \in Uploaders(ch) : d > b => ~Begun(d)
      BY <1>3, <1>4, <2>1, <3>1
    <3>. QED  BY <3>2 DEF Clean, Loaded
  <2>. QED  BY <1>1, <2>1 DEF Loaded, Uploaders, Wave
<1>9. Applied'
  <2>1. ASSUME NEW key \in Settings, NEW b \in Setters(key), Done(b)',
               \A d \in Setters(key) : d > b => ~Begun(d)'
        PROVE  radio[key] \in Readings(key, Scripts[b][1].n)
    <3>1. b \in Conns /\ b # c /\ \A d \in Setters(key) : d \in Conns
      BY <1>3, <2>1 DEF Setters
    <3>2. Done(b) /\ \A d \in Setters(key) : d > b => ~Begun(d)
      BY <1>3, <1>4, <2>1, <3>1
    <3>. QED  BY <3>2 DEF Clean, Applied
  <2>. QED  BY <1>1, <2>1 DEF Applied, Setters
<1>. QED  BY <1>5, <1>6, <1>7, <1>8, <1>9 DEF Clean

\* What recv_callback takes without a mishap: the next units of the only stream
\* that may be begun and not done.
Takes(c, k) ==
    /\ conn[c] # "new" /\ k \in Nat /\ k >= 1
    /\ Taken(c) \in Nat /\ Taken(c) + k <= Len(Scripts[c]) /\ Taken(c)' = Taken(c) + k
    /\ Payload(c) = Scripts[c][Taken(c) + 1]
    /\ k \in 1 .. Len(net[c]) /\ \A i \in 1 .. k : net[c][i] = Scripts[c][Taken(c) + i]
    /\ k > 1 => Payload(c).op \in {"DATA", "RAW"}
    /\ Begun(c)' /\ ~Done(c) /\ (Done(c)' <=> Taken(c) + k = Len(Scripts[c]))
    /\ \A b \in Conns : b # c =>
           /\ Begun(b)' <=> Begun(b)
           /\ Done(b)' <=> Done(b)
           /\ Taken(b)' = Taken(b)
           /\ Begun(b) => Done(b)
    /\ \A b \in Conns : b > c => ~Begun(b)

LEMMA RecvTakes ==
    ASSUME WireInv, Clean, NEW c \in Conns, NEW k, NEW lost, Received(c, k, lost), mishaps' = mishaps
    PROVE  Takes(c, k) /\ OneByOne'
<1> DEFINE s == Scripts[c]
           t == Taken(c)
<1>1. /\ k \in 1 .. Len(net[c]) /\ lost \in 0 .. Len(net[c]) - k
      /\ net[c] \in Seq(Units) /\ net[c] # <<>> /\ Len(net[c]) \in Nat
      /\ Payload(c) = net[c][1] /\ conn' = conn
      /\ net' \in [Conns -> Seq(Units)]
      /\ net'[c] = SubSeq(net[c], k + lost + 1, Len(net[c]))
      /\ \A b \in Conns : b # c => net'[b] = net[b]
      /\ lost = 0 /\ \A b \in 1 .. c - 1 : net[b] = <<>>
  BY ReceivedFacts DEF WireInv
<1>2. conn[c] # "new"
  BY <1>1 DEF WireInv, Fresh
<1>3. s \in Seq(Units) /\ Len(s) \in Nat
  BY ScriptFacts
<1>4. Len(net[c]) <= Len(s) /\ net[c] = From(s, t)
  BY <1>2 DEF Clean, OneByOne
<1>5. t = Len(s) - Len(net[c])
  BY DEF Taken
<1> HIDE DEF s, t
<1>6. /\ t \in 0 .. Len(s) /\ t \in Nat /\ k \in 0 .. Len(s) - t /\ k \in Nat /\ k >= 1
      /\ t + k \in 0 .. Len(s) /\ t + k <= Len(s) /\ Len(net[c]) = Len(s) - t
  BY <1>1, <1>3, <1>4, <1>5
<1>7. net'[c] = From(s, t + k) /\ Len(net'[c]) = Len(s) - (t + k)
  <2>1. k + lost + 1 = k + 1
    BY <1>1, <1>6
  <2>2. net'[c] = From(net[c], k)
    BY <1>1, <2>1 DEF From
  <2>3. net'[c] = From(s, t + k)
    BY <1>3, <1>4, <1>6, <2>2, FromFrom
  <2>4. Len(From(s, t + k)) = Len(s) - (t + k)
    BY <1>3, <1>6, FromFacts
  <2>. QED  BY <2>3, <2>4
<1>8. Taken(c)' = t + k
  <2>1. Taken(c)' = Len(s) - Len(net'[c])
    BY DEF Taken, s
  <2>. QED  BY <1>3, <1>6, <1>7, <2>1
<1>9. \A i \in 1 .. k : net[c][i] = s[t + i]
  <2>1. \A i \in 1 .. k : i \in 1 .. Len(s) - t
    BY <1>3, <1>6
  <2>. QED  BY <1>3, <1>4, <1>6, <2>1, FromFacts
<1>10. Payload(c) = s[t + 1]
  <2>1. 1 \in 1 .. k
    BY <1>6
  <2>. QED  BY <1>1, <1>9, <2>1
<1>11. Begun(c)' /\ ~Done(c) /\ (Done(c)' <=> t + k = Len(s))
  <2>1. conn'[c] # "new"
    BY <1>1, <1>2
  <2>2. net'[c] \in Seq(Units)
    BY <1>1
  <2>3. net'[c] = <<>> <=> t + k = Len(s)
    BY <1>3, <1>6, <1>7, <2>2, EmptyFacts
  <2>4. t + k > 0
    BY <1>6
  <2>. QED  BY <1>1, <1>8, <2>1, <2>3, <2>4 DEF Begun, Done
<1>12. \A b \in Conns : b # c => (Begun(b)' <=> Begun(b)) /\ (Done(b)' <=> Done(b)) /\ Taken(b)' = Taken(b)
  BY <1>1 DEF Begun, Done, Taken
<1>13. \A b \in Conns : b > c => ~Begun(b)
  <2>1. ASSUME NEW b \in Conns, b > c PROVE c \in 1 .. b - 1
    BY <2>1 DEF Conns
  <2>. QED  BY <1>1, <2>1 DEF Clean, OneByOne
<1>14. \A b \in Conns : b # c => (Begun(b) => Done(b))
  <2>1. ASSUME NEW b \in Conns, b < c PROVE b \in 1 .. c - 1
    BY <2>1 DEF Conns
  <2>2. \A b \in Conns : b # c => b > c \/ b < c
    BY DEF Conns
  <2>. QED  BY <1>1, <1>13, <2>1, <2>2 DEF Begun, Done
<1>15. k > 1 => Payload(c).op \in {"DATA", "RAW"}
  BY DEF Received
<1>16. Takes(c, k)
  BY <1>1, <1>2, <1>6, <1>8, <1>9, <1>10, <1>11, <1>12, <1>13, <1>14, <1>15 DEF Takes, s, t
<1>17. OneByOne'
  <2>1. ASSUME NEW b \in Conns, conn[b] # "new"
        PROVE  Len(net'[b]) <= Len(Scripts[b]) /\ net'[b] = From(Scripts[b], Taken(b)')
    <3>1. CASE b = c
      <4>1. Len(net'[c]) <= Len(s) /\ net'[c] = From(s, Taken(c)')
        BY <1>3, <1>6, <1>7, <1>8
      <4>. QED  BY <3>1, <4>1 DEF s
    <3>2. CASE b # c
      BY <1>1, <1>12, <2>1, <3>2 DEF Clean, OneByOne
    <3>. QED  BY <3>1, <3>2
  <2>2. ASSUME NEW d \in Conns, NEW b \in 1 .. d - 1
        PROVE  (conn[d] # "new" => conn[b] # "new") /\ (Begun(d)' => net'[b] = <<>>)
    <3>1. b \in Conns /\ b # d
      BY DEF Conns
    <3>2. (conn[d] # "new" => conn[b] # "new") /\ (Begun(d) => net[b] = <<>>)
      BY DEF Clean, OneByOne
    <3>3. CASE d = c
      BY <1>1, <3>1, <3>2, <3>3
    <3>4. CASE d # c
      <4>1. Begun(d)' => net[b] = <<>>
        BY <1>12, <3>2, <3>4
      <4>. QED  BY <1>1, <3>1, <3>2, <4>1
    <3>. QED  BY <3>3, <3>4
  <2>. QED  BY <1>1, <2>1, <2>2 DEF OneByOne
<1>. QED  BY <1>16, <1>17

LEMMA DoneBegun ==
    ASSUME NEW b \in Conns, Done(b)
    PROVE  Begun(b)
<1>1. Len(Scripts[b]) \in Nat /\ Len(Scripts[b]) >= 1 /\ Len(net[b]) = 0 /\ conn[b] # "new"
  BY ScriptFacts DEF Done
<1>2. Taken(b) > 0
  BY <1>1 DEF Taken
<1>. QED  BY <1>1, <1>2 DEF Begun

\* A request is handled between two uploads.
LEMMA RequestClean ==
    ASSUME WireInv, Clean, NEW c \in Conns, NEW k, NEW lost, Handle(c, k, lost),
           mishaps' = mishaps, IsRequest(Scripts[c])
    PROVE  Clean'
<1>1. Takes(c, k) /\ OneByOne'
  BY RecvTakes, HandleTypes DEF WireInv
<1>2. /\ Len(Scripts[c]) = 1 /\ Scripts[c][1].op \notin {"SIZE", "DATA", "RAW"}
      /\ \A ch \in Channels : c \notin Uploaders(ch)
  BY RequestFacts
<1>3. Taken(c) = 0 /\ k = 1 /\ Payload(c) = Scripts[c][1] /\ Done(c)'
  BY <1>1, <1>2 DEF Takes
<1>4. \A ch \in Channels : ~rip[ch]
  <2>1. ASSUME NEW ch \in Channels, rip[ch] PROVE FALSE
    <3>1. PICK b \in Uploaders(ch) : Begun(b) /\ ~Done(b)
      BY <2>1 DEF Clean, Receiving
    <3>2. b \in Conns /\ b # c
      BY <1>2, <3>1, UploaderFacts
    <3>. QED  BY <1>1, <3>1, <3>2 DEF Takes
  <2>. QED  BY <2>1
<1>5. /\ UNCHANGED upload
      /\ Scripts[c][1].op # "SET" => UNCHANGED radio
      /\ Scripts[c][1].op = "SET" =>
             \E value \in Readings(Scripts[c][1].key, Scripts[c][1].n) :
                 radio' = [radio EXCEPT ![Scripts[c][1].key] = value]
  <2>1. CASE TestConn(c, k, lost)
    BY <1>3, <2>1 DEF TestConn
  <2>2. CASE GetTdData(c, k, lost)
    BY <1>3, <2>2 DEF GetTdData
  <2>3. CASE GetFdData(c, k, lost)
    BY <1>3, <2>3 DEF GetFdData
  <2>4. ~SetDataSize(c, k, lost)
    BY <1>2, <1>3 DEF SetDataSize
  <2>5. ASSUME NEW ch \in Channels PROVE ~SetTxData(c, k, lost, ch)
    BY <1>2, <1>3, <1>4 DEF SetTxData, Uploads
  <2>6. CASE Set(c, k, lost)
    BY <1>3, <2>6 DEF Set
  <2>7. CASE GetOrUnknown(c, k, lost)
    BY <1>3, <2>7 DEF GetOrUnknown
  <2>. QED  BY <2>1, <2>2, <2>3, <2>4, <2>5, <2>6, <2>7 DEF Handle
<1>6. ASSUME NEW b \in Conns PROVE Progress(b)'
  <2>1. CASE b = c
    BY <1>3, <2>1 DEF Progress
  <2>2. CASE b # c
    BY <1>1, <2>2 DEF Takes, Progress
  <2>. QED  BY <2>1, <2>2
<1>7. Receiving'
  <2>1. received = 0 /\ received' = received /\ rip' = rip
    BY <1>4, <1>5 DEF Clean, Receiving, upload
  <2>. QED  BY <1>4, <2>1 DEF Receiving
<1>8. Loaded'
  <2>1. ASSUME NEW ch \in Channels, NEW b \in Uploaders(ch), Done(b)',
               \A d \in Uploaders(ch) : d > b => ~Begun(d)'
        PROVE  torn[ch] \/ dataset[ch] = Wave(b)
    <3>1. b \in Conns /\ b # c /\ \A d \in Uploaders(ch) : d \in Conns /\ d # c
      BY <1>2, UploaderFacts
    <3>2. Done(b) /\ \A d \in Uploaders(ch) : d > b => ~Begun(d)
      BY <1>1, <2>1, <3>1 DEF Takes
    <3>. QED  BY <3>2 DEF Clean, Loaded
  <2>. QED  BY <1>5, <2>1 DEF Loaded, Uploaders, Wave, upload
<1>9. Applied'
  <2>1. ASSUME NEW key \in Settings, NEW b \in Setters(key), Done(b)',
               \A d \in Setters(key) : d > b => ~Begun(d)'
        PROVE  radio'[key] \in Readings(key, Scripts[b][1].n)
    <3>1. b \in Conns /\ \A d \in Setters(key) : d \in Conns
      BY DEF Setters
    <3>2. radio \in [Settings -> Nat]
      BY DEF WireInv, ServerTypes
    <3>3. CASE b = c
      <4>1. Scripts[c][1].op = "SET" /\ Scripts[c][1].key = key
        BY <3>3 DEF Setters
      <4>. QED  BY <1>5, <3>2, <3>3, <4>1
    <3>4. CASE b # c
      <4>1. Done(b) /\ Begun(b) /\ ~(b > c) /\ c \in Nat /\ b \in Nat
        <5>1. Done(b) /\ Begun(b)
          BY <1>1, <2>1, <3>1, <3>4, DoneBegun DEF Takes, WireInv
        <5>. QED  BY <1>1, <3>1, <5>1 DEF Takes, Conns
      <4>2. c > b /\ c \notin Setters(key)
        BY <1>1, <2>1, <3>4, <4>1 DEF Takes
      <4>3. \A d \in Setters(key) : d > b => ~Begun(d)
        BY <1>1, <2>1, <3>1, <4>2 DEF Takes
      <4>4. radio[key] \in Readings(key, Scripts[b][1].n)
        BY <4>1, <4>3 DEF Clean, Applied
      <4>5. radio'[key] = radio[key]
        <5>1. CASE Scripts[c][1].op = "SET"
          <6>1. Scripts[c][1].key # key
            BY <4>2, <5>1 DEF Setters
          <6>. QED  BY <1>5, <3>2, <5>1, <6>1
        <5>2. CASE Scripts[c][1].op # "SET"
          BY <1>5, <5>2
        <5>. QED  BY <5>1, <5>2
      <4>. QED  BY <4>4, <4>5
    <3>. QED  BY <3>3, <3>4
  <2>. QED  BY <2>1 DEF Applied, Setters
<1>. QED  BY <1>1, <1>6, <1>7, <1>8, <1>9 DEF Clean

LEMMA OnlyOne ==
    ASSUME Clean, NEW c \in Conns, NEW k, Takes(c, k), IsUpload(Scripts[c]),
           NEW ch \in Channels, rip[ch]
    PROVE  ch = Scripts[c][1].ch /\ Taken(c) >= 2
<1>1. PICK b \in Uploaders(ch) : Begun(b) /\ ~Done(b) /\ Taken(b) >= 2
  BY DEF Clean, Receiving
<1>2. b \in Conns /\ Scripts[b][1].ch = ch
  BY UploaderFacts
<1>3. b = c
  BY <1>1, <1>2 DEF Takes
<1>. QED  BY <1>1, <1>2, <1>3

\* The claims about channels and settings that an upload of ch does not touch.
LEMMA UploadOthers ==
    ASSUME WireInv, Clean, NEW c \in Conns, NEW k, Takes(c, k), IsUpload(Scripts[c]), radio' = radio,
           NEW ch, ch = Scripts[c][1].ch,
           \A other \in Channels : other # ch =>
               torn'[other] = torn[other] /\ dataset'[other] = dataset[other],
           Done(c)' => torn'[ch] \/ dataset'[ch] = Wave(c)
    PROVE  Loaded' /\ Applied'
<1>1. Loaded'
  <2>1. ASSUME NEW x \in Channels, NEW b \in Uploaders(x), Done(b)',
               \A d \in Uploaders(x) : d > b => ~Begun(d)'
        PROVE  torn'[x] \/ dataset'[x] = Wave(b)
    <3>1. /\ b \in Conns /\ Scripts[b][1].ch = x /\ c \in Uploaders(ch)
          /\ \A y \in Channels : c \in Uploaders(y) => y = ch
          /\ \A d \in Uploaders(x) : d \in Conns
      BY UploaderFacts, UploadFacts
    <3>2. CASE b = c
      BY <2>1, <3>1, <3>2
    <3>3. CASE b # c
      <4>1. Done(b) /\ Begun(b)
        BY <2>1, <3>1, <3>3, DoneBegun DEF Takes
      <4>2. c > b
        BY <3>1, <3>3, <4>1 DEF Takes, Conns
      <4>3. x # ch
        BY <2>1, <3>1, <4>2 DEF Takes
      <4>4. \A d \in Uploaders(x) : d > b => ~Begun(d)
        BY <2>1, <3>1, <4>3 DEF Takes
      <4>5. torn[x] \/ dataset[x] = Wave(b)
        BY <4>1, <4>4 DEF Clean, Loaded
      <4>. QED  BY <4>3, <4>5
    <3>. QED  BY <3>2, <3>3
  <2>. QED  BY <2>1 DEF Loaded, Uploaders, Wave
<1>2. Applied'
  <2>1. ASSUME NEW key \in Settings, NEW b \in Setters(key), Done(b)',
               \A d \in Setters(key) : d > b => ~Begun(d)'
        PROVE  radio[key] \in Readings(key, Scripts[b][1].n)
    <3>1. b \in Conns /\ c \notin Setters(key) /\ \A d \in Setters(key) : d \in Conns
      BY UploadFacts, SetterFacts
    <3>2. Done(b) /\ \A d \in Setters(key) : d > b => ~Begun(d)
      BY <2>1, <3>1 DEF Takes
    <3>. QED  BY <3>2 DEF Clean, Applied
  <2>. QED  BY <2>1 DEF Applied, Setters
<1>. QED  BY <1>1, <1>2

\* The size of an upload comes first.
LEMMA UploadSizeClean ==
    ASSUME WireInv, Clean, NEW c \in Conns, NEW k, NEW lost, Handle(c, k, lost),
           mishaps' = mishaps, IsUpload(Scripts[c]), Taken(c) = 0
    PROVE  Clean'
<1> DEFINE ch == Scripts[c][1].ch
<1>1. Takes(c, k) /\ OneByOne'
  BY RecvTakes, HandleTypes DEF WireInv
<1>2. /\ ch \in Channels /\ Scripts[c][1].op = "SIZE" /\ Len(Scripts[c]) >= 3 /\ Len(Scripts[c]) \in Nat
  BY UploadFacts, ScriptFacts
<1>3. Payload(c) = Scripts[c][1] /\ k = 1 /\ Taken(c)' = 1 /\ ~Done(c)'
  BY <1>1, <1>2 DEF Takes
<1>4. \A x \in Channels : ~rip[x]
  BY <1>1, OnlyOne
<1>5. SetDataSize(c, k, lost)
  BY <1>2, <1>3 DEF Handle, TestConn, GetTdData, GetFdData, SetTxData, Uploads, Set, GetOrUnknown, Early, Late
<1>6. /\ size' = [size EXCEPT ![ch] = Scripts[c][1].n]
      /\ UNCHANGED <<received, rip, stack, torn, dataset, radio>>
  BY <1>3, <1>5 DEF SetDataSize
<1>7. ASSUME NEW b \in Conns PROVE Progress(b)'
  <2>1. CASE b = c
    <3>1. size'[ch] = Scripts[c][1].n
      BY <1>2, <1>6 DEF WireInv, ServerTypes
    <3>. QED  BY <1>3, <2>1, <3>1 DEF Progress
  <2>2. CASE b # c
    BY <1>1, <2>2 DEF Takes, Progress
  <2>. QED  BY <2>1, <2>2
<1>8. Receiving'
  <2>1. received = 0
    BY <1>4 DEF Clean, Receiving
  <2>. QED  BY <1>4, <1>6, <2>1 DEF Receiving
<1>9. Loaded' /\ Applied'
  BY <1>1, <1>3, <1>6, UploadOthers
<1>. QED  BY <1>1, <1>7, <1>8, <1>9 DEF Clean

\* What the later segments of an upload do: total bytes of it have come, and they
\* are in the array unless a part of it was torn.
Fills(c, ch, total, array) ==
    /\ rip' = [rip EXCEPT ![ch] = ~Done(c)']
    /\ \A x \in Channels : x # ch => torn'[x] = torn[x] /\ dataset'[x] = dataset[x]
    /\ torn'[ch] \/ \A i \in 1 .. total : array[i] = Scripts[c][i + 2].n
    /\ received' = IF Done(c)' THEN 0 ELSE total
    /\ ~Done(c)' => stack'[ch] = array
    /\ Done(c)' => dataset'[ch] = SubSeq(array, 1, total)
    /\ size' = size /\ radio' = radio

LEMMA UploadFills ==
    ASSUME WireInv, Clean, NEW c \in Conns, NEW k, NEW lost, Handle(c, k, lost), Takes(c, k),
           IsUpload(Scripts[c]), Taken(c) > 0
    PROVE  \E array : Fills(c, Scripts[c][1].ch, Taken(c) + k - 2, array)
<1> DEFINE ch == Scripts[c][1].ch
           n == Scripts[c][1].n
           t == Taken(c)
           s == Scripts[c]
<1>1. /\ ch \in Channels /\ n \in 1 .. MaxData /\ s[2].op = "DATA" /\ s[2].ch = ch
      /\ Len(s) \in Nat /\ Len(s) = 2 + n * WordBytes /\ Len(s) >= 3
      /\ n * WordBytes \in Nat /\ n * WordBytes <= BufBytes
      /\ \A i \in 3 .. Len(s) : s[i].op = "RAW" /\ s[i].n \in Nat
  BY UploadFacts, ScriptFacts
<1>2. /\ t \in Nat /\ t >= 1 /\ k \in Nat /\ k >= 1 /\ t + k <= Len(s)
      /\ k \in 1 .. Len(net[c]) /\ Payload(c) = s[t + 1] /\ \A i \in 1 .. k : net[c][i] = s[t + i]
      /\ Begun(c) /\ ~Done(c) /\ (Done(c)' <=> t + k = Len(s))
  BY DEF Takes, Begun
<1>3. /\ size[ch] = n
      /\ t >= 2 => /\ rip[ch] /\ received = t - 2
                   /\ torn[ch] \/ \A i \in 1 .. t - 2 : stack[ch][i] = s[i + 2].n
  BY <1>2 DEF Clean, Progress
<1>4. \A x \in Channels : rip[x] => x = ch /\ t >= 2
  BY OnlyOne
<1>5. t < 2 => received = 0 /\ ~rip[ch]
  <2>1. SUFFICES ASSUME t < 2 PROVE received = 0 /\ ~rip[ch]
    OBVIOUS
  <2>2. \A x \in Channels : ~rip[x]
    BY <1>2, <1>4, <2>1
  <2>3. received = 0
    BY <2>2 DEF Clean, Receiving
  <2>. QED  BY <1>1, <2>2, <2>3
<1>6. received \in Nat /\ BufBytes \in Nat
  BY BufferFacts DEF WireInv, ServerTypes
<1> HIDE DEF ch, n, t, s
<1>7. /\ t = 1 => Payload(c).op = "DATA" /\ Payload(c).ch = ch
      /\ t >= 2 => Payload(c).op = "RAW"
  <2>1. t >= 2 => t + 1 \in 3 .. Len(s)
    BY <1>1, <1>2
  <2>. QED  BY <1>1, <1>2, <2>1
<1>8. Payload(c).op \in {"DATA", "RAW"} /\ Uploads(c, ch) /\ \A x \in Channels : Uploads(c, x) => x = ch
  <2>1. t = 1 \/ t >= 2
    BY <1>2
  <2>. QED  BY <1>1, <1>3, <1>4, <1>7, <2>1 DEF Uploads, Early, Channels
<1>9. SetTxData(c, k, lost, ch)
  BY <1>1, <1>8 DEF Handle, TestConn, GetTdData, GetFdData, SetDataSize, SetTxData, Set, GetOrUnknown, Late
<1>10. PICK gone, array, total, done : SetEffect(c, k, ch, gone, array, total, done)
  BY <1>9, SetEffectOf
<1>11. size' = size /\ radio' = radio
  BY <1>9 DEF SetTxData
<1> DEFINE new == Copied(c, k, ch)
           old == IF gone THEN NoBytes ELSE stack[ch]
<1>12. /\ new \in Seq(Nat) /\ Len(new) \in Nat /\ received + Len(new) = t + k - 2
       /\ \A i \in 1 .. Len(new) : new[i] = s[received + i + 2].n
  <2>1. CASE t = 1
    <3>1. /\ new \in Seq(Nat) /\ Len(new) = k - 1 /\ received = 0
          /\ \A i \in 1 .. k - 1 : new[i] = net[c][i + 1].n
      BY <1>1, <1>2, <1>5, <1>7, <2>1, CopiedFacts DEF WireInv
    <3>2. \A i \in 1 .. k - 1 : i + 1 \in 1 .. k /\ t + (i + 1) = received + i + 2
      BY <1>2, <2>1, <3>1
    <3>3. \A i \in 1 .. k - 1 : net[c][i + 1] = s[received + i + 2]
      BY <1>2, <3>2
    <3>4. Len(new) \in Nat /\ received + Len(new) = t + k - 2
      BY <1>2, <2>1, <3>1
    <3>5. \A i \in 1 .. Len(new) : new[i] = s[received + i + 2].n
      BY <3>1, <3>3
    <3>. QED  BY <3>1, <3>4, <3>5
  <2>2. CASE t >= 2
    <3>1. /\ new \in Seq(Nat) /\ Len(new) = k /\ received = t - 2
          /\ \A i \in 1 .. k : new[i] = net[c][i].n
      BY <1>1, <1>2, <1>3, <1>7, <2>2, CopiedFacts DEF WireInv
    <3>2. \A i \in 1 .. k : t + i = received + i + 2
      BY <1>2, <3>1
    <3>3. \A i \in 1 .. k : net[c][i] = s[received + i + 2]
      BY <1>2, <3>2
    <3>4. Len(new) \in Nat /\ received + Len(new) = t + k - 2
      BY <1>2, <2>2, <3>1
    <3>5. \A i \in 1 .. Len(new) : new[i] = s[received + i + 2].n
      BY <3>1, <3>3
    <3>. QED  BY <3>1, <3>4, <3>5
  <2>. QED  BY <1>2, <2>1, <2>2
<1> HIDE DEF new
<1>13. total = t + k - 2 /\ total \in Nat /\ total <= n * WordBytes /\ total <= BufBytes
  BY <1>1, <1>2, <1>6, <1>10, <1>12 DEF SetEffect, new
<1>14. done <=> Done(c)'
  <2>1. done = (total >= n * WordBytes)
    BY <1>3, <1>10 DEF SetEffect, Complete
  <2>2. total >= n * WordBytes <=> t + k = Len(s)
    <3>1. PICK bytes \in Nat : bytes = n * WordBytes
      BY <1>1
    <3>2. Len(s) = 2 + bytes /\ total = t + k - 2 /\ t + k <= Len(s)
      BY <1>1, <1>2, <1>13, <3>1
    <3>3. total >= bytes <=> t + k = 2 + bytes
      BY <1>2, <3>2
    <3>. QED  BY <3>1, <3>2, <3>3
  <2>. QED  BY <1>2, <2>1, <2>2
<1>15. done => total = n * WordBytes
  BY <1>1, <1>2, <1>13, <1>14
<1>16. old \in [1 .. BufBytes -> Nat]
  BY <1>1 DEF WireInv, ServerTypes, NoBytes, Junk
<1>17. /\ array = Placed(old, new)
       /\ \A i \in 1 .. BufBytes :
              /\ i \in 1 .. received => array[i] = old[i]
              /\ i \in received + 1 .. received + Len(new) => array[i] = new[i - received]
  <2>1. array = Placed(old, new)
    BY <1>10 DEF SetEffect, new
  <2>. QED  BY <1>6, <1>12, <1>16, <2>1, PlacedFacts
<1>18. torn'[ch] = (rip[ch] /\ (gone \/ torn[ch])) /\ \A x \in Channels : x # ch => torn'[x] = torn[x]
  BY <1>1, <1>10 DEF SetEffect, WireInv, ServerTypes
<1>19. torn'[ch] \/ \A i \in 1 .. total : array[i] = s[i + 2].n
  <2>1. SUFFICES ASSUME ~torn'[ch], NEW i \in 1 .. total PROVE array[i] = s[i + 2].n
    OBVIOUS
  <2>2. i \in 1 .. BufBytes /\ (i \in 1 .. received \/ i \in received + 1 .. received + Len(new))
    BY <1>6, <1>12, <1>13
  <2>3. CASE i \in 1 .. received
    <3>1. t >= 2 /\ received = t - 2
      BY <1>2, <1>3, <1>5, <2>3
    <3>2. ~gone /\ ~torn[ch]
      BY <1>3, <1>18, <2>1, <3>1
    <3>3. array[i] = stack[ch][i]
      BY <1>17, <2>2, <2>3, <3>2
    <3>. QED  BY <1>3, <2>3, <3>1, <3>2, <3>3
  <2>4. CASE i \in received + 1 .. received + Len(new)
    <3>1. PICK j \in 1 .. Len(new) : j = i - received /\ received + j + 2 = i + 2
      BY <1>6, <1>12, <2>4
    <3>2. array[i] = new[j] /\ new[j] = s[received + j + 2].n
      BY <1>12, <1>17, <2>2, <2>4, <3>1
    <3>. QED  BY <3>1, <3>2
  <2>. QED  BY <2>2, <2>3, <2>4
<1>20. rip' = [rip EXCEPT ![ch] = ~Done(c)']
  BY <1>10, <1>14 DEF SetEffect
<1>21. received' = IF Done(c)' THEN 0 ELSE total
  BY <1>10, <1>14 DEF SetEffect
<1>22. ~Done(c)' => stack'[ch] = array
  BY <1>1, <1>10, <1>14 DEF SetEffect, WireInv, ServerTypes
<1>23. /\ Done(c)' => dataset'[ch] = SubSeq(array, 1, total)
       /\ \A x \in Channels : x # ch => dataset'[x] = dataset[x]
  BY <1>1, <1>3, <1>10, <1>14, <1>15 DEF SetEffect, WireInv, ServerTypes
<1>24. Fills(c, ch, t + k - 2, array)
  BY <1>11, <1>13, <1>18, <1>19, <1>20, <1>21, <1>22, <1>23 DEF Fills, s
<1>. QED  BY <1>24 DEF ch, t

LEMMA WaveFacts ==
    ASSUME NEW c \in Conns, IsUpload(Scripts[c]), NEW array, NEW total, total = Len(Scripts[c]) - 2,
           \A i \in 1 .. total : array[i] = Scripts[c][i + 2].n
    PROVE  SubSeq(array, 1, total) = Wave(c)
<1> DEFINE s == Scripts[c]
           body == SubSeq(s, 3, Len(s))
<1>1. s \in Seq(Units) /\ Len(s) \in Nat /\ Len(s) >= 3 /\ \A i \in 3 .. Len(s) : s[i].n \in Nat
  BY UploadFacts, ScriptFacts
<1> HIDE DEF s
<1>2. total \in Nat /\ Len(s) - 3 + 1 = total /\ total >= 1
  BY <1>1 DEF s
<1>3. /\ body \in Seq(Units) /\ Len(body) = total
      /\ \A i \in 1 .. total : body[i] = s[3 + i - 1]
  <2>1. \A i \in 3 .. Len(s) : s[i] \in Units
    BY <1>1
  <2>2. 3 \in Int /\ Len(s) \in Int /\ 3 <= Len(s)
    BY <1>1
  <2>. QED  BY <1>2, <2>1, <2>2, SubSeqProperties
<1> HIDE DEF body
<1>4. /\ Bytes(body) \in Seq(Nat) /\ Len(Bytes(body)) = total
      /\ \A i \in 1 .. total : Bytes(body)[i] = body[i].n
  BY <1>3, BytesFacts
<1>5. ASSUME NEW i \in 1 .. total PROVE array[i] \in Nat /\ Bytes(body)[i] = array[i]
  <2>1. 3 + i - 1 = i + 2 /\ i + 2 \in 3 .. Len(s)
    BY <1>1, <1>2
  <2>2. body[i] = s[i + 2] /\ s[i + 2].n \in Nat
    BY <1>1, <1>3, <2>1
  <2>3. array[i] = s[i + 2].n
    BY DEF s
  <2>. QED  BY <1>4, <2>2, <2>3
<1>6. /\ SubSeq(array, 1, total) \in Seq(Nat) /\ Len(SubSeq(array, 1, total)) = total
      /\ \A i \in 1 .. total : SubSeq(array, 1, total)[i] = array[i]
  <2>1. \A i \in 1 .. total : array[i] \in Nat
    BY <1>5
  <2>2. 1 \in Int /\ total \in Int /\ 1 <= total /\ total - 1 + 1 = total
    BY <1>2
  <2>3. \A i \in 1 .. total : 1 + i - 1 = i
    BY <1>2
  <2>4. /\ SubSeq(array, 1, total) \in Seq(Nat) /\ Len(SubSeq(array, 1, total)) = total
        /\ \A i \in 1 .. total : SubSeq(array, 1, total)[i] = array[1 + i - 1]
    BY <2>1, <2>2, SubSeqProperties
  <2>. QED  BY <2>3, <2>4
<1>7. SubSeq(array, 1, total) = Bytes(body)
  BY <1>4, <1>5, <1>6, SeqEqual
<1>. QED  BY <1>7 DEF Wave, body, s

\* The command of an upload and its bytes.
LEMMA UploadBytesClean ==
    ASSUME WireInv, Clean, NEW c \in Conns, NEW k, NEW lost, Handle(c, k, lost),
           mishaps' = mishaps, IsUpload(Scripts[c]), Taken(c) > 0
    PROVE  Clean'
<1> DEFINE ch == Scripts[c][1].ch
<1>1. Takes(c, k) /\ OneByOne'
  BY RecvTakes, HandleTypes DEF WireInv
<1>2. PICK array : Fills(c, ch, Taken(c) + k - 2, array)
  BY <1>1, UploadFills
<1>3. ch \in Channels /\ c \in Uploaders(ch)
  BY UploadFacts
<1>4. /\ Taken(c) \in Nat /\ k \in Nat /\ k >= 1 /\ Taken(c)' = Taken(c) + k /\ Begun(c) /\ ~Done(c) /\ Begun(c)'
      /\ Done(c)' <=> Taken(c) + k = Len(Scripts[c])
  BY <1>1 DEF Takes, Begun
<1>5. PICK total : total = Taken(c) + k - 2 /\ total = Taken(c)' - 2 /\ Taken(c)' >= 2
  BY <1>4
<1>6. size[ch] = Scripts[c][1].n
  BY <1>4 DEF Clean, Progress
<1>7. /\ rip' = [rip EXCEPT ![ch] = ~Done(c)'] /\ size' = size /\ radio' = radio
      /\ \A x \in Channels : x # ch => torn'[x] = torn[x] /\ dataset'[x] = dataset[x]
      /\ torn'[ch] \/ \A i \in 1 .. total : array[i] = Scripts[c][i + 2].n
      /\ received' = IF Done(c)' THEN 0 ELSE total
      /\ ~Done(c)' => stack'[ch] = array
      /\ Done(c)' => dataset'[ch] = SubSeq(array, 1, total)
  BY <1>2, <1>5 DEF Fills
<1>8. rip'[ch] = ~Done(c)' /\ \A x \in Channels : x # ch => rip'[x] = FALSE
  <2>1. \A x \in Channels : rip[x] => x = ch
    BY <1>1, OnlyOne
  <2>. QED  BY <1>3, <1>7, <2>1 DEF WireInv, ServerTypes
<1> HIDE DEF ch
<1>9. ASSUME NEW b \in Conns PROVE Progress(b)'
  <2>1. CASE b = c
    <3>1. ASSUME ~Done(c)'
          PROVE  /\ size'[ch] = Scripts[c][1].n /\ rip'[ch] /\ received' = Taken(c)' - 2
                 /\ torn'[ch] \/ \A i \in 1 .. Taken(c)' - 2 : stack'[ch][i] = Scripts[c][i + 2].n
      BY <1>5, <1>6, <1>7, <1>8, <3>1
    <3>. QED  BY <2>1, <3>1 DEF Progress, ch
  <2>2. CASE b # c
    BY <1>1, <2>2 DEF Takes, Progress
  <2>. QED  BY <2>1, <2>2
<1>10. Receiving'
  <2>1. ASSUME NEW x \in Channels, rip'[x]
        PROVE  \E b \in Uploaders(x) : Begun(b)' /\ ~Done(b)' /\ Taken(b)' >= 2
    <3>1. x = ch /\ ~Done(c)'
      BY <1>8, <2>1
    <3>. QED  BY <1>3, <1>4, <1>5, <3>1
  <2>2. received' # 0 => \E x \in Channels : rip'[x]
    BY <1>3, <1>7, <1>8
  <2>. QED  BY <2>1, <2>2 DEF Receiving, Uploaders
<1>11. Done(c)' => torn'[ch] \/ dataset'[ch] = Wave(c)
  <2>1. SUFFICES ASSUME Done(c)', ~torn'[ch] PROVE dataset'[ch] = Wave(c)
    OBVIOUS
  <2>2. total = Len(Scripts[c]) - 2
    BY <1>4, <1>5, <2>1
  <2>3. \A i \in 1 .. total : array[i] = Scripts[c][i + 2].n
    BY <1>7, <2>1
  <2>. QED  BY <1>7, <2>1, <2>2, <2>3, WaveFacts
<1>12. Loaded' /\ Applied'
  BY <1>1, <1>7, <1>11, UploadOthers DEF ch
<1>. QED  BY <1>1, <1>9, <1>10, <1>12 DEF Clean

Inv == WireInv /\ CleanInv

LEMMA InitClean == Init => CleanInv
<1> SUFFICES ASSUME Init PROVE Clean
  BY DEF CleanInv
<1>1. \A c \in Conns : conn[c] = "new"
  BY DEF Init
<1>2. \A c \in Conns : ~Begun(c) /\ ~Done(c)
  BY <1>1 DEF Begun, Done
<1>3. OneByOne
  BY <1>1, <1>2 DEF OneByOne
<1>4. Receiving
  BY DEF Init, Receiving
<1>5. Loaded /\ Applied
  BY <1>2 DEF Loaded, Applied, Uploaders, Setters
<1>. QED  BY <1>2, <1>3, <1>4, <1>5 DEF Clean, Progress

LEMMA NextClean == Inv /\ [Next]_vars => CleanInv'
<1> SUFFICES ASSUME WireInv, CleanInv, [Next]_vars, mishaps' = 0 PROVE Clean'
  BY DEF CleanInv, Inv
<1> DEFINE Still == /\ UNCHANGED <<net, upload, radio>>
                    /\ \A c \in Conns : conn'[c] = "new" <=> conn[c] = "new"
<1>0. conn \in [Conns -> {"new", "open", "fin", "closing", "closed"}]
      /\ net \in [Conns -> Seq(Units)] /\ mishaps \in Nat
  BY BoundAssumption DEF WireInv, WireTypes
<1>1. ASSUME NEW c \in Conns, Accept(c) PROVE Clean'
  <2>1. Clean
    BY <1>1 DEF Accept, CleanInv
  <2>. QED  BY <1>1, <2>1, AcceptClean
<1>2. ASSUME NEW c \in Conns, ClientClose(c) \/ ClientGiveUp(c) PROVE mishaps = 0 /\ Still
  BY <1>0, <1>2 DEF ClientClose, ClientGiveUp, Leave, server, upload
<1>3. ASSUME NEW c \in Conns, Reset(c) PROVE mishaps = 0 /\ Still
  <2>1. net[c] = <<>> /\ mishaps = 0
    BY <1>0, <1>3 DEF Reset
  <2>2. net' = net
    BY <1>0, <1>3, <2>1 DEF Reset
  <2>. QED  BY <1>0, <1>3, <2>1, <2>2 DEF Reset, server, upload
<1>4. ASSUME NEW c \in Conns, CutCommand(c) PROVE FALSE
  BY <1>0, <1>4 DEF CutCommand
<1>5. ASSUME NEW c \in Conns, NEW k, NEW lost, Handle(c, k, lost) PROVE Clean'
  <2>1. mishaps' >= mishaps
    BY <1>5, HandleTypes, ReceivedFacts DEF WireInv
  <2>2. mishaps = 0 /\ mishaps' = mishaps /\ Clean
    BY <1>0, <2>1 DEF CleanInv
  <2>3. CASE IsRequest(Scripts[c])
    BY <1>5, <2>2, <2>3, RequestClean
  <2>4. CASE IsUpload(Scripts[c])
    <3>1. Taken(c) \in Nat
      BY <1>5, <2>2, RecvTakes, HandleTypes DEF WireInv, Takes
    <3>2. Taken(c) = 0 \/ Taken(c) > 0
      BY <3>1
    <3>. QED  BY <1>5, <2>2, <2>4, <3>2, UploadSizeClean, UploadBytesClean
  <2>. QED  BY <2>3, <2>4, ScriptFacts
<1>6. ASSUME NEW c \in Conns, Close(c) PROVE mishaps = 0 /\ Still
  BY <1>0, <1>6 DEF Close
<1>7. ASSUME NEW c \in Conns, NEW n \in 1 .. SndBuf, SendCallback(c, n) PROVE mishaps = 0 /\ Still
  <2>1. /\ conn' = IF conn[c] = "closing" /\ n = unacked[c]
                   THEN [conn EXCEPT ![c] = "closed"] ELSE conn
        /\ UNCHANGED <<net, upload, radio, mishaps>>
    BY <1>7, SendEffectOf
  <2>. QED  BY <1>0, <2>1
<1>8. CASE UNCHANGED vars
  <2>1. mishaps = 0 /\ Still
    BY <1>8 DEF vars, server, upload
  <2>. QED  BY <2>1, StillClean DEF CleanInv
<1>9. ASSUME mishaps = 0, Still PROVE Clean'
  BY <1>9, StillClean DEF CleanInv
<1>. QED  BY <1>1, <1>2, <1>3, <1>4, <1>5, <1>6, <1>7, <1>8, <1>9 DEF Next, RecvCallback

LEMMA InvHolds == Spec => []Inv
<1>1. Init => Inv
  BY InitWire, InitClean DEF Inv
<1>2. Inv /\ [Next]_vars => Inv'
  BY NextWire, NextClean DEF Inv
<1>. QED  BY <1>1, <1>2, PTL DEF Spec

\* While nothing is on its way, a client whose stream was written is done.
LEMMA LatestFacts ==
    ASSUME Idle, NEW S, S \subseteq Conns, NEW c \in Latest(S)
    PROVE  c \in S /\ Done(c) /\ \A d \in S : d > c => ~Begun(d)
BY DEF Idle, Latest, Done, Begun

\* Without a mishap each channel plays the waveform last sent to it, in however
\* many segments, whole or cut in a word, it came, unless the local array was
\* overwritten between two callbacks (echo.c:259-314).
THEOREM UploadsAreLoaded == Spec => []UploadLoaded
<1>1. Inv => UploadLoaded
  <2> SUFFICES ASSUME Inv, mishaps = 0, Idle, NEW ch \in Channels, NEW c \in Latest(Uploaders(ch))
               PROVE  torn[ch] \/ dataset[ch] = Wave(c)
    BY DEF UploadLoaded
  <2>1. c \in Uploaders(ch) /\ Done(c) /\ \A d \in Uploaders(ch) : d > c => ~Begun(d)
    BY LatestFacts DEF Uploaders
  <2>. QED  BY <2>1 DEF Inv, CleanInv, Clean, Loaded
<1>. QED  BY <1>1, InvHolds, PTL

\* Without a mishap every setting is the number last sent for it, exactly or
\* followed by digits left over in dest (echo.c:315-405): no upload swallows it.
THEOREM SettingsAreApplied == Spec => []SettingsApplied
<1>1. Inv => SettingsApplied
  <2> SUFFICES ASSUME Inv, mishaps = 0, Idle, NEW key \in Settings, NEW c \in Latest(Setters(key))
               PROVE  radio[key] \in Readings(key, Scripts[c][1].n)
    BY DEF SettingsApplied
  <2>1. c \in Setters(key) /\ Done(c) /\ \A d \in Setters(key) : d > c => ~Begun(d)
    BY LatestFacts DEF Setters
  <2>. QED  BY <2>1 DEF Inv, CleanInv, Clean, Applied
<1>. QED  BY <1>1, InvHolds, PTL
============================================================================
