------------------------- MODULE ChannelReaderProofs ------------------------
(***************************************************************************)
(* What readChannelMsg guarantees whatever bytes arrive, torn packets      *)
(* included: it never looks at or past the end of the data for a header,   *)
(* never fills its buffer, and never sits on a whole packet.  And, as long *)
(* as none is torn, that packets come out as PacketPipe promises.          *)
(***************************************************************************)
EXTENDS ChannelReader, SequenceTheorems, TLAPS

\* The invariant holds of the empty buffer ant_init finds.
LEMMA InitStep == Init => IInv
  <1> SUFFICES ASSUME Init PROVE IInv
    OBVIOUS
  <1>1. TypeOK
    <2>1. \A S : <<>> \in Seq(S)
      OBVIOUS
    <2>2. /\ stream \in Seq(Byte)
          /\ buffer \in Seq(Byte) /\ Len(buffer) <= BufferSize
          /\ inTransit \in Seq(Packets)
      BY <2>1, SizesAssumption DEF Init
    <2>3. handled \in Seq(Entry)
      BY <2>1 DEF Init
    <2>4. offset \in 0 .. BufferSize /\ sent \in 0 .. MaxPackets
      BY SizesAssumption, BoundsAssumption DEF Init
    <2>5. pc \in {"poll", "scan"} /\ torn \in BOOLEAN
      BY DEF Init
    <2> QED
      BY <2>2, <2>3, <2>4, <2>5 DEF TypeOK
  <1>2. ScanInv /\ NoWholePacketKept /\ RoomToRead
    BY SizesAssumption DEF Init, ScanInv, NoWholePacketKept, RoomToRead
  <1> QED
    BY <1>1, <1>2 DEF IInv

\* Cutting a sequence of bytes at n leaves two sequences of bytes.
LEMMA Cut ==
  ASSUME NEW s \in Seq(Byte), NEW n \in 0 .. Len(s)
  PROVE  /\ SubSeq(s, 1, n) \in Seq(Byte) /\ Len(SubSeq(s, 1, n)) = n
         /\ SubSeq(s, n + 1, Len(s)) \in Seq(Byte)
         /\ Len(SubSeq(s, n + 1, Len(s))) = Len(s) - n
         /\ n < Len(s) => SubSeq(s, n + 1, Len(s))[1] = s[n + 1]
  OBVIOUS

\* readChannelMsg's read and its first test.
LEMMA ReadStep == IInv /\ Read => IInv'
  <1> SUFFICES ASSUME IInv, Read PROVE IInv'
    OBVIOUS
  <1> USE SizesAssumption, BoundsAssumption
  <1>1. PICK n \in 1 .. Len(stream) :
          /\ n <= BufferSize - Len(buffer)
          /\ buffer' = buffer \o SubSeq(stream, 1, n)
          /\ stream' = SubSeq(stream, n + 1, Len(stream))
    BY DEF Read
  <1>2. stream \in Seq(Byte) /\ buffer \in Seq(Byte)
    BY DEF IInv, TypeOK
  <1>3. SubSeq(stream, 1, n) \in Seq(Byte) /\ Len(SubSeq(stream, 1, n)) = n
    BY <1>2, Cut
  <1>4. stream' \in Seq(Byte)
    BY <1>1, <1>2, Cut
  <1>5. /\ buffer' \in Seq(Byte)
        /\ Len(buffer') = Len(buffer) + n
        /\ Len(buffer') <= BufferSize
    BY <1>1, <1>2, <1>3
  <1>6. buffer' # <<>> /\ buffer'[1] \in Byte
    BY <1>2, <1>5
  <1>7. TypeOK'
    BY <1>4, <1>5 DEF IInv, TypeOK, Read
  <1>8. ScanInv' /\ NoWholePacketKept'
    <2>1. offset' = 0 /\ pc' = IF Whole(buffer', 0) THEN "scan" ELSE "poll"
      BY DEF Read
    <2> QED
      BY <1>5, <1>6, <2>1 DEF ScanInv, NoWholePacketKept, Whole, End
  <1>9. RoomToRead'
    BY <1>5, <1>6 DEF Read, RoomToRead, Whole, End, Byte
  <1> QED
    BY <1>7, <1>8, <1>9 DEF IInv

\* A packet goes to its destination and the loop moves past it.
LEMMA HandleStep == IInv /\ HandlePacket => IInv'
  <1> SUFFICES ASSUME IInv, HandlePacket PROVE IInv'
    OBVIOUS
  <1>1. /\ buffer \in Seq(Byte) /\ offset \in Nat /\ offset < Len(buffer)
        /\ Len(buffer) <= BufferSize
    BY SizesAssumption DEF IInv, TypeOK, HandlePacket, AtPacket
  <1>2. buffer[offset + 1] \in Nat
    BY <1>1, SizesAssumption DEF Byte
  <1>3. End(buffer, offset) \in Nat /\ offset < End(buffer, offset)
        /\ End(buffer, offset) <= Len(buffer)
    <2>1. End(buffer, offset) <= Len(buffer)
      BY DEF HandlePacket, Whole
    <2>2. End(buffer, offset) = offset + 1 + buffer[offset + 1]
      BY DEF End
    <2> QED
      BY <1>1, <1>2, <2>1, <2>2
  <1>4. SubSeq(buffer, offset + 1, End(buffer, offset)) \in Seq(Byte)
    BY <1>1, <1>3
  <1>5. PICK to \in Destination :
          handled' = Append(handled,
            [to |-> to, packet |-> SubSeq(buffer, offset + 1, End(buffer, offset))])
    BY DEF HandlePacket, Destinations
  <1>6. handled' \in Seq(Entry)
    <2> DEFINE new == [to |-> to, packet |-> SubSeq(buffer, offset + 1, End(buffer, offset))]
    <2>1. new \in Entry
      BY <1>4 DEF Entry
    <2>2. handled \in Seq(Entry)
      BY DEF IInv, TypeOK
    <2> HIDE DEF new
    <2>3. Append(handled, new) \in Seq(Entry)
      BY <2>1, <2>2
    <2> QED
      BY <1>5, <2>3 DEF new
  <1>7. inTransit' \in Seq(Packets)
    BY DEF HandlePacket, IInv, TypeOK
  <1>8. TypeOK'
    <2>1. offset' \in 0 .. BufferSize
      BY <1>1, <1>3, SizesAssumption DEF HandlePacket
    <2>2. UNCHANGED <<stream, buffer, pc, sent, torn>>
      BY DEF HandlePacket
    <2> QED
      BY <1>6, <1>7, <2>1, <2>2 DEF IInv, TypeOK
  <1>9. ScanInv' /\ NoWholePacketKept' /\ RoomToRead'
    BY <1>1, <1>3 DEF HandlePacket, AtPacket, ScanInv, NoWholePacketKept, RoomToRead
  <1> QED
    BY <1>8, <1>9 DEF IInv

\* A moved rest is as long as the rest and made of the same bytes.
LEMMA MovedRest ==
  ASSUME NEW s \in Seq(Byte), NEW d \in Nat, d > 0, NEW t \in Moved(s, d)
  PROVE  t \in Seq(Byte) /\ Len(t) = Len(s)
  <1>1. CASE t = s
    BY <1>1
  <1>2. CASE t = [i \in 1 .. Len(s) |-> s[i + ((Len(s) - i) \div d) * d]]
    <2>1. ASSUME NEW i \in 1 .. Len(s)
          PROVE  i + ((Len(s) - i) \div d) * d \in 1 .. Len(s)
      <3> DEFINE q == (Len(s) - i) \div d
      <3>1. Len(s) - i \in Nat
        OBVIOUS
      <3>2. q \in Nat /\ q * d <= Len(s) - i
        BY <3>1
      <3>3. q * d \in Nat
        BY <3>2
      <3> HIDE DEF q
      <3>4. i + q * d \in 1 .. Len(s)
        BY <3>2, <3>3
      <3> QED
        BY <3>4 DEF q
    <2>2. \A i \in 1 .. Len(s) : t[i] \in Byte
      BY <1>2, <2>1
    <2> QED
      BY <1>2, <2>2
  <1> QED
    BY <1>1, <1>2 DEF Moved

\* The incomplete rest of the data is kept for the next call.
LEMMA KeepStep == IInv /\ KeepRest => IInv'
  <1> SUFFICES ASSUME IInv, KeepRest PROVE IInv'
    OBVIOUS
  <1> DEFINE rest == SubSeq(buffer, offset + 1, Len(buffer))
  <1>1. /\ buffer \in Seq(Byte) /\ offset \in Nat /\ offset < Len(buffer)
        /\ Len(buffer) <= BufferSize /\ ~Whole(buffer, offset)
    BY SizesAssumption DEF IInv, TypeOK, KeepRest, AtPacket
  <1>2. offset > 0
    BY <1>1 DEF IInv, ScanInv, KeepRest, AtPacket
  <1>3. /\ rest \in Seq(Byte) /\ Len(rest) = Len(buffer) - offset
        /\ rest[1] = buffer[offset + 1]
    BY <1>1, Cut
  <1>4. buffer' \in Moved(rest, offset) /\ torn' = (torn \/ buffer' # rest)
    BY DEF KeepRest
  <1> HIDE DEF rest
  <1>5. buffer' \in Seq(Byte) /\ Len(buffer') = Len(buffer) - offset
    BY <1>1, <1>2, <1>3, <1>4, MovedRest
  <1>6. TypeOK'
    <2>1. torn' \in BOOLEAN
      BY <1>4 DEF IInv, TypeOK
    <2>2. offset' = 0 /\ pc' = "poll" /\ UNCHANGED <<stream, sent, inTransit, handled>>
      BY DEF KeepRest
    <2> QED
      BY <1>1, <1>5, <2>1, <2>2, SizesAssumption DEF IInv, TypeOK
  <1>7. ScanInv'
    BY DEF KeepRest, ScanInv
  <1>8. RoomToRead'
    BY <1>1, <1>2, <1>5, SizesAssumption DEF RoomToRead
  <1>9. ASSUME ~torn' PROVE ~Whole(buffer', 0)
    <2>1. buffer' = rest
      BY <1>4, <1>9
    <2>2. buffer[offset + 1] \in Nat
      BY <1>1, SizesAssumption DEF Byte
    <2> QED
      BY <1>1, <1>3, <2>1, <2>2 DEF Whole, End
  <1> QED
    BY <1>6, <1>7, <1>8, <1>9 DEF IInv, NoWholePacketKept

\* The steps that do not look at packets.
LEMMA OtherSteps == IInv /\ (ScanDone \/ ChipSends \/ RadioResets) => IInv'
  <1> SUFFICES ASSUME IInv, ScanDone \/ ChipSends \/ RadioResets PROVE IInv'
    OBVIOUS
  <1>1. CASE ScanDone
    <2>1. <<>> \in Seq(Byte) /\ Len(<<>>) = 0
      OBVIOUS
    <2> QED
      BY <1>1, <2>1, SizesAssumption
         DEF ScanDone, IInv, TypeOK, ScanInv, NoWholePacketKept, RoomToRead
  <1>2. CASE ChipSends
    <2>1. PICK p \in Packets : stream' = stream \o p /\ inTransit' = Append(inTransit, p)
      BY <1>2 DEF ChipSends
    <2>2. stream' \in Seq(Byte)
      BY <2>1, PacketsAssumption DEF IInv, TypeOK
    <2>3. inTransit' \in Seq(Packets)
      BY <2>1 DEF IInv, TypeOK
    <2>4. sent' \in 0 .. MaxPackets
      BY <1>2, BoundsAssumption DEF ChipSends, IInv, TypeOK
    <2>5. UNCHANGED <<buffer, offset, pc, handled, torn>>
      BY <1>2 DEF ChipSends
    <2> QED
      BY <2>2, <2>3, <2>4, <2>5
         DEF IInv, TypeOK, ScanInv, NoWholePacketKept, RoomToRead, Whole, End
  <1>3. CASE RadioResets
    <2>1. \A S : <<>> \in Seq(S)
      OBVIOUS
    <2>2. torn' \in BOOLEAN /\ (~torn' => ~torn /\ buffer = <<>>)
      BY <1>3 DEF RadioResets, IInv, TypeOK
    <2>3. /\ stream' = <<>> /\ inTransit' = <<>> /\ pc = "poll"
          /\ UNCHANGED <<buffer, offset, pc, sent, handled>>
      BY <1>3 DEF RadioResets
    <2> QED
      BY <2>1, <2>2, <2>3
         DEF IInv, TypeOK, ScanInv, NoWholePacketKept, RoomToRead, Whole, End
  <1> QED
    BY <1>1, <1>2, <1>3

\* The inductive invariant holds for every size of buffer that takes the
\* largest packet, every set of packets, and however they are cut and torn.
THEOREM ReaderInvariant == Spec => []IInv
  <1>1. IInv /\ [Next]_vars => IInv'
    <2> SUFFICES ASSUME IInv, [Next]_vars PROVE IInv'
      OBVIOUS
    <2>1. CASE RxStep
      BY <2>1, ReadStep, HandleStep, KeepStep, OtherSteps DEF RxStep
    <2>2. CASE ChipSends \/ RadioResets
      BY <2>2, OtherSteps
    <2>3. CASE UNCHANGED vars
      BY <2>3 DEF vars, IInv, TypeOK, ScanInv, NoWholePacketKept, RoomToRead, Whole, End
    <2> QED
      BY <2>1, <2>2, <2>3 DEF Next
  <1> QED
    BY InitStep, <1>1, PTL DEF Spec

\* Every variable keeps its type; in particular readChannelMsg never puts more
\* into its buffer than it holds.
THEOREM ReaderTypes == Spec => []TypeOK
  BY ReaderInvariant, PTL DEF IInv

\* read() is never asked for zero bytes, however the stream was torn.
THEOREM AlwaysRoom == Spec => []RoomToRead
  BY ReaderInvariant, PTL DEF IInv

\* A whole packet is handled by the call that completes it.
THEOREM NoneKeptWhole == Spec => []NoWholePacketKept
  BY ReaderInvariant, PTL DEF IInv

-----------------------------------------------------------------------------
(* The reader keeps what PacketPipe promises: the bytes not handled yet    *)
(* are the packets in transit, one after the other.                        *)

\* Sequence d is the packets of Q one after the other: packet i ends at c[i].
CutAt(d, Q, c) ==
  /\ c \in [0 .. Len(Q) -> Int]
  /\ c[0] = 0 /\ c[Len(Q)] = Len(d)
  /\ \A i, j \in 0 .. Len(Q) : i <= j => c[i] <= c[j]
  /\ \A i \in 1 .. Len(Q) :
        /\ c[i] = c[i - 1] + Len(Q[i])
        /\ \A k \in 1 .. Len(Q[i]) : d[c[i - 1] + k] = Q[i][k]

InOrder(d, Q) == \E c : CutAt(d, Q, c)

\* Bytes read and not handled, then those not read.
Unhandled == SubSeq(buffer, offset + 1, Len(buffer)) \o stream

StreamInv == /\ pc = "poll" => offset = 0
             /\ ~torn => InOrder(Unhandled, inTransit)

LEMMA LengthOf == ASSUME NEW S, NEW s \in Seq(S) PROVE Len(s) \in Nat
  OBVIOUS

\* A packet sent is added at the end.
LEMMA Added ==
  ASSUME NEW d \in Seq(Byte), NEW Q \in Seq(Packets), InOrder(d, Q), NEW p \in Packets
  PROVE  InOrder(d \o p, Append(Q, p))
<1>1. PICK c : CutAt(d, Q, c)
  BY DEF InOrder
<1>2. PICK n \in Nat : n = Len(Q)
  BY LengthOf
<1>3. PICK m \in Nat : m = Len(d)
  BY LengthOf
<1>4. p \in Seq(Byte)
  BY PacketsAssumption
<1>5. PICK l \in Nat : l = Len(p)
  BY <1>4, LengthOf
<1> DEFINE R == Append(Q, p)
           e == [i \in 0 .. n + 1 |-> IF i = n + 1 THEN m + l ELSE c[i]]
<1>6. Len(R) = n + 1 /\ R[n + 1] = p /\ \A i \in 1 .. n : R[i] = Q[i]
  BY <1>2
<1>7. /\ Len(d \o p) = m + l
      /\ \A k \in 1 .. m : (d \o p)[k] = d[k]
      /\ \A k \in 1 .. l : (d \o p)[m + k] = p[k]
  BY <1>3, <1>4, <1>5
<1>8. \A i \in 1 .. n : Q[i] \in Packets /\ Q[i] \in Seq(Byte)
  BY <1>2, PacketsAssumption
<1> HIDE DEF R
<1>9. /\ c \in [0 .. n -> Int] /\ c[0] = 0 /\ c[n] = m
      /\ \A i, j \in 0 .. n : i <= j => c[i] <= c[j]
      /\ \A i \in 1 .. n : /\ c[i] = c[i - 1] + Len(Q[i])
                           /\ \A k \in 1 .. Len(Q[i]) : d[c[i - 1] + k] = Q[i][k]
  BY <1>1, <1>2, <1>3 DEF CutAt
<1>10. e \in [0 .. n + 1 -> Int] /\ e[0] = 0 /\ e[n + 1] = m + l
  BY <1>9
<1>11. e[n] = m /\ \A i \in 0 .. n : e[i] = c[i]
  BY <1>9
<1>12. ASSUME NEW i \in 0 .. n + 1, NEW j \in 0 .. n + 1, i <= j PROVE e[i] <= e[j]
  BY <1>9, <1>12
<1> HIDE DEF e
<1>13. ASSUME NEW i \in 1 .. n + 1
       PROVE  /\ e[i] = e[i - 1] + Len(R[i])
              /\ \A k \in 1 .. Len(R[i]) : (d \o p)[e[i - 1] + k] = R[i][k]
  <2>1. CASE i = n + 1
    <3>1. e[i] = m + l /\ e[i - 1] = m /\ R[i] = p
      BY <1>6, <1>10, <1>11, <2>1
    <3>2. \A k \in 1 .. Len(R[i]) : (d \o p)[e[i - 1] + k] = R[i][k]
      BY <1>5, <1>7, <3>1
    <3>3. Len(R[i]) = l
      BY <1>5, <3>1
    <3>4. e[i] = e[i - 1] + Len(R[i])
      BY <3>1, <3>3
    <3> QED
      BY <3>2, <3>4
  <2>2. CASE i \in 1 .. n
    <3>1. PICK q \in Nat : q = Len(Q[i])
      BY <1>8, <2>2, LengthOf
    <3>2. e[i] = c[i] /\ e[i - 1] = c[i - 1] /\ R[i] = Q[i]
      BY <1>6, <1>11, <2>2
    <3>3. c[i - 1] \in Nat /\ c[i - 1] + q <= m
      BY <1>9, <2>2, <3>1
    <3>4. ASSUME NEW k \in 1 .. q PROVE (d \o p)[c[i - 1] + k] = Q[i][k]
      <4>1. c[i - 1] + k \in 1 .. m
        BY <3>3
      <4>2. d[c[i - 1] + k] = Q[i][k]
        BY <1>9, <2>2, <3>1
      <4> QED
        BY <1>7, <4>1, <4>2
    <3>5. c[i] = c[i - 1] + Len(Q[i])
      BY <1>9, <2>2
    <3> QED
      BY <3>1, <3>2, <3>4, <3>5
  <2>3. i = n + 1 \/ i \in 1 .. n
    OBVIOUS
  <2> QED
    BY <2>1, <2>2, <2>3
<1>14. CutAt(d \o p, R, e)
  BY <1>6, <1>7, <1>10, <1>12, <1>13 DEF CutAt
<1> QED
  BY <1>14 DEF InOrder, R

\* Packets have a size and more, and the size is right.
LEMMA PacketBytes ==
  ASSUME NEW p \in Packets
  PROVE  /\ p \in Seq(Byte) /\ Len(p) \in Nat /\ Len(p) >= 3 /\ Len(p) = p[1] + 1
         /\ \A k \in 1 .. Len(p) : p[k] \in Byte
  BY PacketsAssumption DEF IsPacket

\* What is cut off the front of d is the first of the packets, if its size byte
\* says so.
LEMMA Removed ==
  ASSUME NEW d \in Seq(Byte), NEW Q \in Seq(Packets), InOrder(d, Q),
         d # <<>>, d[1] + 1 <= Len(d)
  PROVE  /\ Q # <<>> /\ Head(Q) = SubSeq(d, 1, d[1] + 1)
         /\ InOrder(SubSeq(d, d[1] + 2, Len(d)), Tail(Q))
<1>1. PICK c : CutAt(d, Q, c)
  BY DEF InOrder
<1>2. PICK n \in Nat : n = Len(Q)
  BY LengthOf
<1>3. PICK m \in Nat : m = Len(d) /\ m > 0
  BY LengthOf
<1>4. n > 0
  BY <1>1, <1>2, <1>3 DEF CutAt
<1>5. PICK p \in Packets : p = Q[1] /\ Head(Q) = p /\ Q # <<>>
  BY <1>2, <1>4
<1>6. PICK l \in Nat : l = Len(p) /\ l >= 3
  BY PacketBytes
<1>7. /\ c \in [0 .. n -> Int] /\ c[0] = 0 /\ c[n] = m
      /\ \A i, j \in 0 .. n : i <= j => c[i] <= c[j]
      /\ \A i \in 1 .. n : /\ c[i] = c[i - 1] + Len(Q[i])
                           /\ \A k \in 1 .. Len(Q[i]) : d[c[i - 1] + k] = Q[i][k]
  BY <1>1, <1>2, <1>3 DEF CutAt
<1>8. c[1] = l /\ \A k \in 1 .. l : d[k] = p[k]
  <2>1. 1 \in 1 .. n /\ 1 - 1 = 0
    BY <1>4
  <2>2. c[1] = c[0] + l /\ \A k \in 1 .. l : d[c[0] + k] = p[k]
    BY <1>5, <1>6, <1>7, <2>1
  <2>3. c[1] = l
    BY <1>6, <1>7, <2>2
  <2>4. ASSUME NEW k \in 1 .. l PROVE d[k] = p[k]
    <3>1. c[0] + k = k
      BY <1>7
    <3>2. d[c[0] + k] = p[k]
      BY <2>2
    <3> QED
      BY <3>1, <3>2
  <2> QED
    BY <2>3, <2>4
<1>9. d[1] = p[1] /\ d[1] \in Nat /\ d[1] + 1 = l /\ d[1] + 2 = l + 1
  <2>1. d[1] = p[1] /\ l = p[1] + 1
    BY <1>6, <1>8, PacketBytes
  <2>2. p[1] \in Byte
    BY <1>6, PacketBytes
  <2>3. p[1] \in Nat
    BY <2>2, SizesAssumption DEF Byte
  <2> QED
    BY <2>1, <2>3
<1>10. l <= m /\ SubSeq(d, 1, l) = p
  BY <1>3, <1>6, <1>8, <1>9, PacketBytes
<1> DEFINE r == SubSeq(d, l + 1, m)
           R == Tail(Q)
           e == [i \in 0 .. n - 1 |-> c[i + 1] - l]
<1>11. Len(r) = m - l /\ \A k \in 1 .. m - l : r[k] = d[l + k]
  BY <1>3, <1>6, <1>10
<1>12. Len(R) = n - 1 /\ \A i \in 1 .. n - 1 : R[i] = Q[i + 1]
  BY <1>2, <1>4
<1>13. /\ e \in [0 .. n - 1 -> Int] /\ e[0] = 0 /\ e[n - 1] = m - l
       /\ \A i \in 0 .. n - 1 : e[i] = c[i + 1] - l
  <2>1. \A i \in 0 .. n - 1 : i + 1 \in 0 .. n /\ c[i + 1] \in Int
    BY <1>7
  <2>2. (n - 1) + 1 = n /\ 0 \in 0 .. n - 1 /\ n - 1 \in 0 .. n - 1
    BY <1>4
  <2> QED
    BY <1>7, <1>8, <2>1, <2>2
<1> HIDE DEF r, R, e
<1>14. ASSUME NEW i \in 0 .. n - 1, NEW j \in 0 .. n - 1, i <= j PROVE e[i] <= e[j]
  <2>1. i + 1 \in 0 .. n /\ j + 1 \in 0 .. n /\ i + 1 <= j + 1
    BY <1>14
  <2>2. PICK a \in Int, b \in Int : a = c[i + 1] /\ b = c[j + 1]
    BY <1>7, <2>1
  <2>3. a <= b
    BY <1>7, <2>1, <2>2
  <2>4. e[i] = a - l /\ e[j] = b - l
    BY <1>13, <2>2
  <2> QED
    BY <2>3, <2>4
<1>15. ASSUME NEW i \in 1 .. n - 1
       PROVE  /\ e[i] = e[i - 1] + Len(R[i])
              /\ \A k \in 1 .. Len(R[i]) : r[e[i - 1] + k] = R[i][k]
  <2>1. Q[i + 1] \in Packets
    BY <1>2
  <2>2. PICK q \in Nat : q = Len(Q[i + 1])
    BY <2>1, PacketBytes
  <2>3. /\ i + 1 \in 1 .. n /\ (i + 1) - 1 = i /\ (i - 1) + 1 = i
        /\ i \in 0 .. n - 1 /\ i - 1 \in 0 .. n - 1
        /\ 1 \in 0 .. n /\ i \in 0 .. n /\ i + 1 \in 0 .. n /\ n \in 0 .. n
    OBVIOUS
  <2>4. PICK a \in Int, b \in Int : a = c[i] /\ b = c[i + 1]
    BY <1>7, <2>3
  <2>5. b = a + q /\ l <= a /\ b <= m
    <3>1. c[i + 1] = c[(i + 1) - 1] + Len(Q[i + 1])
      BY <1>7, <2>3
    <3>2. c[1] <= c[i] /\ c[i + 1] <= c[n]
      BY <1>7, <2>3
    <3> QED
      BY <1>7, <1>8, <2>2, <2>3, <2>4, <3>1, <3>2
  <2>6. e[i] = b - l /\ e[i - 1] = a - l /\ R[i] = Q[i + 1]
    BY <1>12, <1>13, <2>3, <2>4
  <2>7. \A k \in 1 .. q : d[a + k] = Q[i + 1][k]
    <3>1. \A k \in 1 .. Len(Q[i + 1]) : d[c[(i + 1) - 1] + k] = Q[i + 1][k]
      BY <1>7, <2>3, ZenonT(40)
    <3>2. c[(i + 1) - 1] = a /\ Len(Q[i + 1]) = q
      BY <2>2, <2>3, <2>4
    <3> QED
      BY <3>1, <3>2, ZenonT(40)
  <2>8. ASSUME NEW k \in 1 .. q PROVE r[(a - l) + k] = d[a + k]
    <3>1. (a - l) + k \in 1 .. m - l /\ l + ((a - l) + k) = a + k
      BY <2>5
    <3> QED
      BY <1>11, <3>1
  <2>9. e[i] = e[i - 1] + Len(R[i])
    BY <2>2, <2>5, <2>6
  <2>10. \A k \in 1 .. q : r[e[i - 1] + k] = R[i][k]
    BY <2>6, <2>7, <2>8
  <2> QED
    BY <2>2, <2>6, <2>9, <2>10
<1>16. CutAt(r, R, e)
  BY <1>11, <1>12, <1>13, <1>14, <1>15 DEF CutAt
<1>17. InOrder(r, R)
  BY <1>16 DEF InOrder
<1> QED
  BY <1>3, <1>5, <1>9, <1>10, <1>17 DEF r, R

-----------------------------------------------------------------------------
(* What the steps of the reader do to the bytes not handled yet.           *)

LEMMA NoneSent == InOrder(<<>>, <<>>)
<1> DEFINE c == [i \in 0 .. 0 |-> 0]
<1>1. CutAt(<<>>, <<>>, c)
  BY DEF CutAt
<1> QED
  BY <1>1 DEF InOrder

LEMMA Associative ==
  ASSUME NEW s \in Seq(Byte), NEW t \in Seq(Byte), NEW u \in Seq(Byte)
  PROVE  /\ s \o t \in Seq(Byte) /\ t \o u \in Seq(Byte)
         /\ (s \o t) \o u = s \o (t \o u)
<1>1. s \o t \in Seq(Byte) /\ t \o u \in Seq(Byte)
  BY ConcatProperties
<1> QED
  BY <1>1, ConcatAssociative

\* Reading moves bytes from the driver to the buffer.
LEMMA Regrouped ==
  ASSUME NEW b \in Seq(Byte), NEW s \in Seq(Byte), NEW n \in 1 .. Len(s)
  PROVE  (b \o SubSeq(s, 1, n)) \o SubSeq(s, n + 1, Len(s)) = b \o s
<1>1. PICK f : f = SubSeq(s, 1, n)
  OBVIOUS
<1>2. PICK g : g = SubSeq(s, n + 1, Len(s))
  OBVIOUS
<1>3. f \in Seq(Byte) /\ g \in Seq(Byte)
  BY <1>1, <1>2, Cut
<1>4. f \o g = s
  <2>1. 1 \in 1 .. Len(s) + 1 /\ n \in 1 - 1 .. Len(s) /\ Len(s) \in n .. Len(s)
    OBVIOUS
  <2> QED
    BY <1>1, <1>2, <2>1, ConcatAdjacentSubSeq, SubSeqFull
<1>5. (b \o f) \o g = b \o (f \o g)
  BY <1>3, Associative, SMTT(30)
<1> QED
  BY <1>1, <1>2, <1>4, <1>5

\* What follows s in s \o t is t.
LEMMA Behind ==
  ASSUME NEW s \in Seq(Byte), NEW t \in Seq(Byte)
  PROVE  SubSeq(s \o t, Len(s) + 1, Len(s \o t)) = t
<1>1. PICK n \in Nat, m \in Nat :
        n = Len(s) /\ m = Len(t) /\ Len(s \o t) = n + m
  OBVIOUS
<1>2. CASE m = 0
  <2>1. t = <<>> /\ n + m < n + 1 /\ n + m \in Int /\ n + 1 \in Int
    BY <1>1, <1>2
  <2> QED
    BY <1>1, <2>1, SubSeqEmpty
<1>3. CASE m > 0
  <2>1. /\ n + 1 \in Len(s) + 1 .. Len(s) + Len(t)
        /\ n + m \in Len(s) + 1 .. Len(s) + Len(t)
        /\ (n + 1) - Len(s) = 1 /\ (n + m) - Len(s) = m
    BY <1>1, <1>3
  <2>2. SubSeq(s \o t, n + 1, n + m) = SubSeq(t, (n + 1) - Len(s), (n + m) - Len(s))
    BY <2>1, SubSeqOfConcat2
  <2> QED
    BY <1>1, <2>1, <2>2, SubSeqFull
<1> QED
  BY <1>2, <1>3

LEMMA InFront ==
  ASSUME NEW s \in Seq(Byte), s # <<>>, NEW t \in Seq(Byte)
  PROVE  /\ Len(s) <= Len(s \o t) /\ (s \o t)[1] = s[1]
         /\ SubSeq(s \o t, 1, Len(s)) = s
<1>1. PICK n \in Nat : n = Len(s) /\ n > 0
  BY LengthOf
<1>2. 1 \in 1 .. Len(s) /\ n \in 1 .. Len(s)
  BY <1>1
<1>3. SubSeq(s \o t, 1, n) = SubSeq(s, 1, n)
  BY <1>2, SubSeqOfConcat1
<1>4. Len(s) <= Len(s \o t) /\ (s \o t)[1] = s[1]
  BY <1>1
<1> QED
  BY <1>1, <1>3, <1>4, SubSeqFull

\* The two parts of what the buffer holds from offset o on.
LEMMA TwoParts ==
  ASSUME NEW b \in Seq(Byte), NEW o \in Nat, NEW e \in Nat, o < e, e <= Len(b)
  PROVE  /\ SubSeq(b, o + 1, e) \in Seq(Byte) /\ SubSeq(b, e + 1, Len(b)) \in Seq(Byte)
         /\ Len(SubSeq(b, o + 1, e)) = e - o /\ SubSeq(b, o + 1, e)[1] = b[o + 1]
         /\ SubSeq(b, o + 1, Len(b)) = SubSeq(b, o + 1, e) \o SubSeq(b, e + 1, Len(b))
<1>1. PICK n \in Nat : n = Len(b)
  BY LengthOf
<1>2. \A k \in o + 1 .. e : b[k] \in Byte
  BY <1>1
<1>3. /\ SubSeq(b, o + 1, e) \in Seq(Byte)
      /\ Len(SubSeq(b, o + 1, e)) = e - o
      /\ SubSeq(b, o + 1, e)[1] = b[o + 1]
  <2>1. /\ SubSeq(b, o + 1, e) \in Seq(Byte)
        /\ Len(SubSeq(b, o + 1, e)) = IF o + 1 <= e THEN e - (o + 1) + 1 ELSE 0
        /\ \A i \in 1 .. e - (o + 1) + 1 : SubSeq(b, o + 1, e)[i] = b[o + 1 + i - 1]
    BY <1>2, SubSeqProperties
  <2>2. 1 \in 1 .. e - (o + 1) + 1 /\ o + 1 + 1 - 1 = o + 1
    OBVIOUS
  <2>3. SubSeq(b, o + 1, e)[1] = b[o + 1]
    BY <2>1, <2>2
  <2> QED
    BY <2>1, <2>3
<1>4. SubSeq(b, e + 1, Len(b)) \in Seq(Byte)
  BY Cut
<1>5. /\ o + 1 \in 1 .. Len(b) + 1 /\ e \in (o + 1) - 1 .. Len(b)
      /\ Len(b) \in e .. Len(b)
  BY <1>1
<1> QED
  BY <1>3, <1>4, <1>5, ConcatAdjacentSubSeq

\* The packet at the scan's offset is the first of what is unhandled.
LEMMA FrontUnhandled ==
  ASSUME NEW b \in Seq(Byte), NEW s \in Seq(Byte), NEW o \in Nat, NEW e \in Nat,
         o < e, e <= Len(b)
  PROVE  LET d == SubSeq(b, o + 1, Len(b)) \o s
         IN  /\ d \in Seq(Byte) /\ d # <<>> /\ d[1] = b[o + 1] /\ e - o <= Len(d)
             /\ SubSeq(d, 1, e - o) = SubSeq(b, o + 1, e)
             /\ SubSeq(d, (e - o) + 1, Len(d)) = SubSeq(b, e + 1, Len(b)) \o s
<1>1. PICK p : p = SubSeq(b, o + 1, e)
  OBVIOUS
<1>2. PICK g : g = SubSeq(b, e + 1, Len(b))
  OBVIOUS
<1>3. PICK r : r = SubSeq(b, o + 1, Len(b))
  OBVIOUS
<1>4. /\ p \in Seq(Byte) /\ g \in Seq(Byte) /\ r = p \o g
      /\ Len(p) = e - o /\ p[1] = b[o + 1]
  BY <1>1, <1>2, <1>3, TwoParts
<1>5. PICK t \in Seq(Byte) : t = g \o s /\ r \o s = p \o t
  <2>1. p \in Seq(Byte) /\ g \in Seq(Byte)
    BY <1>4
  <2>2. (p \o g) \o s = p \o (g \o s) /\ g \o s \in Seq(Byte)
    BY <2>1, Associative
  <2> QED
    BY <1>4, <2>2
<1>6. p # <<>>
  BY <1>4
<1>7. p \o t \in Seq(Byte) /\ p \o t # <<>>
  BY <1>4, <1>6
<1>8. /\ Len(p) <= Len(p \o t) /\ (p \o t)[1] = p[1]
      /\ SubSeq(p \o t, 1, Len(p)) = p
  BY <1>4, <1>6, InFront
<1>9. SubSeq(p \o t, Len(p) + 1, Len(p \o t)) = t
  BY <1>4, Behind
<1> QED
  BY <1>1, <1>2, <1>3, <1>4, <1>5, <1>7, <1>8, <1>9

-----------------------------------------------------------------------------
(* The steps.                                                              *)

LEMMA ReadMoves ==
  ASSUME IInv, StreamInv, Read
  PROVE  StreamInv' /\ UNCHANGED Pipe!vars
<1>1. PICK n \in 1 .. Len(stream) :
        /\ n <= BufferSize - Len(buffer)
        /\ buffer' = buffer \o SubSeq(stream, 1, n)
        /\ stream' = SubSeq(stream, n + 1, Len(stream))
  BY DEF Read
<1>2. stream \in Seq(Byte) /\ buffer \in Seq(Byte) /\ offset = 0 /\ offset' = 0
  BY DEF IInv, TypeOK, StreamInv, Read
<1>3. buffer' \in Seq(Byte)
  <2>1. SubSeq(stream, 1, n) \in Seq(Byte)
    BY <1>2, Cut
  <2> QED
    BY <1>1, <1>2, <2>1, Associative
<1>4. /\ SubSeq(buffer, offset + 1, Len(buffer)) = buffer
      /\ SubSeq(buffer', offset' + 1, Len(buffer')) = buffer'
  <2>1. SubSeq(buffer, 1, Len(buffer)) = buffer /\ SubSeq(buffer', 1, Len(buffer')) = buffer'
    BY <1>2, <1>3, SubSeqFull
  <2> QED
    BY <1>2, <2>1
<1>5. Unhandled' = Unhandled
  <2>1. Unhandled = buffer \o stream /\ Unhandled' = buffer' \o stream'
    BY <1>4 DEF Unhandled
  <2> QED
    BY <1>1, <1>2, <2>1, Regrouped
<1>6. UNCHANGED <<inTransit, handled, torn>>
  BY DEF Read
<1> QED
  BY <1>2, <1>5, <1>6 DEF StreamInv, Pipe!vars

\* The rest of an incomplete packet stays in front, unless moving it tore it.
LEMMA RestKept ==
  ASSUME IInv, StreamInv, KeepRest
  PROVE  StreamInv' /\ (UNCHANGED Pipe!vars \/ Pipe!Tear)
<1>1. /\ buffer \in Seq(Byte) /\ offset \in Nat /\ offset < Len(buffer)
  BY SizesAssumption DEF IInv, TypeOK, KeepRest, AtPacket
<1>2. PICK rest : rest = SubSeq(buffer, offset + 1, Len(buffer))
  OBVIOUS
<1>3. /\ torn' = (torn \/ buffer' # rest) /\ torn \in BOOLEAN
      /\ offset' = 0 /\ UNCHANGED <<stream, inTransit, handled>>
  BY <1>2 DEF KeepRest, IInv, TypeOK
<1>4. CASE torn'
  BY <1>3, <1>4 DEF StreamInv, Pipe!Tear
<1>5. CASE ~torn'
  <2>1. buffer' = rest /\ ~torn
    BY <1>3, <1>5
  <2>2. rest \in Seq(Byte)
    BY <1>1, <1>2, Cut
  <2>3. SubSeq(buffer', offset' + 1, Len(buffer')) = rest
    <3>1. SubSeq(rest, 1, Len(rest)) = rest
      BY <2>2, SubSeqFull
    <3> QED
      BY <1>3, <2>1, <3>1
  <2>4. Unhandled' = Unhandled
    BY <1>2, <1>3, <2>3 DEF Unhandled
  <2> QED
    BY <1>3, <1>5, <2>1, <2>4 DEF StreamInv, Pipe!vars
<1> QED
  BY <1>4, <1>5

LEMMA ScanEnds ==
  ASSUME IInv, StreamInv, ScanDone
  PROVE  StreamInv' /\ UNCHANGED Pipe!vars
<1>1. /\ buffer \in Seq(Byte) /\ offset = Len(buffer) /\ offset \in Nat
      /\ buffer' = <<>> /\ offset' = 0 /\ UNCHANGED <<stream, inTransit, handled, torn>>
  BY SizesAssumption DEF ScanDone, IInv, TypeOK, ScanInv
<1>2. SubSeq(buffer, offset + 1, Len(buffer)) = <<>> /\ SubSeq(<<>>, 1, 0) = <<>>
  BY <1>1, SubSeqEmpty
<1>3. Unhandled' = Unhandled
  BY <1>1, <1>2 DEF Unhandled
<1> QED
  BY <1>1, <1>3 DEF StreamInv, Pipe!vars

LEMMA ResetLoses ==
  ASSUME IInv, StreamInv, RadioResets
  PROVE  StreamInv' /\ (Pipe!Flush \/ Pipe!Tear)
<1>1. /\ stream' = <<>> /\ inTransit' = <<>> /\ pc = "poll"
      /\ torn' = (torn \/ buffer # <<>>) /\ torn \in BOOLEAN
      /\ UNCHANGED <<buffer, offset, pc, handled>>
  BY DEF RadioResets, IInv, TypeOK
<1>2. CASE torn'
  BY <1>1, <1>2 DEF StreamInv, Pipe!Tear
<1>3. CASE ~torn'
  <2>1. buffer' = <<>> /\ offset' = 0 /\ ~torn
    BY <1>1, <1>3 DEF StreamInv
  <2>2. Unhandled' = <<>>
    BY <1>1, <2>1 DEF Unhandled
  <2> QED
    BY <1>1, <1>3, <2>1, <2>2, NoneSent DEF StreamInv, Pipe!Flush
<1> QED
  BY <1>2, <1>3

LEMMA ChipPuts ==
  ASSUME IInv, StreamInv, ChipSends
  PROVE  StreamInv' /\ \E p \in Packets : Pipe!Put(p)
<1>1. PICK p \in Packets : stream' = stream \o p /\ inTransit' = Append(inTransit, p)
  BY DEF ChipSends
<1>2. UNCHANGED <<buffer, offset, pc, handled, torn>>
  BY DEF ChipSends
<1>3. /\ p \in Seq(Byte) /\ stream \in Seq(Byte) /\ buffer \in Seq(Byte)
      /\ inTransit \in Seq(Packets)
  BY PacketBytes DEF IInv, TypeOK
<1>4. PICK r \in Seq(Byte) : r = SubSeq(buffer, offset + 1, Len(buffer))
  <2>1. offset \in 0 .. Len(buffer)
    BY <1>3, SizesAssumption DEF IInv, TypeOK, ScanInv, StreamInv
  <2> QED
    BY <1>3, <2>1, Cut
<1>5. Unhandled' = Unhandled \o p /\ Unhandled \in Seq(Byte)
  BY <1>1, <1>2, <1>3, <1>4, Associative DEF Unhandled
<1>6. StreamInv'
  BY <1>1, <1>2, <1>3, <1>5, Added DEF StreamInv
<1>7. Pipe!Put(p)
  BY <1>1, <1>2 DEF Pipe!Put
<1> QED
  BY <1>6, <1>7

\* Where a packet goes does not depend on what is behind it.
LEMMA RouteOf ==
  ASSUME IInv, AtPacket, Whole(buffer, offset), NEW p \in Packets,
         p = SubSeq(buffer, offset + 1, End(buffer, offset)),
         NEW to \in Destinations
  PROVE  to = Route(p)
<1>1. PICK n \in Nat, e \in Nat : n = Len(buffer) /\ e = End(buffer, offset) /\ e <= n
  <2>1. buffer \in Seq(Byte) /\ offset \in Nat /\ offset < Len(buffer)
    BY SizesAssumption DEF IInv, TypeOK, AtPacket
  <2>2. buffer[offset + 1] \in Nat
    BY <2>1, SizesAssumption DEF Byte
  <2> QED
    BY <2>1, <2>2 DEF Whole, End
<1>2. buffer \in Seq(Byte) /\ offset \in Nat /\ offset < n
  BY <1>1, SizesAssumption DEF IInv, TypeOK, AtPacket
<1>3. PICK l \in Nat : l = Len(p) /\ l >= 3
  BY PacketBytes
<1>4. l = e - offset /\ \A k \in 1 .. l : p[k] = buffer[offset + k]
  BY <1>1, <1>2, <1>3
<1>5. PICK m \in Nat : m = Len(KeepaliveResp) /\ m > 0 /\ DOMAIN KeepaliveResp = 1 .. m
  BY KeepaliveAssumption
<1>6. \A k \in 1 .. l : offset + k <= n
  BY <1>1, <1>2, <1>4
<1>7. /\ MayBeFlow <=> p[3] = FlowControlId
      /\ MayBeOther <=> p[3] # FlowControlId
  <2>1. p[3] = buffer[offset + 3] /\ ~(offset + 3 > n)
    BY <1>1, <1>2, <1>3, <1>4, <1>6
  <2> QED
    BY <1>1, <2>1 DEF MayBeFlow, MayBeOther, MayMatch, MayDiffer
<1> DEFINE Same == \A k \in 1 .. m : k < l /\ p[k + 1] = KeepaliveResp[k]
<1>8. (MayBeKeepalive <=> Same) /\ (MayBeMessage <=> ~Same)
  <2>1. CASE p[2] = KeepaliveResp[1]
    <3>1. m < l
      BY <1>3, <1>5, <2>1, KeepaliveAssumption
    <3>2. \A k \in 1 .. m : /\ k < l /\ offset + 1 + k <= n
                           /\ p[k + 1] = buffer[offset + 1 + k]
      <4>1. ASSUME NEW k \in 1 .. m
            PROVE  /\ k + 1 \in 1 .. l /\ offset + (k + 1) = offset + 1 + k /\ k < l
        BY <1>2, <3>1
      <4> QED
        BY <1>4, <1>6, <4>1
    <3>3. ASSUME NEW k \in 1 .. m
          PROVE  /\ MayMatch(offset + 1 + k, KeepaliveResp[k]) <=> p[k + 1] = KeepaliveResp[k]
                 /\ MayDiffer(offset + 1 + k, KeepaliveResp[k]) <=> p[k + 1] # KeepaliveResp[k]
      <4>1. offset + 1 + k <= n /\ p[k + 1] = buffer[offset + 1 + k]
        BY <3>2
      <4>2. ~(offset + 1 + k > n)
        BY <1>2, <4>1
      <4> QED
        BY <1>1, <4>1, <4>2 DEF MayMatch, MayDiffer
    <3> QED
      BY <1>5, <3>2, <3>3 DEF MayBeKeepalive, MayBeMessage
  <2>2. CASE p[2] # KeepaliveResp[1]
    <3>1. 1 \in 1 .. m /\ offset + 1 + 1 = offset + 2 /\ 1 + 1 = 2 /\ 2 \in 1 .. l
      <4>1. m \in Nat /\ m > 0 /\ l \in Nat /\ l >= 3 /\ offset \in Nat
        BY <1>2, <1>3, <1>5
      <4> QED
        BY <4>1
    <3>2. offset + 2 <= n /\ p[2] = buffer[offset + 2]
      BY <1>4, <1>6, <3>1
    <3>3. ~(offset + 2 > n)
      BY <1>2, <3>2
    <3> QED
      BY <1>1, <1>5, <2>2, <3>1, <3>2, <3>3 DEF MayBeKeepalive, MayBeMessage, MayMatch, MayDiffer
  <2> QED
    BY <2>1, <2>2
<1>9. Route(p) = IF p[3] = FlowControlId THEN "flow"
                 ELSE IF Same THEN "keepalive" ELSE "callback"
  BY <1>3, <1>5 DEF Route
<1> HIDE DEF Same
<1> QED
  BY <1>7, <1>8, <1>9 DEF Destinations

\* A whole packet leaves for where it belongs.
LEMMA PacketLeaves ==
  ASSUME IInv, StreamInv, HandlePacket
  PROVE  StreamInv' /\ (Pipe!Get \/ UNCHANGED Pipe!vars \/ Pipe!Tear)
<1>1. UNCHANGED <<stream, buffer, pc, sent, torn>> /\ pc = "scan" /\ torn \in BOOLEAN
  BY DEF HandlePacket, AtPacket, IInv, TypeOK
<1>2. CASE torn
  BY <1>1, <1>2 DEF StreamInv, Pipe!Tear
<1>3. CASE ~torn
  <2>1. /\ buffer \in Seq(Byte) /\ stream \in Seq(Byte) /\ inTransit \in Seq(Packets)
        /\ offset \in Nat /\ offset < Len(buffer)
    BY SizesAssumption DEF IInv, TypeOK, HandlePacket, AtPacket
  <2>2. PICK e \in Nat : /\ e = End(buffer, offset) /\ offset < e /\ e <= Len(buffer)
                         /\ buffer[offset + 1] \in Nat /\ e - offset = buffer[offset + 1] + 1
    <3>1. buffer[offset + 1] \in Nat
      BY <2>1, SizesAssumption DEF Byte
    <3>2. End(buffer, offset) = offset + 1 + buffer[offset + 1]
      BY DEF End
    <3>3. End(buffer, offset) <= Len(buffer)
      BY DEF HandlePacket, Whole
    <3> QED
      BY <2>1, <3>1, <3>2, <3>3
  <2> DEFINE d == SubSeq(buffer, offset + 1, Len(buffer)) \o stream
  <2>3. /\ d \in Seq(Byte) /\ d # <<>> /\ d[1] = buffer[offset + 1] /\ e - offset <= Len(d)
        /\ SubSeq(d, 1, e - offset) = SubSeq(buffer, offset + 1, e)
        /\ SubSeq(d, (e - offset) + 1, Len(d)) = SubSeq(buffer, e + 1, Len(buffer)) \o stream
    <3>1. /\ buffer \in Seq(Byte) /\ stream \in Seq(Byte) /\ offset \in Nat
          /\ offset < e /\ e <= Len(buffer)
      BY <2>1, <2>2
    <3> QED
      BY <3>1, FrontUnhandled, Zenon
  <2> HIDE DEF d
  <2>4. /\ d \in Seq(Byte) /\ d # <<>> /\ d[1] = buffer[offset + 1] /\ d[1] + 1 <= Len(d)
        /\ SubSeq(d, 1, d[1] + 1) = SubSeq(buffer, offset + 1, e)
        /\ SubSeq(d, d[1] + 2, Len(d)) = SubSeq(buffer, e + 1, Len(buffer)) \o stream
    <3>1. e - offset = d[1] + 1 /\ (e - offset) + 1 = d[1] + 2
      BY <2>2, <2>3
    <3> QED
      BY <2>3, <3>1
  <2>5. InOrder(d, inTransit)
    BY <1>3 DEF StreamInv, Unhandled, d
  <2>6. /\ inTransit # <<>> /\ Head(inTransit) = SubSeq(d, 1, d[1] + 1)
        /\ InOrder(SubSeq(d, d[1] + 2, Len(d)), Tail(inTransit))
    BY <2>1, <2>4, <2>5, Removed
  <2>7. offset' = e /\ inTransit' = Tail(inTransit)
    BY <2>2, <2>6 DEF HandlePacket
  <2>8. Unhandled' = SubSeq(d, d[1] + 2, Len(d))
    BY <1>1, <2>4, <2>7 DEF Unhandled
  <2>9. StreamInv'
    BY <1>1, <2>6, <2>7, <2>8 DEF StreamInv
  <2>10. PICK p \in Packets : p = Head(inTransit) /\ p = SubSeq(buffer, offset + 1, e)
    <3>1. Head(inTransit) \in Packets
      BY <2>1, <2>6, HeadTailProperties
    <3> QED
      BY <2>4, <2>6, <3>1
  <2>11. PICK to \in Destinations : handled' = Append(handled, [to |-> to, packet |-> p])
    BY <2>2, <2>10 DEF HandlePacket
  <2>12. to = Route(p)
    BY <2>2, <2>10, RouteOf DEF HandlePacket
  <2>13. Pipe!Get
    BY <1>1, <1>3, <2>6, <2>7, <2>10, <2>11, <2>12 DEF Pipe!Get
  <2> QED
    BY <2>9, <2>13
<1> QED
  BY <1>2, <1>3

\* The safety part of Implements, for every set of packets and however reads cut
\* the stream: what the reader does is a step of PacketPipe or none at all.
THEOREM ReaderImplements == Spec => Pipe!Init /\ [][Pipe!Next]_(Pipe!vars)
<1>1. Init => StreamInv /\ Pipe!Init
  <2> SUFFICES ASSUME Init PROVE StreamInv /\ Pipe!Init
    OBVIOUS
  <2>1. Unhandled = <<>>
    BY DEF Init, Unhandled
  <2> QED
    BY <2>1, NoneSent DEF Init, StreamInv, Pipe!Init
<1>2. IInv /\ StreamInv /\ [Next]_vars => StreamInv' /\ [Pipe!Next]_(Pipe!vars)
  <2> SUFFICES ASSUME IInv, StreamInv, [Next]_vars
               PROVE  StreamInv' /\ [Pipe!Next]_(Pipe!vars)
    OBVIOUS
  <2> USE DEF Pipe!Next
  <2>1. CASE Read \/ KeepRest \/ ScanDone
    BY <2>1, ReadMoves, RestKept, ScanEnds
  <2>2. CASE HandlePacket
    BY <2>2, PacketLeaves
  <2>3. CASE ChipSends \/ RadioResets
    BY <2>3, ChipPuts, ResetLoses
  <2>4. CASE UNCHANGED vars
    BY <2>4 DEF vars, Pipe!vars, StreamInv, Unhandled
  <2> QED
    BY <2>1, <2>2, <2>3, <2>4 DEF Next, RxStep
<1> QED
  BY <1>1, <1>2, ReaderInvariant, PTL DEF Spec
=============================================================================
