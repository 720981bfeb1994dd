---------------------------- MODULE PNMIpcProofs ----------------------------
(***************************************************************************)
(* Proofs about PNMIpc, for any byte base, any socket capacity, any jobs   *)
(* and answers, and any failures.                                          *)
(***************************************************************************)
EXTENDS PNMIpc, SequenceTheorems, TLAPS

(* The length that pnm_send_frame announces, and the bytes of the frame.   *)
Size(s) == Len(s) % Modulus

FrameByte(s, i) == IF i <= 4 THEN Header(Size(s))[i] ELSE s[i - 4]

(* Bytes of the frame that the receiver has taken from the socket.         *)
Taken(d) == IF rpc[d] \in {"idle", "header"} THEN Len(buf[d])
            ELSE 4 + Len(buf[d])

-----------------------------------------------------------------------------
(* The inductive invariant.                                                *)

(* The state's types, with the functions' domains.                         *)
IpcShape ==
  /\ open \in [{"client", "server"} -> BOOLEAN]
  /\ data \in [Directions -> Bytes \cup {None}]
  /\ left \in [Directions -> Bytes] /\ wire \in [Directions -> Bytes]
  /\ buf \in [Directions -> Bytes] /\ need \in [Directions -> Nat]
  /\ spc \in [Directions -> CallState] /\ rpc \in [Directions -> CallState]

(* What the receiver has is the beginning of the frame: of its header, or  *)
(* of its body once the header has been read.                              *)
BodySoFar(d) ==
  /\ data[d] # None
  /\ Len(buf[d]) + need[d] = Size(data[d])
  /\ \A i \in 1 .. Len(buf[d]) : buf[d][i] = data[d][i]

RecvInv(d) ==
  /\ rpc[d] = "idle" => Len(buf[d]) = 0
  /\ rpc[d] = "header" =>
       /\ need[d] \in 1 .. 4 /\ Len(buf[d]) + need[d] = 4
       /\ \A i \in 1 .. Len(buf[d]) : buf[d][i] = Header(Size(data[d]))[i]
  /\ rpc[d] = "body" => BodySoFar(d) /\ need[d] > 0
  /\ rpc[d] = "ok" => BodySoFar(d) /\ need[d] = 0

(* What is in the socket continues what the receiver has.                  *)
WireInv(d) ==
  rpc[d] # "failed" =>
    /\ data[d] = None => Len(wire[d]) = 0 /\ Taken(d) = 0
    /\ data[d] # None => Taken(d) + Len(wire[d]) <= 4 + Size(data[d])
    /\ \A i \in 1 .. Len(wire[d]) : wire[d][i] = FrameByte(data[d], Taken(d) + i)

(* What the sender has left continues what is in the socket, to the end of *)
(* the header or of the body.                                              *)
LeftUpTo(d, end) ==
  /\ Len(left[d]) > 0
  /\ rpc[d] # "failed" =>
       /\ Taken(d) + Len(wire[d]) + Len(left[d]) = end
       /\ \A i \in 1 .. Len(left[d]) :
            left[d][i] = FrameByte(data[d], Taken(d) + Len(wire[d]) + i)

SendInv(d) ==
  /\ data[d] = None <=> spc[d] = "idle"
  /\ spc[d] = "header" => LeftUpTo(d, 4)
  /\ spc[d] = "body" => LeftUpTo(d, 4 + Size(data[d]))

Stream(d) == RecvInv(d) /\ WireInv(d) /\ SendInv(d)

StreamInv == \A d \in Directions : Stream(d)

(* What the two processes make of the frames.                              *)
ExchangeInv ==
  /\ IF data["job"] = None THEN job = None
     ELSE job \in Jobs /\ data["job"] = Message(job)
  /\ parsed # None => rpc["job"] = "ok" /\ parsed = Parse(buf["job"])
  /\ data["reply"] = None => parsed = None
  /\ data["reply"] # None =>
       data["reply"] \in Answers /\ (parsed = Malformed => data["reply"] = <<1>>)
  /\ outcome # None => ~open["client"]
  /\ outcome \in {None, "kUseLocal", "kSuccess", "kFailure"}
  /\ outcome \in {"kSuccess", "kFailure"} =>
       rpc["reply"] = "ok" /\ outcome = Status(buf["reply"])

IpcInv == IpcShape /\ IpcTypeOK /\ StreamInv /\ ExchangeInv

-----------------------------------------------------------------------------
(* Lengths in four bytes.                                                  *)

LEMMA Quotient ==
  ASSUME NEW n \in Nat
  PROVE  /\ n \div Base \in Nat /\ n % Base \in Nat /\ n % Base \in Byte
         /\ n = Base * (n \div Base) + (n % Base)
<1> DEFINE q == n \div Base
           r == n % Base
<1>1. Base \in Nat /\ Base > 1
  BY IpcAssumption
<1>2. q \in Nat /\ r \in Nat /\ r \in Byte
  BY <1>1 DEF Byte
<1>3. r = n - Base * q
  BY <1>1
<1> HIDE DEF q, r
<1>4. n = Base * q + r
  BY <1>1, <1>2, <1>3
<1> QED BY <1>2, <1>4 DEF q, r

LEMMA ModulusNat == Modulus \in Nat /\ Modulus > 4
<1>1. Base * Base \in Nat /\ Base * Base >= 4
  BY IpcAssumption
<1>2. Base * Base * Base \in Nat /\ Base * Base * Base >= 8
  BY <1>1, IpcAssumption
<1>3. Base * Base * Base * Base \in Nat /\ Base * Base * Base * Base >= 16
  BY <1>2, IpcAssumption
<1> QED BY <1>3 DEF Modulus

(* A factor of a product below a multiple of the base.                     *)
LEMMA Below ==
  ASSUME NEW n \in Nat, NEW m \in Nat, NEW q \in Nat, n < m * Base, Base * q <= n
  PROVE  q < m
<1> SUFFICES ASSUME q >= m PROVE FALSE
  OBVIOUS
<1>1. Base \in Nat /\ Base > 1
  BY IpcAssumption
<1>2. Base * q >= Base * m
  BY <1>1
<1>3. Base * m = m * Base
  BY <1>1
<1> QED BY <1>1, <1>2, <1>3

(* The four bytes of a length give it back.                                *)
LEMMA LengthOfHeader ==
  ASSUME NEW n \in 0 .. Modulus - 1
  PROVE  /\ Header(n) \in Bytes /\ Len(Header(n)) = 4
         /\ Length(Header(n)) = n
<1> DEFINE n1 == n \div Base
           n2 == n1 \div Base
           n3 == n2 \div Base
           b0 == n % Base
           b1 == n1 % Base
           b2 == n2 % Base
<1>1. Base \in Nat /\ Base > 1 /\ Modulus \in Nat
  BY IpcAssumption, ModulusNat
<1>2. n1 \in Nat /\ b0 \in Nat /\ b0 \in Byte /\ n = Base * n1 + b0
  BY <1>1, Quotient
<1> HIDE DEF n1, b0
<1>3. n2 \in Nat /\ b1 \in Nat /\ b1 \in Byte /\ n1 = Base * n2 + b1
  BY <1>2, Quotient
<1> HIDE DEF n2, b1
<1>4. n3 \in Nat /\ b2 \in Nat /\ b2 \in Byte /\ n2 = Base * n3 + b2
  BY <1>3, Quotient
<1> HIDE DEF n3, b2
<1>5. n1 < Base * Base * Base
  <2>1. Base * Base * Base \in Nat
    BY <1>1
  <2>2. Base * n1 <= n
    BY <1>1, <1>2
  <2>3. n < (Base * Base * Base) * Base
    BY <1>1 DEF Modulus
  <2> QED BY <1>1, <1>2, <2>1, <2>2, <2>3, Below
<1>6. n2 < Base * Base
  <2>1. Base * Base \in Nat
    BY <1>1
  <2>2. Base * n2 <= n1
    BY <1>1, <1>3
  <2> QED BY <1>1, <1>2, <1>3, <1>5, <2>1, <2>2, Below
<1>7. n3 < Base
  <2>1. Base * n3 <= n2
    BY <1>1, <1>4
  <2> QED BY <1>1, <1>3, <1>4, <1>6, <2>1, Below
<1>8. n3 % Base = n3 /\ n3 \in Byte
  BY <1>1, <1>4, <1>7 DEF Byte
<1>9. Header(n) = <<b0, b1, b2, n3>>
  BY <1>8 DEF Header, n1, n2, n3, b0, b1, b2
<1>10. Header(n) \in Bytes /\ Len(Header(n)) = 4
  <2>1. \A S : \A x, y, z, w \in S : <<x, y, z, w>> \in Seq(S)
    OBVIOUS
  <2>2. <<b0, b1, b2, n3>> \in Seq(Byte)
    BY <1>2, <1>3, <1>4, <1>8, <2>1
  <2> QED BY <1>9, <2>2 DEF Bytes
<1>11. Length(Header(n)) = b0 + Base * (b1 + Base * (b2 + Base * n3))
  BY <1>9 DEF Length
<1>12. b2 + Base * n3 = n2
  BY <1>1, <1>3, <1>4
<1>13. b1 + Base * n2 = n1
  BY <1>1, <1>2, <1>3
<1>14. b0 + Base * n1 = n
  BY <1>1, <1>2
<1> QED BY <1>10, <1>11, <1>12, <1>13, <1>14

-----------------------------------------------------------------------------
(* Sequences of bytes.                                                     *)

LEMMA Remainder ==
  ASSUME NEW n \in Nat, NEW m \in Nat, m > 0
  PROVE  n % m \in 0 .. m - 1 /\ n % m <= n /\ (n < m => n % m = n)
<1>1. n % m \in 0 .. m - 1 /\ n \div m \in Nat /\ (n % m) = n - m * (n \div m)
  OBVIOUS
<1>2. CASE n < m
  BY <1>2
<1>3. CASE n >= m
  BY <1>1, <1>3
<1> QED BY <1>1, <1>2, <1>3

LEMMA BodyBytes ==
  ASSUME NEW s \in Bytes
  PROVE  /\ Size(s) \in 0 .. Modulus - 1 /\ Size(s) <= Len(s)
         /\ Body(s) \in Bytes /\ Len(Body(s)) = Size(s)
         /\ \A i \in 1 .. Size(s) : Body(s)[i] = s[i]
         /\ Len(s) < Modulus => Body(s) = s
<1>1. Len(s) \in Nat /\ \A i \in 1 .. Len(s) : s[i] \in Byte
  BY DEF Bytes
<1>2. /\ Size(s) \in 0 .. Modulus - 1 /\ Size(s) <= Len(s)
      /\ Len(s) < Modulus => Size(s) = Len(s)
  BY <1>1, ModulusNat, Remainder DEF Size
<1>3. Body(s) = SubSeq(s, 1, Size(s))
  BY DEF Body, Size
<1>4. \A i \in 1 .. Size(s) : s[i] \in Byte
  BY <1>1, <1>2, ModulusNat
<1>5. Size(s) \in Int
  BY <1>2, ModulusNat
<1> HIDE DEF Size
<1>6. /\ Body(s) \in Seq(Byte) /\ Len(Body(s)) = IF 1 <= Size(s) THEN Size(s) - 1 + 1 ELSE 0
      /\ \A i \in 1 .. Size(s) - 1 + 1 : Body(s)[i] = s[1 + i - 1]
  BY <1>3, <1>4, <1>5, SubSeqProperties
<1>7. /\ Body(s) \in Bytes /\ Len(Body(s)) = Size(s)
      /\ \A i \in 1 .. Size(s) : Body(s)[i] = s[i]
  BY <1>2, <1>6, ModulusNat DEF Bytes
<1>8. Len(s) < Modulus => Body(s) = s
  BY <1>2, <1>7, SeqEqual DEF Bytes
<1> QED BY <1>2, <1>7, <1>8

(* The first n bytes, and the rest.                                        *)
LEMMA Cut ==
  ASSUME NEW s \in Bytes, NEW n \in 0 .. Len(s)
  PROVE  /\ SubSeq(s, 1, n) \in Bytes /\ Len(SubSeq(s, 1, n)) = n
         /\ \A i \in 1 .. n : SubSeq(s, 1, n)[i] = s[i]
         /\ SubSeq(s, n + 1, Len(s)) \in Bytes
         /\ Len(SubSeq(s, n + 1, Len(s))) = Len(s) - n
         /\ \A i \in 1 .. Len(s) - n : SubSeq(s, n + 1, Len(s))[i] = s[n + i]
<1>1. Len(s) \in Nat /\ \A i \in 1 .. Len(s) : s[i] \in Byte
  BY DEF Bytes
<1>2. /\ SubSeq(s, 1, n) \in Seq(Byte)
      /\ Len(SubSeq(s, 1, n)) = IF 1 <= n THEN n - 1 + 1 ELSE 0
      /\ \A i \in 1 .. n - 1 + 1 : SubSeq(s, 1, n)[i] = s[1 + i - 1]
  BY <1>1, SubSeqProperties
<1>3. /\ SubSeq(s, n + 1, Len(s)) \in Seq(Byte)
      /\ Len(SubSeq(s, n + 1, Len(s))) =
           IF n + 1 <= Len(s) THEN Len(s) - (n + 1) + 1 ELSE 0
      /\ \A i \in 1 .. Len(s) - (n + 1) + 1 :
           SubSeq(s, n + 1, Len(s))[i] = s[(n + 1) + i - 1]
  BY <1>1, SubSeqProperties
<1>4. /\ SubSeq(s, 1, n) \in Bytes /\ Len(SubSeq(s, 1, n)) = n
      /\ \A i \in 1 .. n : SubSeq(s, 1, n)[i] = s[i]
  BY <1>1, <1>2 DEF Bytes
<1>5. /\ SubSeq(s, n + 1, Len(s)) \in Bytes
      /\ Len(SubSeq(s, n + 1, Len(s))) = Len(s) - n
      /\ \A i \in 1 .. Len(s) - n : SubSeq(s, n + 1, Len(s))[i] = s[n + i]
  BY <1>1, <1>3 DEF Bytes
<1> QED BY <1>4, <1>5

LEMMA Joined ==
  ASSUME NEW s \in Bytes, NEW t \in Bytes
  PROVE  /\ s \o t \in Bytes /\ Len(s \o t) = Len(s) + Len(t)
         /\ \A i \in 1 .. Len(s) : (s \o t)[i] = s[i]
         /\ \A i \in 1 .. Len(t) : (s \o t)[Len(s) + i] = t[i]
<1>1. /\ s \o t \in Seq(Byte) /\ Len(s \o t) = Len(s) + Len(t)
      /\ \A i \in 1 .. Len(s) + Len(t) :
           (s \o t)[i] = IF i <= Len(s) THEN s[i] ELSE t[i - Len(s)]
  BY ConcatProperties DEF Bytes
<1>2. Len(s) \in Nat /\ Len(t) \in Nat
  BY DEF Bytes
<1>3. \A i \in 1 .. Len(s) : (s \o t)[i] = s[i]
  BY <1>1, <1>2
<1>4. ASSUME NEW i \in 1 .. Len(t) PROVE (s \o t)[Len(s) + i] = t[i]
  <2>1. Len(s) + i \in 1 .. Len(s) + Len(t) /\ ~(Len(s) + i <= Len(s))
        /\ Len(s) + i - Len(s) = i
    BY <1>2
  <2> QED BY <1>1, <2>1
<1> QED BY <1>1, <1>3, <1>4 DEF Bytes

(* The message that Schedule builds is made of bytes.                      *)
LEMMA FieldBytes ==
  ASSUME NEW s \in Bytes, NEW msg \in Bytes
  PROVE  /\ append_frame(msg, s) \in Bytes
         /\ Len(append_frame(msg, s)) = Len(msg) + 4 + Len(s)
         /\ \A i \in 1 .. Len(msg) : append_frame(msg, s)[i] = msg[i]
         /\ \A i \in 1 .. 4 : append_frame(msg, s)[Len(msg) + i] = Header(Size(s))[i]
         /\ \A i \in 1 .. Len(s) : append_frame(msg, s)[Len(msg) + 4 + i] = s[i]
<1> DEFINE h == Header(Size(s))
<1>1. h \in Bytes /\ Len(h) = 4
  BY BodyBytes, LengthOfHeader
<1>2. append_frame(msg, s) = (msg \o h) \o s
  BY DEF append_frame, Size
<1> HIDE DEF h
<1> DEFINE a == msg \o h
<1>3. /\ a \in Bytes /\ Len(a) = Len(msg) + 4
      /\ \A i \in 1 .. Len(msg) : a[i] = msg[i]
      /\ \A i \in 1 .. 4 : a[Len(msg) + i] = h[i]
  <2>1. /\ a \in Bytes /\ Len(a) = Len(msg) + Len(h)
        /\ \A i \in 1 .. Len(msg) : a[i] = msg[i]
        /\ \A i \in 1 .. Len(h) : a[Len(msg) + i] = h[i]
    BY <1>1, Joined, Zenon
  <2> QED BY <1>1, <2>1, Zenon
<1> HIDE DEF a
<1>4. /\ a \o s \in Bytes /\ Len(a \o s) = Len(a) + Len(s)
      /\ \A i \in 1 .. Len(a) : (a \o s)[i] = a[i]
      /\ \A i \in 1 .. Len(s) : (a \o s)[Len(a) + i] = s[i]
  BY <1>3, Joined
<1>5. append_frame(msg, s) = a \o s
  BY <1>2 DEF a
<1>6. Len(msg) \in Nat /\ Len(s) \in Nat
  BY DEF Bytes
<1>7. \A i \in 1 .. Len(msg) : (a \o s)[i] = msg[i]
  BY <1>3, <1>4, <1>6
<1>8. \A i \in 1 .. 4 : (a \o s)[Len(msg) + i] = h[i]
  BY <1>3, <1>4, <1>6
<1>9. \A i \in 1 .. Len(s) : (a \o s)[Len(msg) + 4 + i] = s[i]
  BY <1>3, <1>4
<1> QED BY <1>3, <1>4, <1>5, <1>7, <1>8, <1>9 DEF h

LEMMA MessageBytes ==
  ASSUME NEW j \in Jobs
  PROVE  /\ j[1] \in Bytes /\ j[2] \in Bytes /\ j[3] \in Bytes
         /\ j = <<j[1], j[2], j[3]>>
         /\ Message(j) \in Bytes /\ Message(j) # None
<1>1. j \in Seq(Byte) \X Seq(Byte) \X Seq(Byte)
  BY IpcAssumption
<1>2. j[1] \in Bytes /\ j[2] \in Bytes /\ j[3] \in Bytes /\ j = <<j[1], j[2], j[3]>>
  BY <1>1 DEF Bytes
<1> DEFINE m1 == append_frame(<<>>, j[1])
           m2 == append_frame(m1, j[2])
<1>3. <<>> \in Bytes
  BY DEF Bytes
<1>4. m1 \in Bytes
  BY <1>2, <1>3, FieldBytes
<1>5. m2 \in Bytes
  BY <1>2, <1>4, FieldBytes
<1>6. Message(j) \in Bytes
  BY <1>2, <1>5, FieldBytes DEF Message
<1> QED BY <1>2, <1>6, IpcAssumption DEF Bytes

(* A frame has at least the header, and its bytes are bytes.               *)
LEMMA FrameBytes ==
  ASSUME NEW s \in Bytes
  PROVE  /\ Size(s) \in Nat /\ Size(s) < Modulus
         /\ Header(Size(s)) \in Bytes /\ Len(Header(Size(s))) = 4
         /\ Length(Header(Size(s))) = Size(s)
         /\ \A i \in 1 .. 4 : FrameByte(s, i) = Header(Size(s))[i]
         /\ \A i \in Nat : i > 0 => FrameByte(s, 4 + i) = s[i]
<1>1. Size(s) \in 0 .. Modulus - 1
  BY BodyBytes
<1>2. /\ Header(Size(s)) \in Bytes /\ Len(Header(Size(s))) = 4
      /\ Length(Header(Size(s))) = Size(s)
  BY <1>1, LengthOfHeader
<1>3. \A i \in 1 .. 4 : FrameByte(s, i) = Header(Size(s))[i]
  BY DEF FrameByte
<1>4. ASSUME NEW i \in Nat, i > 0 PROVE FrameByte(s, 4 + i) = s[i]
  <2>1. ~(4 + i <= 4) /\ 4 + i - 4 = i
    BY <1>4
  <2> QED BY <2>1 DEF FrameByte
<1> QED BY <1>1, <1>2, <1>3, <1>4, ModulusNat

-----------------------------------------------------------------------------
(* Bytes move from one end to the other.                                   *)

LEMMA StreamInit == Init => StreamInv
<1> SUFFICES ASSUME Init, NEW d \in Directions PROVE Stream(d)
  BY DEF StreamInv
<1>1. /\ data[d] = None /\ spc[d] = "idle" /\ left[d] = <<>> /\ wire[d] = <<>>
      /\ rpc[d] \in {"header", "idle"} /\ buf[d] = <<>>
      /\ rpc[d] = "header" => need[d] = 4
  BY DEF Init, Directions
<1>2. Len(<<>>) = 0
  OBVIOUS
<1>3. Len(buf[d]) = 0 /\ Len(wire[d]) = 0
  BY <1>1, <1>2
<1>4. RecvInv(d)
  BY <1>1, <1>3 DEF RecvInv
<1>5. WireInv(d)
  BY <1>1, <1>3 DEF WireInv, Taken
<1>6. SendInv(d)
  BY <1>1 DEF SendInv
<1> QED BY <1>4, <1>5, <1>6 DEF Stream

(* A direction is not disturbed by a step that leaves its state alone.     *)
LEMMA StreamFrame ==
  ASSUME NEW d \in Directions, Stream(d), data'[d] = data[d], spc'[d] = spc[d],
         left'[d] = left[d], wire'[d] = wire[d], rpc'[d] = rpc[d],
         need'[d] = need[d], buf'[d] = buf[d]
  PROVE  Stream(d)'
<1>1. Taken(d)' = Taken(d)
  BY DEF Taken
<1>2. RecvInv(d)'
  BY DEF Stream, RecvInv, BodySoFar
<1>3. WireInv(d)'
  BY <1>1 DEF Stream, WireInv
<1>4. SendInv(d)'
  BY <1>1 DEF Stream, SendInv, LeftUpTo
<1> QED BY <1>2, <1>3, <1>4 DEF Stream

(* Bytes that leave the sender for the socket.                             *)
LEMMA StreamSend ==
  ASSUME IpcShape, NEW d \in Directions, Stream(d), NEW n \in 1 .. Len(left[d]),
         NEW end \in Nat, end <= 4 + Size(data[d]), LeftUpTo(d, end),
         data[d] # None,
         data'[d] = data[d], rpc'[d] = rpc[d], need'[d] = need[d], buf'[d] = buf[d],
         wire'[d] = wire[d] \o SubSeq(left[d], 1, n)
  PROVE  /\ RecvInv(d)' /\ WireInv(d)'
         /\ Len(wire'[d]) = Len(wire[d]) + n
<1> DEFINE w == wire[d]
           l == left[d]
           f == SubSeq(l, 1, n)
           w2 == w \o f
           t == Taken(d)
<1>1. w \in Bytes /\ l \in Bytes /\ data[d] \in Bytes /\ buf[d] \in Bytes
  BY DEF IpcShape
<1>2. Len(w) \in Nat /\ Len(l) \in Nat /\ Len(buf[d]) \in Nat /\ t \in Nat
  BY <1>1 DEF Bytes, Taken
<1>3. Size(data[d]) \in Nat
  BY <1>1, FrameBytes
<1>4. n \in 0 .. Len(l)
  BY <1>2
<1>5. f \in Bytes /\ Len(f) = n /\ \A i \in 1 .. n : f[i] = l[i]
  BY <1>1, <1>4, Cut, Zenon
<1> HIDE DEF f
<1>6. /\ Len(w2) = Len(w) + n
      /\ \A i \in 1 .. Len(w) : w2[i] = w[i]
      /\ \A i \in 1 .. n : w2[Len(w) + i] = f[i]
  <2>1. /\ Len(w2) = Len(w) + Len(f)
        /\ \A i \in 1 .. Len(w) : w2[i] = w[i]
        /\ \A i \in 1 .. Len(f) : w2[Len(w) + i] = f[i]
    BY <1>1, <1>5, Joined, Zenon
  <2> QED BY <1>5, <2>1, Zenon
<1>7. wire'[d] = w2
  BY DEF f
<1>8. Taken(d)' = t
  BY DEF Taken
<1>9. RecvInv(d)'
  BY DEF Stream, RecvInv, BodySoFar
<1>10. ASSUME rpc[d] # "failed"
       PROVE  /\ t + Len(w2) <= 4 + Size(data[d])
              /\ \A i \in 1 .. Len(w2) : w2[i] = FrameByte(data[d], t + i)
  <2>1. /\ t + Len(w) + Len(l) = end
        /\ \A i \in 1 .. Len(l) : l[i] = FrameByte(data[d], t + Len(w) + i)
    BY <1>10 DEF LeftUpTo
  <2>2. \A i \in 1 .. Len(w) : w[i] = FrameByte(data[d], t + i)
    BY <1>10 DEF Stream, WireInv
  <2> HIDE DEF w, l, t, w2
  <2>3. t + Len(w2) <= 4 + Size(data[d])
    BY <1>2, <1>3, <1>4, <1>6, <2>1
  <2>4. ASSUME NEW i \in 1 .. Len(w2) PROVE w2[i] = FrameByte(data[d], t + i)
    <3>1. CASE i <= Len(w)
      BY <1>2, <1>6, <2>2, <3>1
    <3>2. CASE i > Len(w)
      <4> DEFINE k == i - Len(w)
      <4>1. k \in 1 .. n /\ k \in 1 .. Len(l) /\ Len(w) + k = i
            /\ t + Len(w) + k = t + i
        <5>1. i \in Int /\ 1 <= i /\ i <= Len(w) + n
          BY <1>2, <1>4, <1>6
        <5>2. n \in Int /\ n <= Len(l)
          BY <1>2, <1>4
        <5>3. k \in Int /\ Len(w) + k = i
          BY <1>2, <5>1
        <5> HIDE DEF k
        <5>4. k >= 1 /\ k <= n /\ k <= Len(l)
          BY <1>2, <3>2, <5>1, <5>2, <5>3
        <5>5. t + Len(w) + k = t + i
          <6>1. \A a \in Int : a + k = i => t + a + k = t + i
            BY <1>2, <5>1, <5>3
          <6>2. Len(w) \in Int
            BY <1>2
          <6> QED BY <5>3, <6>1, <6>2, Zenon
        <5> QED BY <1>2, <5>2, <5>3, <5>4, <5>5
      <4> HIDE DEF k
      <4>2. w2[Len(w) + k] = f[k] /\ f[k] = l[k]
        BY <1>5, <1>6, <4>1, Zenon
      <4>3. l[k] = FrameByte(data[d], t + Len(w) + k)
        BY <2>1, <4>1, Zenon
      <4> QED BY <4>1, <4>2, <4>3, Zenon
    <3> QED BY <1>2, <1>6, <3>1, <3>2
  <2> QED BY <2>3, <2>4
<1> HIDE DEF w2
<1>11. WireInv(d)'
  <2> SUFFICES ASSUME rpc[d] # "failed"
               PROVE  /\ Taken(d)' + Len(wire'[d]) <= 4 + Size(data[d])
                      /\ \A i \in 1 .. Len(wire'[d]) :
                           wire'[d][i] = FrameByte(data[d], Taken(d)' + i)
    BY DEF WireInv
  <2> QED BY <1>7, <1>8, <1>10, Zenon
<1> QED BY <1>6, <1>7, <1>9, <1>11

(* Bytes that the receiver takes from the socket.                          *)
LEMMA StreamTake ==
  ASSUME IpcShape, NEW d \in Directions, Stream(d), NEW n \in 1 .. Len(wire[d]),
         rpc[d] # "failed", Taken(d)' = Taken(d) + n, data[d] # None,
         data'[d] = data[d], spc'[d] = spc[d], left'[d] = left[d],
         wire'[d] = SubSeq(wire[d], n + 1, Len(wire[d]))
  PROVE  WireInv(d)' /\ SendInv(d)'
<1> DEFINE w == wire[d]
           l == left[d]
           w2 == SubSeq(w, n + 1, Len(w))
           t == Taken(d)
           a == Len(w)
           b == Len(l)
<1>1. w \in Bytes /\ l \in Bytes /\ data[d] \in Bytes /\ buf[d] \in Bytes
  BY DEF IpcShape
<1>2. a \in Nat /\ b \in Nat /\ t \in Nat
  BY <1>1 DEF Bytes, Taken
<1>3. n \in Int /\ 1 <= n /\ n <= a /\ n \in 0 .. a
  BY <1>2
<1>4. Len(w2) = a - n /\ \A i \in 1 .. a - n : w2[i] = w[n + i]
  BY <1>1, <1>3, Cut, Zenon
<1>5. Size(data[d]) \in Nat
  BY <1>1, FrameBytes
<1>6. /\ t + a <= 4 + Size(data[d])
      /\ \A i \in 1 .. a : w[i] = FrameByte(data[d], t + i)
  BY DEF Stream, WireInv
<1>7. Taken(d)' = t + n /\ wire'[d] = w2
  OBVIOUS
<1>8. /\ spc[d] # "idle" /\ data'[d] # None
      /\ spc[d] = "header" => LeftUpTo(d, 4)
      /\ spc[d] = "body" => LeftUpTo(d, 4 + Size(data[d]))
  BY DEF Stream, SendInv
<1> HIDE DEF w, w2, l, t, a, b
<1>9. WireInv(d)'
  <2>1. (t + n) + (a - n) <= 4 + Size(data[d])
    BY <1>2, <1>3, <1>5, <1>6
  <2>2. ASSUME NEW i \in 1 .. a - n PROVE w2[i] = FrameByte(data[d], (t + n) + i)
    <3>1. n + i \in 1 .. a /\ t + (n + i) = (t + n) + i
      BY <1>2, <1>3
    <3> QED BY <1>4, <1>6, <3>1
  <2>3. Taken(d)' + Len(wire'[d]) <= 4 + Size(data[d])
    BY <1>4, <1>7, <2>1, Zenon
  <2>4. \A i \in 1 .. Len(wire'[d]) :
          wire'[d][i] = FrameByte(data[d], Taken(d)' + i)
    BY <1>4, <1>7, <2>2, Zenon
  <2> QED BY <2>3, <2>4 DEF WireInv
<1>10. ASSUME NEW end \in Nat, LeftUpTo(d, end) PROVE LeftUpTo(d, end)'
  <2>1. /\ Len(l) > 0 /\ t + a + b = end
        /\ \A i \in 1 .. b : l[i] = FrameByte(data[d], t + a + i)
    BY <1>10 DEF LeftUpTo, l, t, a, b, w
  <2>2. (t + n) + (a - n) = t + a
    BY <1>2, <1>3
  <2>3. Taken(d)' + Len(wire'[d]) = t + a
    BY <1>4, <1>7, <2>2, Zenon
  <2>4. left'[d] = l /\ Len(left'[d]) = b
    BY DEF l, b
  <2> QED BY <2>1, <2>3, <2>4, Zenon DEF LeftUpTo
<1>11. SendInv(d)'
  <2>1. spc[d] = "header" => LeftUpTo(d, 4)'
    BY <1>8, <1>10
  <2>2. PICK e \in Nat : e = 4 + Size(data[d])
    BY <1>5
  <2>3. spc[d] = "body" => LeftUpTo(d, e)
    BY <1>8, <2>2
  <2>4. spc[d] = "body" => LeftUpTo(d, e)'
    BY <1>10, <2>3
  <2>5. e = 4 + Size(data'[d])
    BY <2>2
  <2> QED BY <1>8, <2>1, <2>4, <2>5 DEF SendInv, LeftUpTo
<1> QED BY <1>9, <1>11

(* One send(): the bytes that are left of the header or of the body.       *)
LEMMA StreamSendSome ==
  ASSUME IpcShape, NEW d \in Directions, Stream(d), SendSome(d)
  PROVE  Stream(d)'
<1> DEFINE l == left[d]
           s == data[d]
           t == Taken(d)
           a == Len(wire[d])
<1>1. spc[d] \in {"header", "body"}
  BY DEF SendSome
<1>2. s # None /\ s \in Bytes /\ l \in Bytes /\ wire[d] \in Bytes /\ buf[d] \in Bytes
  BY <1>1 DEF Stream, SendInv, IpcShape
<1>3. /\ Size(s) \in Nat /\ Body(s) \in Bytes /\ Len(Body(s)) = Size(s)
      /\ \A i \in 1 .. Size(s) : Body(s)[i] = s[i]
  BY <1>2, BodyBytes, FrameBytes
<1>4. PICK end \in Nat : end = IF spc[d] = "header" THEN 4 ELSE 4 + Size(s)
  BY <1>3
<1>5. LeftUpTo(d, end) /\ end <= 4 + Size(s)
  BY <1>1, <1>3, <1>4 DEF Stream, SendInv
<1>6. Len(l) \in Nat /\ a \in Nat /\ t \in Nat
  BY <1>2 DEF Bytes, Taken
<1>7. PICK n \in 1 .. Len(l) :
        /\ wire' = [wire EXCEPT ![d] = @ \o SubSeq(l, 1, n)]
        /\ LET rest == SubSeq(l, n + 1, Len(l))
               body == spc[d] = "header" /\ Body(s) # <<>>
           IN  IF rest # <<>>
               THEN left' = [left EXCEPT ![d] = rest] /\ UNCHANGED spc
               ELSE /\ spc' = [spc EXCEPT ![d] = IF body THEN "body" ELSE "ok"]
                    /\ left' = [left EXCEPT ![d] = IF body THEN Body(s) ELSE <<>>]
  BY DEF SendSome
<1>8. data' = data /\ rpc' = rpc /\ need' = need /\ buf' = buf
  BY DEF SendSome
<1>9. wire'[d] = wire[d] \o SubSeq(l, 1, n)
  BY <1>7 DEF IpcShape
<1>10. RecvInv(d)' /\ WireInv(d)' /\ Len(wire'[d]) = a + n
  BY <1>2, <1>5, <1>8, <1>9, StreamSend
<1>11. Taken(d)' = t
  BY <1>8 DEF Taken
<1> DEFINE rest == SubSeq(l, n + 1, Len(l))
<1>12. n \in Int /\ 1 <= n /\ n <= Len(l) /\ n \in 0 .. Len(l)
  BY <1>6
<1>13. /\ rest \in Bytes /\ Len(rest) = Len(l) - n
       /\ \A i \in 1 .. Len(l) - n : rest[i] = l[n + i]
  BY <1>2, <1>12, Cut, Zenon
<1>14. rpc[d] # "failed" =>
         /\ t + a + Len(l) = end
         /\ \A i \in 1 .. Len(l) : l[i] = FrameByte(s, t + a + i)
  BY <1>5 DEF LeftUpTo
<1>15. CASE rest # <<>>
  <2>1. left'[d] = rest /\ spc' = spc
    BY <1>7, <1>15 DEF IpcShape
  <2>2. Len(rest) # 0
    BY <1>13, <1>15, EmptySeq DEF Bytes
  <2> DEFINE b == Len(l)
  <2>3. Len(rest) > 0
    <3> HIDE DEF rest
    <3> QED BY <1>6, <1>12, <1>13, <2>2
  <2> HIDE DEF rest, t, a, l
  <2>4. b \in Nat /\ n <= b /\ Len(rest) = b - n
    BY <1>6, <1>12, <1>13
  <2>5. ASSUME rpc[d] # "failed"
        PROVE  /\ t + (a + n) + (b - n) = end
               /\ \A i \in 1 .. b - n : rest[i] = FrameByte(s, t + (a + n) + i)
    <3>1. t + a + b = end /\ \A i \in 1 .. b : l[i] = FrameByte(s, t + a + i)
      BY <1>14, <2>5, Zenon
    <3>2. \A i \in 1 .. b - n : rest[i] = l[n + i]
      BY <1>13, Zenon
    <3> HIDE DEF b
    <3>3. t + (a + n) + (b - n) = end
      BY <1>6, <1>12, <2>4, <3>1
    <3>4. ASSUME NEW i \in 1 .. b - n PROVE rest[i] = FrameByte(s, t + (a + n) + i)
      <4>1. n + i \in 1 .. b /\ t + a + (n + i) = t + (a + n) + i
        BY <1>6, <1>12, <2>4
      <4>2. rest[i] = l[n + i] /\ l[n + i] = FrameByte(s, t + a + (n + i))
        BY <3>1, <3>2, <4>1
      <4> QED BY <4>1, <4>2, Zenon
    <3> QED BY <3>3, <3>4
  <2>6. LeftUpTo(d, end)'
    <3>1. Len(left'[d]) > 0
      BY <2>1, <2>3, Zenon
    <3>2. /\ Len(left'[d]) = b - n /\ Len(wire'[d]) = a + n /\ Taken(d)' = t
          /\ rpc' = rpc /\ data' = data /\ left'[d] = rest
      BY <1>8, <1>10, <1>11, <2>1, <2>4, Zenon
    <3>3. rpc[d] # "failed" =>
            /\ Taken(d)' + Len(wire'[d]) + Len(left'[d]) = end
            /\ \A i \in 1 .. Len(left'[d]) :
                 left'[d][i] = FrameByte(data[d], Taken(d)' + Len(wire'[d]) + i)
      BY <2>5, <3>2, Zenon
    <3> QED BY <3>1, <3>2, <3>3, Zenon DEF LeftUpTo
  <2>7. SendInv(d)'
    BY <1>1, <1>2, <1>4, <1>8, <2>1, <2>6 DEF SendInv, LeftUpTo
  <2> QED BY <1>10, <2>7 DEF Stream
<1>16. CASE rest = <<>> /\ spc[d] = "header" /\ Body(s) # <<>>
  <2>1. left'[d] = Body(s) /\ spc'[d] = "body"
    BY <1>7, <1>16 DEF IpcShape
  <2>2. Len(rest) = 0
    <3> HIDE DEF rest
    <3> QED BY <1>16
  <2>3. n = Len(l)
    <3> HIDE DEF rest
    <3> QED BY <1>6, <1>12, <1>13, <2>2
  <2>4. Size(s) > 0
    <3>1. Len(Body(s)) # 0
      BY <1>3, <1>16, EmptySeq DEF Bytes
    <3> QED BY <1>3, <3>1
  <2>5. LeftUpTo(d, 4 + Size(s))'
    <3>1. Len(left'[d]) = Size(s) /\ Len(left'[d]) > 0
      BY <1>3, <2>1, <2>4
    <3> SUFFICES ASSUME rpc[d] # "failed"
                 PROVE  /\ t + (a + n) + Size(s) = 4 + Size(s)
                        /\ \A i \in 1 .. Size(s) :
                             Body(s)[i] = FrameByte(s, t + (a + n) + i)
      BY <1>8, <1>10, <1>11, <2>1, <3>1 DEF LeftUpTo
    <3>2. t + a + n = 4
      BY <1>4, <1>14, <1>16, <2>3
    <3> HIDE DEF t, a, rest
    <3>3. t + (a + n) = 4
      BY <1>6, <1>12, <3>2
    <3>4. ASSUME NEW i \in 1 .. Size(s) PROVE Body(s)[i] = FrameByte(s, 4 + i)
      <4>1. i \in Nat /\ i > 0
        BY <1>3
      <4> QED BY <1>2, <1>3, <4>1, FrameBytes
    <3> QED BY <3>3, <3>4
  <2>6. SendInv(d)'
    BY <1>2, <1>8, <2>1, <2>5 DEF SendInv
  <2> QED BY <1>10, <2>6 DEF Stream
<1>17. CASE rest = <<>> /\ ~(spc[d] = "header" /\ Body(s) # <<>>)
  <2>1. spc'[d] = "ok"
    BY <1>7, <1>17 DEF IpcShape
  <2>2. SendInv(d)'
    BY <1>2, <1>8, <2>1 DEF SendInv
  <2> QED BY <1>10, <2>2 DEF Stream
<1> QED BY <1>15, <1>16, <1>17

(* One recv(): the receiver's bytes stay the beginning of the frame, and   *)
(* the four bytes of the header give the length of the body.               *)
LEMMA StreamRecvSome ==
  ASSUME IpcShape, NEW d \in Directions, Stream(d), RecvSome(d)
  PROVE  Stream(d)'
<1> DEFINE s == data[d]
           w == wire[d]
           t == Taken(d)
           b == buf[d]
           m == need[d]
<1>1. rpc[d] \in {"header", "body"}
  BY DEF RecvSome
<1>2. PICK n \in 1 .. Len(w) :
        /\ n <= m
        /\ wire' = [wire EXCEPT ![d] = SubSeq(@, n + 1, Len(@))]
        /\ LET read == b \o SubSeq(w, 1, n)
               size == Length(read)
           IN  IF n < m
               THEN /\ need' = [need EXCEPT ![d] = @ - n]
                    /\ buf' = [buf EXCEPT ![d] = read]
                    /\ UNCHANGED rpc
               ELSE IF rpc[d] = "header"
               THEN /\ need' = [need EXCEPT ![d] = size]
                    /\ buf' = [buf EXCEPT ![d] = <<>>]
                    /\ rpc' = [rpc EXCEPT ![d] = IF size = 0 THEN "ok"
                                                             ELSE "body"]
               ELSE /\ need' = [need EXCEPT ![d] = 0]
                    /\ buf' = [buf EXCEPT ![d] = read]
                    /\ rpc' = [rpc EXCEPT ![d] = "ok"]
  BY DEF RecvSome
<1>3. data' = data /\ spc' = spc /\ left' = left
  BY DEF RecvSome
<1>4. b \in Bytes /\ w \in Bytes /\ m \in Nat
  BY DEF IpcShape
<1>5. Len(b) \in Nat /\ Len(w) \in Nat /\ t \in Nat
  BY <1>4 DEF Bytes, Taken
<1>6. n \in Int /\ 1 <= n /\ n <= Len(w) /\ n \in 0 .. Len(w)
  BY <1>5
<1>7. s # None /\ s \in Bytes
  <2>1. Len(w) # 0
    BY <1>5, <1>6
  <2> QED BY <1>1, <2>1 DEF Stream, WireInv, IpcShape
<1>8. Size(s) \in Nat
  BY <1>7, FrameBytes
<1> DEFINE f == SubSeq(w, 1, n)
           read == b \o f
<1>9. f \in Bytes /\ Len(f) = n /\ \A i \in 1 .. n : f[i] = w[i]
  BY <1>4, <1>6, Cut, Zenon
<1>10. /\ read \in Bytes /\ Len(read) = Len(b) + Len(f)
       /\ \A i \in 1 .. Len(b) : read[i] = b[i]
       /\ \A i \in 1 .. Len(f) : read[Len(b) + i] = f[i]
  <2> HIDE DEF f
  <2> QED BY <1>4, <1>9, Joined, Zenon
<1>11. \A i \in 1 .. n : w[i] = FrameByte(s, t + i)
  BY <1>1, <1>5, <1>6 DEF Stream, WireInv
<1>12. wire'[d] = SubSeq(wire[d], n + 1, Len(wire[d]))
  BY <1>2 DEF IpcShape
<1>13. /\ n < m => need'[d] = m - n /\ buf'[d] = read /\ rpc'[d] = rpc[d]
       /\ ~(n < m) /\ rpc[d] = "header" =>
            /\ need'[d] = Length(read) /\ buf'[d] = <<>>
            /\ rpc'[d] = IF Length(read) = 0 THEN "ok" ELSE "body"
       /\ ~(n < m) /\ rpc[d] = "body" =>
            need'[d] = 0 /\ buf'[d] = read /\ rpc'[d] = "ok"
  BY <1>2 DEF IpcShape
<1>14. ~(n < m) => n = m
  BY <1>2, <1>4, <1>6
<1> DEFINE k == Len(b)
<1>15. Len(read) = k + n
  BY <1>9, <1>10, Zenon
<1>16. ASSUME NEW i \in 1 .. k + n PROVE read[i] = IF i <= k THEN b[i] ELSE FrameByte(s, t + (i - k))
  <2> HIDE DEF read, f, t, w, s
  <2>1. CASE i <= k
    BY <1>5, <1>6, <1>10, <2>1
  <2>2. CASE ~(i <= k)
    <3> DEFINE j == i - k
    <3>1. k \in Nat
      BY <1>5
    <3> HIDE DEF k
    <3>2. j \in 1 .. n /\ k + j = i
      BY <1>6, <2>2, <3>1
    <3>3. read[k + j] = f[j]
      <4>1. \A x \in 1 .. n : read[k + x] = f[x]
        BY <1>9, <1>10, Zenon DEF k
      <4> QED BY <3>2, <4>1, Zenon
    <3>4. f[j] = w[j] /\ w[j] = FrameByte(s, t + j)
      BY <1>9, <1>11, <3>2, Zenon
    <3> QED BY <2>2, <3>2, <3>3, <3>4
  <2> QED BY <2>1, <2>2
<1> HIDE DEF read, f
<1>17. CASE rpc[d] = "header"
  <2>1. /\ k + m = 4 /\ t = k
        /\ \A i \in 1 .. k : b[i] = Header(Size(s))[i]
    BY <1>17 DEF Stream, RecvInv, Taken
  <2>2. ASSUME NEW i \in 1 .. k + n PROVE read[i] = Header(Size(s))[i]
    <3> DEFINE c == Header(Size(s))
    <3>1. k \in Nat /\ n <= m
      BY <1>2, <1>5
    <3>2. read[i] = IF i <= k THEN b[i] ELSE FrameByte(s, t + (i - k))
      BY <1>16
    <3>3. i <= k => b[i] = c[i]
      BY <2>1, <3>1
    <3> HIDE DEF k, c
    <3>4. ~(i <= k) => t + (i - k) = i /\ i \in 1 .. 4
      BY <1>4, <1>6, <2>1, <3>1
    <3>5. ~(i <= k) => FrameByte(s, i) = c[i]
      BY <1>7, <3>4, FrameBytes, Zenon DEF c
    <3>6. read[i] = c[i]
      BY <3>2, <3>3, <3>4, <3>5, Zenon
    <3> QED BY <3>6 DEF c
  <2>3. CASE n < m
    <3>1. need'[d] = m - n /\ buf'[d] = read /\ rpc'[d] = "header"
      BY <1>13, <1>17, <2>3
    <3>2. Len(buf'[d]) = k + n
      BY <1>15, <3>1, Zenon
    <3>3. Taken(d)' = k + n
      BY <3>1, <3>2 DEF Taken
    <3>4. RecvInv(d)'
      <4>1. need'[d] \in 1 .. 4 /\ k + n + need'[d] = 4
        <5>1. k \in Nat
          BY <1>5
        <5> HIDE DEF k
        <5> QED BY <1>4, <1>6, <2>1, <2>3, <3>1, <5>1
      <4>2. Len(buf'[d]) + need'[d] = 4
        BY <3>2, <4>1, Zenon
      <4>3. \A i \in 1 .. Len(buf'[d]) : buf'[d][i] = Header(Size(data'[d]))[i]
        BY <1>3, <2>2, <3>1, <3>2, Zenon
      <4> QED BY <3>1, <4>1, <4>2, <4>3 DEF RecvInv
    <3>5. Taken(d)' = Taken(d) + n
      BY <2>1, <3>3, Zenon
    <3>6. WireInv(d)' /\ SendInv(d)'
      BY <1>3, <1>7, <1>12, <1>17, <3>5, StreamTake
    <3> QED BY <3>4, <3>6 DEF Stream
  <2>4. CASE ~(n < m)
    <3>1. k + n = 4
      BY <1>14, <2>1, <2>4, Zenon
    <3>2. read = Header(Size(s))
      <4>1. Len(read) = 4 /\ \A i \in 1 .. 4 : read[i] = Header(Size(s))[i]
        BY <1>15, <2>2, <3>1, Zenon
      <4>2. Header(Size(s)) \in Bytes /\ Len(Header(Size(s))) = 4
        BY <1>7, FrameBytes
      <4>3. read \in Seq(Byte) /\ Header(Size(s)) \in Seq(Byte)
        BY <1>10, <4>2 DEF Bytes
      <4> QED BY <4>1, <4>2, <4>3, SeqEqual, Zenon
    <3>3. Length(read) = Size(s)
      BY <1>7, <3>2, FrameBytes
    <3>4. /\ need'[d] = Size(s) /\ buf'[d] = <<>>
          /\ rpc'[d] = IF Size(s) = 0 THEN "ok" ELSE "body"
      BY <1>13, <1>17, <2>4, <3>3
    <3>5. Len(buf'[d]) = 0
      BY <3>4
    <3>6. Taken(d)' = 4
      <4>1. rpc'[d] \notin {"idle", "header"}
        BY <3>4
      <4> QED BY <3>5, <4>1 DEF Taken
    <3>7. RecvInv(d)'
      <4>1. BodySoFar(d)'
        BY <1>3, <1>7, <1>8, <3>4, <3>5 DEF BodySoFar
      <4> QED BY <1>8, <3>4, <4>1 DEF RecvInv
    <3>8. Taken(d)' = Taken(d) + n
      BY <2>1, <3>1, <3>6, Zenon
    <3>9. WireInv(d)' /\ SendInv(d)'
      BY <1>3, <1>7, <1>12, <1>17, <3>8, StreamTake
    <3> QED BY <3>7, <3>9 DEF Stream
  <2> QED BY <2>3, <2>4
<1>18. CASE rpc[d] = "body"
  <2>1. /\ k + m = Size(s) /\ t = 4 + k
        /\ \A i \in 1 .. k : b[i] = s[i]
    BY <1>18 DEF Stream, RecvInv, BodySoFar, Taken
  <2>2. ASSUME NEW i \in 1 .. k + n PROVE read[i] = s[i]
    <3>1. k \in Nat
      BY <1>5
    <3>2. read[i] = IF i <= k THEN b[i] ELSE FrameByte(s, t + (i - k))
      BY <1>16
    <3>3. i <= k => b[i] = s[i]
      BY <2>1, <3>1
    <3> HIDE DEF k, s
    <3>4. ~(i <= k) => t + (i - k) = 4 + i /\ i \in Nat /\ i > 0
      BY <1>6, <2>1, <3>1
    <3>5. ~(i <= k) => FrameByte(s, 4 + i) = s[i]
      BY <1>7, <3>4, FrameBytes, Zenon
    <3> QED BY <3>2, <3>3, <3>4, <3>5, Zenon
  <2>3. buf'[d] = read /\ need'[d] = m - n /\ rpc'[d] = IF n < m THEN "body" ELSE "ok"
    <3>1. n = m => m - n = 0
      BY <1>4
    <3> QED BY <1>13, <1>14, <1>18, <3>1
  <2>4. Len(buf'[d]) = k + n
    BY <1>15, <2>3, Zenon
  <2>5. Taken(d)' = 4 + (k + n)
    <3>1. rpc'[d] \notin {"idle", "header"}
      BY <2>3
    <3> QED BY <2>4, <3>1, Zenon DEF Taken
  <2>6. BodySoFar(d)'
    <3>1. (k + n) + (m - n) = Size(s)
      <4>1. k \in Nat
        BY <1>5
      <4> HIDE DEF k, s
      <4> QED BY <1>4, <1>6, <2>1, <4>1
    <3>2. Len(buf'[d]) + need'[d] = Size(data'[d])
      BY <1>3, <2>3, <2>4, <3>1, Zenon
    <3>3. \A i \in 1 .. Len(buf'[d]) : buf'[d][i] = data'[d][i]
      BY <1>3, <2>2, <2>3, <2>4, Zenon
    <3> QED BY <1>3, <1>7, <3>2, <3>3 DEF BodySoFar
  <2>7. RecvInv(d)'
    <3>1. n < m => need'[d] > 0
      BY <1>4, <1>6, <2>3
    <3>2. ~(n < m) => need'[d] = 0
      BY <1>4, <1>14, <2>3
    <3> QED BY <2>3, <2>6, <3>1, <3>2 DEF RecvInv
  <2>8. Taken(d)' = Taken(d) + n
    <3>1. k \in Nat
      BY <1>5
    <3> HIDE DEF k
    <3>2. 4 + (k + n) = (4 + k) + n
      BY <1>6, <3>1
    <3> QED BY <2>1, <2>5, <3>2, Zenon
  <2>9. WireInv(d)' /\ SendInv(d)'
    BY <1>3, <1>7, <1>12, <1>18, <2>8, StreamTake
  <2> QED BY <2>7, <2>9 DEF Stream
<1> QED BY <1>1, <1>17, <1>18

(* A failed send leaves what is in the socket; a failed receive ends what  *)
(* is known of it.                                                         *)
LEMMA StreamSendFails ==
  ASSUME IpcShape, NEW d \in Directions, Stream(d), SendFails(d)
  PROVE  Stream(d)'
<1>1. /\ spc[d] \in {"header", "body"} /\ spc'[d] = "failed" /\ data' = data
      /\ wire' = wire /\ rpc' = rpc /\ need' = need /\ buf' = buf
  BY DEF SendFails, IpcShape
<1>2. RecvInv(d)'
  BY <1>1 DEF Stream, RecvInv, BodySoFar
<1>3. WireInv(d)'
  BY <1>1 DEF Stream, WireInv, Taken
<1>4. SendInv(d)'
  BY <1>1 DEF Stream, SendInv
<1> QED BY <1>2, <1>3, <1>4 DEF Stream

LEMMA StreamRecvFails ==
  ASSUME IpcShape, NEW d \in Directions, Stream(d), RecvFails(d)
  PROVE  Stream(d)'
<1>1. rpc'[d] = "failed" /\ data' = data /\ spc' = spc /\ left' = left
  BY DEF RecvFails, IpcShape
<1>2. RecvInv(d)' /\ WireInv(d)'
  BY <1>1 DEF RecvInv, WireInv
<1>3. SendInv(d)'
  BY <1>1 DEF Stream, SendInv, LeftUpTo
<1> QED BY <1>2, <1>3 DEF Stream

(* Before the first byte, nothing is in the socket or has been read.       *)
LEMMA StreamBeginSend ==
  ASSUME IpcShape, NEW d \in Directions, Stream(d), data[d] = None,
         NEW s \in Bytes, BeginSend(d, s),
         wire' = wire, rpc' = rpc, need' = need, buf' = buf
  PROVE  Stream(d)'
<1> DEFINE h == Header(Size(s))
<1>1. data'[d] = s /\ spc'[d] = "header" /\ left'[d] = h
  BY DEF BeginSend, IpcShape, Size
<1>2. s # None
  BY IpcAssumption DEF Bytes
<1>3. /\ Size(s) \in Nat /\ h \in Bytes /\ Len(h) = 4
      /\ \A i \in 1 .. 4 : FrameByte(s, i) = h[i]
  BY FrameBytes
<1> HIDE DEF h
<1>4. Taken(d)' = Taken(d)
  BY DEF Taken
<1>5. rpc[d] # "failed" => Len(wire[d]) = 0 /\ Taken(d) = 0
  BY DEF Stream, WireInv
<1>6. rpc[d] \notin {"body", "ok"}
  BY DEF Stream, RecvInv, BodySoFar
<1>7. RecvInv(d)'
  <2>1. rpc[d] = "idle" => Len(buf[d]) = 0
    BY DEF Stream, RecvInv
  <2>2. rpc[d] = "header" => Len(buf[d]) = 0 /\ need[d] = 4
    <3>1. need[d] \in Nat
      BY DEF IpcShape
    <3> QED BY <1>5, <3>1 DEF Stream, RecvInv, Taken
  <2> QED BY <1>6, <2>1, <2>2 DEF RecvInv
<1>8. WireInv(d)'
  <2> SUFFICES ASSUME rpc[d] # "failed"
               PROVE  /\ Taken(d)' + Len(wire'[d]) <= 4 + Size(s)
                      /\ \A i \in 1 .. Len(wire'[d]) :
                           wire'[d][i] = FrameByte(s, Taken(d)' + i)
    BY <1>1, <1>2 DEF WireInv
  <2>1. Taken(d)' = 0 /\ Len(wire'[d]) = 0
    BY <1>4, <1>5
  <2> QED BY <1>3, <2>1
<1>9. LeftUpTo(d, 4)'
  <2>1. Len(left'[d]) = 4
    BY <1>1, <1>3
  <2> SUFFICES ASSUME rpc[d] # "failed"
               PROVE  /\ Taken(d)' + Len(wire'[d]) + Len(left'[d]) = 4
                      /\ \A i \in 1 .. Len(left'[d]) : left'[d][i] =
                           FrameByte(s, Taken(d)' + Len(wire'[d]) + i)
    BY <1>1, <2>1 DEF LeftUpTo
  <2>2. Taken(d)' = 0 /\ Len(wire'[d]) = 0
    BY <1>4, <1>5
  <2> QED BY <1>1, <1>3, <2>1, <2>2
<1>10. SendInv(d)'
  BY <1>1, <1>2, <1>9 DEF SendInv
<1> QED BY <1>7, <1>8, <1>10 DEF Stream

LEMMA StreamBeginRecv ==
  ASSUME IpcShape, NEW d \in Directions, Stream(d), rpc[d] = "idle", BeginRecv(d),
         data' = data, spc' = spc, left' = left, wire' = wire, buf' = buf
  PROVE  Stream(d)'
<1>1. rpc'[d] = "header" /\ need'[d] = 4
  BY DEF BeginRecv, IpcShape
<1>2. Taken(d)' = Taken(d)
  BY <1>1 DEF Taken
<1>3. RecvInv(d)'
  <2>1. Len(buf'[d]) = 0
    BY DEF Stream, RecvInv
  <2> QED BY <1>1, <2>1 DEF RecvInv
<1>4. WireInv(d)'
  BY <1>1, <1>2 DEF Stream, WireInv
<1>5. SendInv(d)'
  BY <1>1, <1>2 DEF Stream, SendInv, LeftUpTo
<1> QED BY <1>3, <1>4, <1>5 DEF Stream

(* Every step leaves both directions in order.                             *)
LEMMA StreamStep == IpcInv /\ [Next]_vars => StreamInv'
<1> SUFFICES ASSUME IpcInv, [Next]_vars, NEW e \in Directions PROVE Stream(e)'
  BY DEF StreamInv
<1>1. IpcShape /\ Stream(e) /\ ExchangeInv
  BY DEF IpcInv, StreamInv
<1>2. ASSUME NEW d \in Directions, Transfer(d) PROVE Stream(e)'
  <2>1. CASE d = e
    BY <1>1, <1>2, <2>1, StreamSendSome, StreamSendFails, StreamRecvSome,
       StreamRecvFails DEF Transfer
  <2>2. CASE d # e
    <3>1. /\ data'[e] = data[e] /\ spc'[e] = spc[e] /\ left'[e] = left[e]
          /\ wire'[e] = wire[e] /\ rpc'[e] = rpc[e] /\ need'[e] = need[e]
          /\ buf'[e] = buf[e]
      <4>1. CASE SendSome(d)
        BY <1>1, <2>2, <4>1 DEF SendSome, IpcShape
      <4>2. CASE SendFails(d)
        BY <1>1, <2>2, <4>2 DEF SendFails, IpcShape
      <4>3. CASE RecvSome(d)
        BY <1>1, <2>2, <4>3 DEF RecvSome, IpcShape
      <4>4. CASE RecvFails(d)
        BY <1>1, <2>2, <4>4 DEF RecvFails, IpcShape
      <4> QED BY <1>2, <4>1, <4>2, <4>3, <4>4 DEF Transfer
    <3> QED BY <1>1, <3>1, StreamFrame
  <2> QED BY <2>1, <2>2
<1>3. CASE Schedule
  <2>1. PICK j \in Jobs : BeginSend("job", Message(j))
    BY <1>3 DEF Schedule
  <2>2. Message(j) \in Bytes
    BY MessageBytes
  <2>3. data["job"] = None
    BY <1>1, <1>3, IpcAssumption DEF ExchangeInv, Schedule
  <2>4. wire' = wire /\ rpc' = rpc /\ need' = need /\ buf' = buf
    BY <1>3 DEF Schedule
  <2>5. CASE e = "job"
    BY <1>1, <2>1, <2>2, <2>3, <2>4, <2>5, StreamBeginSend
  <2>6. CASE e # "job"
    <3>1. data'[e] = data[e] /\ spc'[e] = spc[e] /\ left'[e] = left[e]
      BY <1>1, <2>1, <2>6 DEF BeginSend, IpcShape
    <3> QED BY <1>1, <2>4, <3>1, StreamFrame
  <2> QED BY <2>5, <2>6
<1>4. CASE Wait
  <2>1. BeginRecv("reply") /\ rpc["reply"] = "idle" /\ data' = data /\ spc' = spc
        /\ left' = left /\ wire' = wire /\ buf' = buf
    BY <1>4 DEF Wait
  <2>2. CASE e = "reply"
    BY <1>1, <2>1, <2>2, StreamBeginRecv
  <2>3. CASE e # "reply"
    <3>1. rpc'[e] = rpc[e] /\ need'[e] = need[e]
      BY <1>1, <2>1, <2>3 DEF BeginRecv, IpcShape
    <3> QED BY <1>1, <2>1, <3>1, StreamFrame
  <2> QED BY <2>2, <2>3
<1>5. CASE HandleJob
  <2>1. PICK a \in Answers : BeginSend("reply", a)
    BY <1>5 DEF HandleJob
  <2>2. a \in Bytes
    BY IpcAssumption DEF Bytes
  <2>3. data["reply"] = None
    <3>1. Stream("reply")
      BY DEF IpcInv, StreamInv, Directions
    <3> QED BY <1>5, <3>1 DEF HandleJob, Stream, SendInv
  <2>4. wire' = wire /\ rpc' = rpc /\ need' = need /\ buf' = buf
    BY <1>5 DEF HandleJob
  <2>5. CASE e = "reply"
    BY <1>1, <2>1, <2>2, <2>3, <2>4, <2>5, StreamBeginSend
  <2>6. CASE e # "reply"
    <3>1. data'[e] = data[e] /\ spc'[e] = spc[e] /\ left'[e] = left[e]
      BY <1>1, <2>1, <2>6 DEF BeginSend, IpcShape
    <3> QED BY <1>1, <2>4, <3>1, StreamFrame
  <2> QED BY <2>5, <2>6
<1>6. CASE UNCHANGED <<data, spc, left, wire, rpc, need, buf>>
  BY <1>1, <1>6, StreamFrame
<1>7. UseLocal \/ Answered \/ CloseConnection \/ (\E x \in {"client", "server"} : Crash(x))
      \/ UNCHANGED vars => UNCHANGED <<data, spc, left, wire, rpc, need, buf>>
  BY DEF UseLocal, Answered, CloseConnection, Crash, vars
<1> QED BY <1>2, <1>3, <1>4, <1>5, <1>6, <1>7 DEF Next, Client, Server, Ended, vars

-----------------------------------------------------------------------------
(* Types and bounds.                                                       *)

LEMMA ByteAt ==
  ASSUME NEW h \in Bytes, NEW i \in 1 .. Len(h)
  PROVE  h[i] \in Byte
BY DEF Bytes

LEMMA LengthNat ==
  ASSUME NEW h \in Bytes, Len(h) = 4
  PROVE  Length(h) \in Nat
<1>1. h[1] \in Byte /\ h[2] \in Byte /\ h[3] \in Byte /\ h[4] \in Byte
  BY ByteAt
<1>2. h[1] \in Nat /\ h[2] \in Nat /\ h[3] \in Nat /\ h[4] \in Nat /\ Base \in Nat
  BY <1>1, IpcAssumption DEF Byte
<1>3. \A x, y \in Nat : x + Base * y \in Nat
  BY <1>2
<1>4. h[3] + Base * h[4] \in Nat
  BY <1>2, <1>3
<1>5. h[2] + Base * (h[3] + Base * h[4]) \in Nat
  BY <1>2, <1>3, <1>4
<1>6. h[1] + Base * (h[2] + Base * (h[3] + Base * h[4])) \in Nat
  BY <1>2, <1>3, <1>5
<1> QED BY <1>6 DEF Length

(* Init's states have the types, within the bounds.                        *)
LEMMA IpcInit == Init => IpcInv
<1> SUFFICES ASSUME Init PROVE IpcInv
  OBVIOUS
<1>1. <<>> \in Bytes /\ Len(<<>>) = 0
  BY DEF Bytes
<1>2. IpcShape
  BY <1>1 DEF Init, IpcShape, CallState
<1>3. StreamInv
  BY StreamInit
<1>4. ExchangeInv
  <2>1. data["job"] = None /\ data["reply"] = None /\ job = None /\ parsed = None
        /\ outcome = None
    BY DEF Init, Directions
  <2> QED BY <2>1, IpcAssumption DEF ExchangeInv
<1>5. \A d \in Directions : need[d] \in {0, 4} /\ Len(buf[d]) = 0 /\ Len(wire[d]) = 0
                            /\ rpc[d] # "body"
  BY <1>1 DEF Init
<1>6. IpcTypeOK
  <2>1. ASSUME NEW d \in Directions
        PROVE  /\ Len(wire[d]) <= Capacity /\ need[d] \in 0 .. Modulus - 1
               /\ rpc[d] = "body" => need[d] > 0
               /\ Len(buf[d]) + need[d] < Modulus
    BY <1>5, ModulusNat, IpcAssumption
  <2>2. job \in Jobs \cup {None} /\ outcome \in {None, "kUseLocal", "kSuccess", "kFailure"}
    BY DEF Init
  <2> QED BY <1>2, <2>1, <2>2 DEF IpcTypeOK, IpcShape
<1> QED BY <1>2, <1>3, <1>4, <1>6 DEF IpcInv

LEMMA ShapeSend ==
  ASSUME IpcInv, NEW d \in Directions, SendSome(d)
  PROVE  IpcShape' /\ \A e \in Directions : Len(wire'[e]) <= Capacity
<1>1. IpcShape /\ Stream(d) /\ \A e \in Directions : Len(wire[e]) <= Capacity
  BY DEF IpcInv, StreamInv, IpcTypeOK
<1>2. PICK n \in 1 .. Len(left[d]) :
        /\ Len(wire[d]) + n <= Capacity
        /\ wire' = [wire EXCEPT ![d] = @ \o SubSeq(left[d], 1, n)]
        /\ LET rest == SubSeq(left[d], n + 1, Len(left[d]))
               body == spc[d] = "header" /\ Body(data[d]) # <<>>
           IN  IF rest # <<>>
               THEN left' = [left EXCEPT ![d] = rest] /\ UNCHANGED spc
               ELSE /\ spc' = [spc EXCEPT ![d] = IF body THEN "body" ELSE "ok"]
                    /\ left' = [left EXCEPT ![d] = IF body THEN Body(data[d])
                                                           ELSE <<>>]
  BY DEF SendSome
<1>3. left[d] \in Bytes /\ wire[d] \in Bytes /\ data[d] \in Bytes
  BY <1>1 DEF IpcShape, SendSome, Stream, SendInv
<1>4. n \in 0 .. Len(left[d])
  BY <1>3 DEF Bytes
<1> DEFINE f == SubSeq(left[d], 1, n)
           r == SubSeq(left[d], n + 1, Len(left[d]))
<1>5. f \in Bytes /\ Len(f) = n /\ r \in Bytes
  BY <1>3, <1>4, Cut, Zenon
<1>6. Body(data[d]) \in Bytes /\ <<>> \in Bytes
  BY <1>3, BodyBytes DEF Bytes
<1> HIDE DEF f, r
<1>7. wire[d] \o f \in Bytes /\ Len(wire[d] \o f) = Len(wire[d]) + Len(f)
  BY <1>3, <1>5, Joined, Zenon
<1>8. wire' = [wire EXCEPT ![d] = wire[d] \o f]
  BY <1>2 DEF f
<1> DEFINE v == wire[d] \o f
<1>9. v \in Bytes /\ Len(v) <= Capacity /\ wire' = [wire EXCEPT ![d] = v]
  BY <1>2, <1>5, <1>7, <1>8, Zenon
<1> HIDE DEF v
<1>10. wire' \in [Directions -> Bytes] /\ \A e \in Directions : Len(wire'[e]) <= Capacity
  BY <1>1, <1>9 DEF IpcShape
<1>11. PICK x \in Bytes, y \in {"body", "ok", spc[d]} :
         left' = [left EXCEPT ![d] = x] /\ spc' = [spc EXCEPT ![d] = y]
  <2>1. CASE r # <<>>
    <3>1. left' = [left EXCEPT ![d] = r] /\ spc' = spc
      BY <1>2, <2>1 DEF r
    <3>2. spc' = [spc EXCEPT ![d] = spc[d]]
      BY <1>1, <3>1 DEF IpcShape
    <3> QED BY <1>5, <3>1, <3>2
  <2>2. CASE r = <<>>
    BY <1>2, <1>6, <2>2 DEF r
  <2> QED BY <2>1, <2>2
<1>12. left' \in [Directions -> Bytes] /\ spc' \in [Directions -> CallState]
  BY <1>1, <1>11 DEF IpcShape, CallState
<1>13. UNCHANGED <<open, data, rpc, need, buf>>
  BY DEF SendSome
<1> QED BY <1>1, <1>10, <1>12, <1>13 DEF IpcShape

LEMMA ShapeRecv ==
  ASSUME IpcInv, NEW d \in Directions, RecvSome(d)
  PROVE  /\ IpcShape' /\ \A e \in Directions : Len(wire'[e]) <= Capacity
         /\ rpc'[d] \in {"header", "body", "ok"}
<1>1. IpcShape /\ Stream(d) /\ \A e \in Directions : Len(wire[e]) <= Capacity
  BY DEF IpcInv, StreamInv, IpcTypeOK
<1> DEFINE w == wire[d]
           b == buf[d]
           m == need[d]
<1>2. PICK n \in 1 .. Len(w) :
        /\ n <= m
        /\ wire' = [wire EXCEPT ![d] = SubSeq(@, n + 1, Len(@))]
        /\ LET read == b \o SubSeq(w, 1, n)
               size == Length(read)
           IN  IF n < m
               THEN /\ need' = [need EXCEPT ![d] = @ - n]
                    /\ buf' = [buf EXCEPT ![d] = read]
                    /\ UNCHANGED rpc
               ELSE IF rpc[d] = "header"
               THEN /\ need' = [need EXCEPT ![d] = size]
                    /\ buf' = [buf EXCEPT ![d] = <<>>]
                    /\ rpc' = [rpc EXCEPT ![d] = IF size = 0 THEN "ok"
                                                             ELSE "body"]
               ELSE /\ need' = [need EXCEPT ![d] = 0]
                    /\ buf' = [buf EXCEPT ![d] = read]
                    /\ rpc' = [rpc EXCEPT ![d] = "ok"]
  BY DEF RecvSome
<1>3. b \in Bytes /\ w \in Bytes /\ m \in Nat
  BY <1>1 DEF IpcShape
<1>4. Len(w) \in Nat /\ n \in 0 .. Len(w) /\ n \in Int /\ Len(b) \in Nat
  BY <1>3 DEF Bytes
<1> DEFINE f == SubSeq(w, 1, n)
           r == SubSeq(w, n + 1, Len(w))
           read == b \o f
<1>5. f \in Bytes /\ Len(f) = n /\ r \in Bytes /\ Len(r) = Len(w) - n
  BY <1>3, <1>4, Cut, Zenon
<1>6. wire' = [wire EXCEPT ![d] = r]
  BY <1>2
<1> HIDE DEF f, r
<1>7. read \in Bytes /\ Len(read) = Len(b) + Len(f)
  BY <1>3, <1>5, Joined, Zenon
<1>8. Len(r) <= Capacity
  <2>1. Len(w) <= Capacity /\ Capacity \in Nat
    BY <1>1, IpcAssumption
  <2> DEFINE k == Len(w)
  <2>2. k \in Nat /\ k <= Capacity /\ n \in Nat
    BY <1>4, <2>1
  <2> HIDE DEF k
  <2>3. k - n <= Capacity
    BY <2>1, <2>2
  <2> QED BY <1>5, <2>3 DEF k
<1>9. wire' \in [Directions -> Bytes] /\ \A e \in Directions : Len(wire'[e]) <= Capacity
  BY <1>1, <1>5, <1>6, <1>8 DEF IpcShape
<1>10. ~(n < m) /\ rpc[d] = "header" => Length(read) \in Nat
  <2> SUFFICES ASSUME ~(n < m), rpc[d] = "header" PROVE Length(read) \in Nat
    OBVIOUS
  <2>1. n = m
    BY <1>2, <1>3, <1>4
  <2>2. Len(b) + m = 4
    BY <1>1 DEF Stream, RecvInv
  <2>3. Len(read) = 4
    BY <1>5, <1>7, <2>1, <2>2, Zenon
  <2> QED BY <1>7, <2>3, LengthNat
<1>11. rpc[d] \in {"header", "body"} /\ UNCHANGED <<open, data, spc, left>>
  BY DEF RecvSome
<1>12. /\ n < m => /\ need' = [need EXCEPT ![d] = m - n] /\ rpc' = rpc
                   /\ buf' = [buf EXCEPT ![d] = read]
       /\ ~(n < m) /\ rpc[d] = "header" =>
            /\ need' = [need EXCEPT ![d] = Length(read)]
            /\ buf' = [buf EXCEPT ![d] = <<>>]
            /\ rpc' = [rpc EXCEPT ![d] = IF Length(read) = 0 THEN "ok" ELSE "body"]
       /\ ~(n < m) /\ rpc[d] # "header" =>
            /\ need' = [need EXCEPT ![d] = 0]
            /\ buf' = [buf EXCEPT ![d] = read]
            /\ rpc' = [rpc EXCEPT ![d] = "ok"]
  BY <1>2 DEF f
<1> HIDE DEF read
<1>13. <<>> \in Bytes
  BY DEF Bytes
<1>14. /\ buf' \in [Directions -> Bytes] /\ need' \in [Directions -> Nat]
       /\ rpc' \in [Directions -> CallState] /\ rpc'[d] \in {"header", "body", "ok"}
  <2>1. CASE n < m
    <3>1. m - n \in Nat
      BY <1>3, <1>4, <2>1
    <3> QED BY <1>1, <1>7, <1>11, <1>12, <2>1, <3>1 DEF IpcShape
  <2>2. CASE ~(n < m) /\ rpc[d] = "header"
    <3>1. PICK x \in Nat, y \in {"ok", "body"} :
            /\ need' = [need EXCEPT ![d] = x] /\ rpc' = [rpc EXCEPT ![d] = y]
            /\ buf' = [buf EXCEPT ![d] = <<>>]
      BY <1>10, <1>12, <2>2
    <3> QED BY <1>1, <1>13, <3>1 DEF IpcShape, CallState
  <2>3. CASE ~(n < m) /\ rpc[d] # "header"
    <3>1. /\ need' = [need EXCEPT ![d] = 0] /\ rpc' = [rpc EXCEPT ![d] = "ok"]
          /\ buf' = [buf EXCEPT ![d] = read]
      BY <1>12, <2>3
    <3> QED BY <1>1, <1>7, <3>1 DEF IpcShape, CallState
  <2> QED BY <2>1, <2>2, <2>3
<1> QED BY <1>1, <1>9, <1>11, <1>14 DEF IpcShape

LEMMA ShapeBeginSend ==
  ASSUME IpcShape, NEW d \in Directions, NEW s \in Bytes, BeginSend(d, s)
  PROVE  /\ data' \in [Directions -> Bytes \cup {None}]
         /\ left' \in [Directions -> Bytes] /\ spc' \in [Directions -> CallState]
<1>1. Header(Len(s) % Modulus) \in Bytes
  BY FrameBytes DEF Size
<1> QED BY <1>1 DEF BeginSend, IpcShape, CallState

(* Types are kept, the socket does not overflow, and the bytes a call has  *)
(* read change only while the call goes on.                                *)
LEMMA ShapeStep ==
  ASSUME IpcInv, [Next]_vars
  PROVE  /\ IpcShape'
         /\ \A e \in Directions :
              /\ Len(wire'[e]) <= Capacity
              /\ \/ rpc'[e] \in {"header", "body", "ok"}
                 \/ buf'[e] = buf[e] /\ need'[e] = need[e]
<1> DEFINE Goal == /\ IpcShape'
                   /\ \A e \in Directions :
                        /\ Len(wire'[e]) <= Capacity
                        /\ \/ rpc'[e] \in {"header", "body", "ok"}
                           \/ buf'[e] = buf[e] /\ need'[e] = need[e]
<1>1. IpcShape /\ \A e \in Directions : Len(wire[e]) <= Capacity
  BY DEF IpcInv, IpcTypeOK
<1>2. ASSUME NEW d \in Directions, Transfer(d) PROVE Goal
  <2>1. CASE SendSome(d)
    <3>1. buf' = buf /\ need' = need
      BY <2>1 DEF SendSome
    <3> QED BY <2>1, <3>1, ShapeSend
  <2>2. CASE SendFails(d)
    <3>1. /\ spc' = [spc EXCEPT ![d] = "failed"] /\ left' = [left EXCEPT ![d] = <<>>]
          /\ UNCHANGED <<open, data, wire, rpc, need, buf>>
      BY <2>2 DEF SendFails
    <3>2. <<>> \in Bytes
      BY DEF Bytes
    <3> QED BY <1>1, <3>1, <3>2 DEF IpcShape, CallState
  <2>3. CASE RecvSome(d)
    <3>1. /\ IpcShape' /\ \A e \in Directions : Len(wire'[e]) <= Capacity
          /\ rpc'[d] \in {"header", "body", "ok"}
      BY <2>3, ShapeRecv
    <3>2. ASSUME NEW e \in Directions, e # d
          PROVE  buf'[e] = buf[e] /\ need'[e] = need[e]
      BY <1>1, <2>3, <3>2 DEF RecvSome, IpcShape
    <3> QED BY <3>1, <3>2
  <2>4. CASE RecvFails(d)
    BY <1>1, <2>4 DEF RecvFails, IpcShape, CallState
  <2> QED BY <1>2, <2>1, <2>2, <2>3, <2>4 DEF Transfer
<1>3. CASE Schedule
  <2>1. PICK j \in Jobs : BeginSend("job", Message(j))
    BY <1>3 DEF Schedule
  <2>2. UNCHANGED <<open, wire, rpc, need, buf>>
    BY <1>3 DEF Schedule
  <2>3. Message(j) \in Bytes /\ "job" \in Directions
    BY MessageBytes DEF Directions
  <2>4. /\ data' \in [Directions -> Bytes \cup {None}]
        /\ left' \in [Directions -> Bytes] /\ spc' \in [Directions -> CallState]
    BY <1>1, <2>1, <2>3, ShapeBeginSend
  <2> QED BY <1>1, <2>2, <2>4 DEF IpcShape
<1>4. CASE Wait
  BY <1>1, <1>4 DEF Wait, BeginRecv, IpcShape, CallState, Directions
<1>5. CASE HandleJob
  <2>1. PICK a \in Answers : BeginSend("reply", a)
    BY <1>5 DEF HandleJob
  <2>2. UNCHANGED <<open, wire, rpc, need, buf>>
    BY <1>5 DEF HandleJob
  <2>3. a \in Bytes /\ "reply" \in Directions
    BY IpcAssumption DEF Directions, Bytes
  <2>4. /\ data' \in [Directions -> Bytes \cup {None}]
        /\ left' \in [Directions -> Bytes] /\ spc' \in [Directions -> CallState]
    BY <1>1, <2>1, <2>3, ShapeBeginSend
  <2> QED BY <1>1, <2>2, <2>4 DEF IpcShape
<1>6. CASE /\ UNCHANGED <<data, spc, left, wire, rpc, need, buf>>
           /\ open' \in [{"client", "server"} -> BOOLEAN]
  BY <1>1, <1>6 DEF IpcShape
<1>7. UseLocal \/ Answered \/ CloseConnection \/ (\E x \in {"client", "server"} : Crash(x))
      \/ UNCHANGED vars => /\ UNCHANGED <<data, spc, left, wire, rpc, need, buf>>
                           /\ open' \in [{"client", "server"} -> BOOLEAN]
  BY <1>1 DEF UseLocal, Answered, CloseConnection, Crash, Close, vars, IpcShape
<1> QED BY <1>2, <1>3, <1>4, <1>5, <1>6, <1>7 DEF Next, Client, Server, Ended, vars

(* What the two processes keep of the exchange.                            *)
LEMMA ExchangeStep ==
  ASSUME IpcInv, [Next]_vars
  PROVE  ExchangeInv'
<1>1. IpcShape /\ ExchangeInv /\ Stream("job") /\ Stream("reply")
  BY DEF IpcInv, StreamInv, Directions
<1>2. "job" \in Directions /\ "reply" \in Directions
  BY DEF Directions
<1>3. ASSUME NEW d \in Directions, Transfer(d) PROVE ExchangeInv'
  <2>1. UNCHANGED <<open, data, job, parsed, outcome>>
    BY <1>3 DEF Transfer, SendSome, SendFails, RecvSome, RecvFails
  <2>2. ASSUME NEW e \in Directions, rpc[e] = "ok"
        PROVE  rpc'[e] = "ok" /\ buf'[e] = buf[e]
    <3>1. CASE SendSome(d) \/ SendFails(d)
      BY <2>2, <3>1 DEF SendSome, SendFails
    <3>2. CASE RecvSome(d)
      <4>1. d # e
        BY <2>2, <3>2 DEF RecvSome
      <4> QED BY <1>1, <2>2, <3>2, <4>1 DEF RecvSome, IpcShape
    <3>3. CASE RecvFails(d)
      <4>1. d # e
        BY <2>2, <3>3 DEF RecvFails
      <4> QED BY <1>1, <2>2, <3>3, <4>1 DEF RecvFails, IpcShape
    <3> QED BY <1>3, <3>1, <3>2, <3>3 DEF Transfer
  <2>3. parsed' # None => rpc'["job"] = "ok" /\ parsed' = Parse(buf'["job"])
    BY <1>1, <1>2, <2>1, <2>2 DEF ExchangeInv
  <2>4. outcome' \in {"kSuccess", "kFailure"} =>
          rpc'["reply"] = "ok" /\ outcome' = Status(buf'["reply"])
    BY <1>1, <1>2, <2>1, <2>2 DEF ExchangeInv
  <2> QED BY <1>1, <2>1, <2>3, <2>4 DEF ExchangeInv
<1>4. CASE Schedule
  <2>1. PICK j \in Jobs : job' = j /\ BeginSend("job", Message(j))
    BY <1>4 DEF Schedule
  <2>2. UNCHANGED <<open, rpc, buf, parsed, outcome>>
    BY <1>4 DEF Schedule
  <2>3. data'["job"] = Message(j) /\ data'["reply"] = data["reply"]
    BY <1>1, <1>2, <2>1 DEF BeginSend, IpcShape
  <2>4. Message(j) # None
    BY MessageBytes
  <2> QED BY <1>1, <2>1, <2>2, <2>3, <2>4 DEF ExchangeInv
<1>5. CASE Wait
  <2>1. UNCHANGED <<open, data, buf, job, parsed, outcome>>
    BY <1>5 DEF Wait
  <2>2. rpc["reply"] = "idle" /\ rpc'["job"] = rpc["job"]
    BY <1>1, <1>2, <1>5 DEF Wait, BeginRecv, IpcShape
  <2> QED BY <1>1, <2>1, <2>2 DEF ExchangeInv
<1>6. CASE HandleJob
  <2>1. PICK a \in Answers :
          (parsed' = Malformed => a = <<1>>) /\ BeginSend("reply", a)
    BY <1>6 DEF HandleJob
  <2>2. /\ rpc["job"] = "ok" /\ parsed' = Parse(buf["job"])
        /\ UNCHANGED <<open, rpc, buf, job, outcome>>
    BY <1>6 DEF HandleJob
  <2>3. data'["reply"] = a /\ data'["job"] = data["job"]
    BY <1>1, <1>2, <2>1 DEF BeginSend, IpcShape
  <2>4. a # None
    BY IpcAssumption
  <2> QED BY <1>1, <2>1, <2>2, <2>3, <2>4 DEF ExchangeInv
<1>7. CASE UseLocal
  <2>1. UNCHANGED <<data, rpc, buf, job, parsed>> /\ outcome' = "kUseLocal"
    BY <1>7 DEF UseLocal
  <2>2. ~open'["client"]
    BY <1>1, <1>7 DEF UseLocal, Close, IpcShape
  <2> QED BY <1>1, <2>1, <2>2 DEF ExchangeInv
<1>8. CASE Answered
  <2>1. /\ UNCHANGED <<data, rpc, buf, job, parsed>> /\ rpc["reply"] = "ok"
        /\ outcome' = Status(buf["reply"])
    BY <1>8 DEF Answered
  <2>2. ~open'["client"]
    BY <1>1, <1>8 DEF Answered, Close, IpcShape
  <2>3. Status(buf["reply"]) \in {"kSuccess", "kFailure"}
    BY DEF Status
  <2> QED BY <1>1, <2>1, <2>2, <2>3 DEF ExchangeInv
<1>9. CASE CloseConnection \/ (\E x \in {"client", "server"} : Crash(x))
  <2>1. UNCHANGED <<data, rpc, buf, job, parsed, outcome>>
    BY <1>9 DEF CloseConnection, Crash
  <2>2. ~open["client"] => ~open'["client"]
    BY <1>1, <1>9 DEF CloseConnection, Crash, Close, IpcShape
  <2> QED BY <1>1, <2>1, <2>2 DEF ExchangeInv
<1>10. CASE UNCHANGED vars
  BY <1>1, <1>10 DEF ExchangeInv, vars
<1> QED BY <1>3, <1>4, <1>5, <1>6, <1>7, <1>8, <1>9, <1>10
       DEF Next, Client, Server, Ended

(* The sizes of the type invariant follow from what has been read.         *)
LEMMA TypeStep ==
  ASSUME IpcInv, IpcShape', StreamInv', ExchangeInv',
         \A e \in Directions :
           /\ Len(wire'[e]) <= Capacity
           /\ \/ rpc'[e] \in {"header", "body", "ok"}
              \/ buf'[e] = buf[e] /\ need'[e] = need[e]
  PROVE  IpcTypeOK'
<1>1. ASSUME NEW d \in Directions
      PROVE  /\ need'[d] \in 0 .. Modulus - 1 /\ (rpc'[d] = "body" => need'[d] > 0)
             /\ Len(buf'[d]) + need'[d] < Modulus
  <2>1. RecvInv(d)' /\ SendInv(d)'
    BY DEF StreamInv, Stream
  <2>2. need'[d] \in Nat /\ buf'[d] \in Bytes /\ data'[d] \in Bytes \cup {None}
    BY DEF IpcShape
  <2> DEFINE k == Len(buf'[d])
             m == need'[d]
  <2>3. k \in Nat
    BY <2>2 DEF Bytes
  <2>4. rpc'[d] = "body" => m > 0
    BY <2>1 DEF RecvInv
  <2>5. k + m < Modulus
    <3>1. CASE rpc'[d] = "header"
      <4>1. k + m = 4
        BY <2>1, <3>1 DEF RecvInv
      <4> QED BY <4>1, ModulusNat
    <3>2. CASE rpc'[d] \in {"body", "ok"}
      <4>1. BodySoFar(d)'
        BY <2>1, <3>2 DEF RecvInv
      <4>2. k + m = Size(data'[d]) /\ data'[d] \in Bytes
        BY <2>2, <4>1 DEF BodySoFar
      <4>3. Size(data'[d]) < Modulus
        BY <4>2, FrameBytes
      <4> QED BY <4>2, <4>3
    <3>3. CASE buf'[d] = buf[d] /\ need'[d] = need[d]
      BY <3>3 DEF IpcInv, IpcTypeOK
    <3> QED BY <3>1, <3>2, <3>3
  <2> HIDE DEF k
  <2>6. m \in 0 .. Modulus - 1
    BY <2>2, <2>3, <2>5, ModulusNat
  <2> QED BY <2>4, <2>5, <2>6 DEF k
<1>2. job' \in Jobs \cup {None}
  BY DEF ExchangeInv
<1>3. outcome' \in {None, "kUseLocal", "kSuccess", "kFailure"}
  BY DEF ExchangeInv
<1> QED BY <1>1, <1>2, <1>3 DEF IpcTypeOK, IpcShape

LEMMA IpcStep == IpcInv /\ [Next]_vars => IpcInv'
<1> SUFFICES ASSUME IpcInv, [Next]_vars PROVE IpcInv'
  OBVIOUS
<1>1. StreamInv' /\ ExchangeInv'
  BY StreamStep, ExchangeStep
<1>2. /\ IpcShape'
      /\ \A e \in Directions :
           /\ Len(wire'[e]) <= Capacity
           /\ \/ rpc'[e] \in {"header", "body", "ok"}
              \/ buf'[e] = buf[e] /\ need'[e] = need[e]
  BY ShapeStep
<1>3. IpcTypeOK'
  BY <1>1, <1>2, TypeStep
<1> QED BY <1>1, <1>2, <1>3 DEF IpcInv

-----------------------------------------------------------------------------
(* pnm_ipc.h:16-56: the three places where bytes of a frame are - what the *)
(* receiver has, the socket, what send_all has left - are at every moment  *)
(* consecutive pieces of header and body, whatever the transfers' sizes.   *)
THEOREM IpcInvariance == Spec => []IpcInv
BY IpcInit, IpcStep, PTL DEF Spec

(* The type invariant: no call has room for more than a frame, and the     *)
(* socket never holds more than its capacity.                              *)
THEOREM IpcTypes == Spec => []IpcTypeOK
<1>1. IpcInv => IpcTypeOK
  BY DEF IpcInv
<1> QED BY <1>1, IpcInvariance, PTL

-----------------------------------------------------------------------------
(* The message that handle_job takes apart.                                *)

(* The field s is at position pos of the message, as far as that goes.     *)
FieldAt(msg, pos, s) ==
  /\ \A i \in 1 .. 4 : pos + i <= Len(msg) => msg[pos + i] = Header(Size(s))[i]
  /\ \A i \in 1 .. Len(s) : pos + 4 + i <= Len(msg) => msg[pos + 4 + i] = s[i]

(* A piece of a sequence of bytes.                                         *)
LEMMA Piece ==
  ASSUME NEW s \in Bytes, NEW p \in Nat, NEW n \in Nat, p + n <= Len(s)
  PROVE  /\ SubSeq(s, p + 1, p + n) \in Bytes /\ Len(SubSeq(s, p + 1, p + n)) = n
         /\ \A i \in 1 .. n : SubSeq(s, p + 1, p + n)[i] = s[p + i]
<1>1. Len(s) \in Nat /\ \A i \in 1 .. Len(s) : s[i] \in Byte
  BY DEF Bytes
<1>2. \A i \in p + 1 .. p + n : s[i] \in Byte
  BY <1>1
<1>3. p + 1 \in Int /\ p + n \in Int
  OBVIOUS
<1>4. /\ SubSeq(s, p + 1, p + n) \in Seq(Byte)
      /\ Len(SubSeq(s, p + 1, p + n)) =
           IF p + 1 <= p + n THEN (p + n) - (p + 1) + 1 ELSE 0
      /\ \A i \in 1 .. (p + n) - (p + 1) + 1 :
           SubSeq(s, p + 1, p + n)[i] = s[(p + 1) + i - 1]
  BY <1>2, <1>3, SubSeqProperties
<1> DEFINE q == SubSeq(s, p + 1, p + n)
<1> HIDE DEF q
<1>5. /\ q \in Seq(Byte) /\ Len(q) = n
      /\ \A i \in 1 .. n : q[i] = s[(p + 1) + i - 1]
  <2>1. /\ (p + n) - (p + 1) + 1 = n
        /\ (IF p + 1 <= p + n THEN (p + n) - (p + 1) + 1 ELSE 0) = n
    OBVIOUS
  <2> QED BY <1>4, <2>1, Zenon DEF q
<1>6. \A i \in 1 .. n : q[i] = s[p + i]
  <2>1. \A i \in 1 .. n : (p + 1) + i - 1 = p + i
    OBVIOUS
  <2> QED BY <1>5, <2>1, Zenon
<1> QED BY <1>5, <1>6 DEF q, Bytes

(* parse_field finds the field when all of it is there, and refuses it     *)
(* when the message ends inside its length or inside its bytes.            *)
LEMMA ParseField ==
  ASSUME NEW msg \in Bytes, NEW pos \in Nat, NEW s \in Bytes, Len(s) < Modulus,
         FieldAt(msg, pos, s)
  PROVE  parse_field(msg, pos) =
           IF pos + 4 + Len(s) <= Len(msg)
           THEN [ok |-> TRUE, pos |-> pos + 4 + Len(s), field |-> s]
           ELSE [ok |-> FALSE, pos |-> pos, field |-> <<>>]
<1> DEFINE h == SubSeq(msg, pos + 1, pos + 4)
           n == Length(h)
           L == Len(s)
           M == Len(msg)
<1>1. L \in Nat /\ M \in Nat /\ Modulus \in Nat
  BY ModulusNat DEF Bytes
<1>2. Size(s) = L
  <2>1. L % Modulus = L
    BY <1>1, Remainder, ModulusNat
  <2> QED BY <2>1 DEF Size
<1>3. parse_field(msg, pos) =
        IF pos + 4 > M \/ pos + 4 + n > M
        THEN [ok |-> FALSE, pos |-> pos, field |-> <<>>]
        ELSE [ok |-> TRUE, pos |-> pos + 4 + n,
              field |-> SubSeq(msg, pos + 5, pos + 4 + n)]
  BY DEF parse_field
<1>4. CASE pos + 4 > M
  <2>1. ~(pos + 4 + L <= M)
    <3> HIDE DEF L, M
    <3> QED BY <1>1, <1>4
  <2> QED BY <1>3, <1>4, <2>1, Zenon
<1>5. CASE ~(pos + 4 > M)
  <2>1. pos + 4 <= M
    <3> HIDE DEF M
    <3> QED BY <1>1, <1>5
  <2>2. h \in Bytes /\ Len(h) = 4 /\ \A i \in 1 .. 4 : h[i] = msg[pos + i]
    BY <2>1, Piece
  <2>3. Header(Size(s)) \in Bytes /\ Len(Header(Size(s))) = 4
        /\ Length(Header(Size(s))) = Size(s)
    BY FrameBytes
  <2>4. \A i \in 1 .. 4 : h[i] = Header(Size(s))[i]
    <3>1. \A i \in 1 .. 4 : pos + i <= M
      <4> HIDE DEF M
      <4> QED BY <1>1, <2>1
    <3> HIDE DEF h
    <3> QED BY <2>2, <3>1 DEF FieldAt
  <2>5. h = Header(Size(s))
    <3>1. h \in Seq(Byte) /\ Header(Size(s)) \in Seq(Byte)
      BY <2>2, <2>3 DEF Bytes
    <3> HIDE DEF h
    <3> QED BY <2>2, <2>3, <2>4, <3>1, SeqEqual, Zenon
  <2>6. n = L
    BY <1>2, <2>3, <2>5
  <2> HIDE DEF n, h
  <2>7. CASE pos + 4 + L > M
    <3>1. ~(pos + 4 + L <= M)
      <4> HIDE DEF L, M
      <4> QED BY <1>1, <2>7
    <3> QED BY <1>3, <2>6, <2>7, <3>1, Zenon
  <2>8. CASE ~(pos + 4 + L > M)
    <3>1. pos + 4 + L <= M
      <4> HIDE DEF L, M
      <4> QED BY <1>1, <2>8
    <3> DEFINE p == pos + 4
               f == SubSeq(msg, p + 1, p + L)
    <3>2. f \in Bytes /\ Len(f) = L /\ \A i \in 1 .. L : f[i] = msg[p + i]
      <4>1. p \in Nat /\ p + L <= Len(msg)
        BY <3>1
      <4> HIDE DEF p
      <4> QED BY <1>1, <4>1, Piece, Zenon
    <3>3. \A i \in 1 .. L : f[i] = s[i]
      <4>1. \A i \in 1 .. L : pos + 4 + i <= M
        <5> HIDE DEF L, M
        <5> QED BY <1>1, <3>1
      <4>2. \A i \in 1 .. L : msg[pos + 4 + i] = s[i]
        BY <4>1, Zenon DEF FieldAt
      <4> HIDE DEF f
      <4> QED BY <3>2, <4>2, Zenon
    <3>4. f = s
      <4>1. f \in Seq(Byte) /\ s \in Seq(Byte)
        BY <3>2 DEF Bytes
      <4> HIDE DEF f
      <4> QED BY <3>2, <3>3, <4>1, SeqEqual, Zenon
    <3>5. SubSeq(msg, pos + 5, pos + 4 + n) = f
      <4>1. pos + 5 = p + 1
        OBVIOUS
      <4> QED BY <2>6, <4>1
    <3>6. SubSeq(msg, pos + 5, pos + 4 + n) = s
      BY <3>4, <3>5, Zenon
    <3> HIDE DEF f, p
    <3>7. parse_field(msg, pos) = [ok |-> TRUE, pos |-> pos + 4 + n,
              field |-> SubSeq(msg, pos + 5, pos + 4 + n)]
      BY <1>3, <1>5, <2>6, <2>8, Zenon
    <3>8. parse_field(msg, pos) = [ok |-> TRUE, pos |-> pos + 4 + L, field |-> s]
      BY <2>6, <3>6, <3>7, Zenon
    <3> QED BY <3>1, <3>8, Zenon
  <2> QED BY <2>7, <2>8
<1> QED BY <1>4, <1>5

(* Where the three fields are in the message that Schedule builds.         *)
LEMMA MessageLayout ==
  ASSUME NEW j \in Jobs, NEW k \in Nat, k <= Len(Message(j)),
         NEW msg \in Bytes, Len(msg) = k, \A i \in 1 .. k : msg[i] = Message(j)[i]
  PROVE  /\ Len(Message(j)) = 4 + Len(j[1]) + 4 + Len(j[2]) + 4 + Len(j[3])
         /\ FieldAt(msg, 0, j[1])
         /\ FieldAt(msg, 0 + 4 + Len(j[1]), j[2])
         /\ FieldAt(msg, 0 + 4 + Len(j[1]) + 4 + Len(j[2]), j[3])
<1> DEFINE m1 == append_frame(<<>>, j[1])
           m2 == append_frame(m1, j[2])
           m3 == Message(j)
           x == Len(j[1])
           y == Len(j[2])
           z == Len(j[3])
           h1 == Header(Size(j[1]))
           h2 == Header(Size(j[2]))
           h3 == Header(Size(j[3]))
<1>1. j[1] \in Bytes /\ j[2] \in Bytes /\ j[3] \in Bytes
  BY MessageBytes
<1>2. x \in Nat /\ y \in Nat /\ z \in Nat
  BY <1>1 DEF Bytes
<1>3. /\ m1 \in Bytes /\ Len(m1) = 0 + 4 + x
      /\ \A i \in 1 .. 4 : m1[0 + i] = h1[i]
      /\ \A i \in 1 .. x : m1[0 + 4 + i] = j[1][i]
  <2>1. <<>> \in Bytes /\ Len(<<>>) = 0
    BY DEF Bytes
  <2>2. PICK e \in Bytes : e = <<>> /\ Len(e) = 0
    BY <2>1
  <2> DEFINE a == append_frame(e, j[1])
  <2>3. /\ a \in Bytes /\ Len(a) = Len(e) + 4 + x
        /\ \A i \in 1 .. 4 : a[Len(e) + i] = h1[i]
        /\ \A i \in 1 .. x : a[Len(e) + 4 + i] = j[1][i]
    BY <1>1, FieldBytes, Zenon
  <2>4. m1 = a
    BY <2>2
  <2> HIDE DEF m1, h1, x, a
  <2> QED BY <2>2, <2>3, <2>4, Zenon
<1> HIDE DEF m1
<1>4. /\ m2 \in Bytes /\ Len(m2) = Len(m1) + 4 + y
      /\ \A i \in 1 .. Len(m1) : m2[i] = m1[i]
      /\ \A i \in 1 .. 4 : m2[Len(m1) + i] = h2[i]
      /\ \A i \in 1 .. y : m2[Len(m1) + 4 + i] = j[2][i]
  BY <1>1, <1>3, FieldBytes, Zenon
<1>5. m3 = append_frame(m2, j[3])
  BY DEF Message, m1
<1> HIDE DEF m2
<1>6. /\ m3 \in Bytes /\ Len(m3) = Len(m2) + 4 + z
      /\ \A i \in 1 .. Len(m2) : m3[i] = m2[i]
      /\ \A i \in 1 .. 4 : m3[Len(m2) + i] = h3[i]
      /\ \A i \in 1 .. z : m3[Len(m2) + 4 + i] = j[3][i]
  <2> DEFINE a == append_frame(m2, j[3])
  <2>1. /\ a \in Bytes /\ Len(a) = Len(m2) + 4 + z
        /\ \A i \in 1 .. Len(m2) : a[i] = m2[i]
        /\ \A i \in 1 .. 4 : a[Len(m2) + i] = h3[i]
        /\ \A i \in 1 .. z : a[Len(m2) + 4 + i] = j[3][i]
    BY <1>1, <1>4, FieldBytes, Zenon
  <2>2. m3 = a
    BY <1>5
  <2> HIDE DEF a, m3
  <2> QED BY <2>1, <2>2, Zenon
<1> DEFINE p2 == 0 + 4 + x
           p3 == 0 + 4 + x + 4 + y
<1>7. Len(m1) = p2 /\ Len(m2) = p3 /\ p2 \in Nat /\ p3 \in Nat
  <2> HIDE DEF x, y
  <2>1. p2 \in Nat /\ p3 \in Nat /\ p3 = p2 + 4 + y
    BY <1>2
  <2>2. Len(m1) = p2
    BY <1>3, Zenon
  <2> QED BY <1>4, <2>1, <2>2, Zenon
<1>8. Len(m3) = 4 + x + 4 + y + 4 + z
  BY <1>2, <1>6, <1>7
<1> HIDE DEF m3, x, y, z, h1, h2, h3
<1>9. FieldAt(msg, 0, j[1])
  <2>1. \A i \in 1 .. 4 : 0 + i \in 1 .. Len(m1) /\ 0 + i \in 1 .. Len(m2)
    BY <1>2, <1>7
  <2>2. \A i \in 1 .. x : 0 + 4 + i \in 1 .. Len(m1) /\ 0 + 4 + i \in 1 .. Len(m2)
    BY <1>2, <1>7
  <2>3. \A i \in 1 .. 4 : m3[0 + i] = h1[i]
    BY <1>3, <1>4, <1>6, <2>1, Zenon
  <2>4. \A i \in 1 .. x : m3[0 + 4 + i] = j[1][i]
    <3> SUFFICES ASSUME NEW i \in 1 .. x PROVE m3[0 + 4 + i] = j[1][i]
      OBVIOUS
    <3>1. m3[0 + 4 + i] = m2[0 + 4 + i] /\ m2[0 + 4 + i] = m1[0 + 4 + i]
      BY <1>4, <1>6, <2>2, Zenon
    <3> QED BY <1>3, <3>1, Zenon
  <2>5. \A i \in 1 .. 4 : 0 + i <= k => 0 + i \in 1 .. k
    OBVIOUS
  <2>6. \A i \in 1 .. x : 0 + 4 + i <= k => 0 + 4 + i \in 1 .. k
    BY <1>2
  <2> QED BY <2>3, <2>4, <2>5, <2>6, Zenon DEF FieldAt, m3, x, h1
<1>10. FieldAt(msg, p2, j[2])
  <2>1. \A i \in 1 .. 4 : p2 + i \in 1 .. Len(m2)
    BY <1>2, <1>7
  <2>2. \A i \in 1 .. y : p2 + 4 + i \in 1 .. Len(m2)
    BY <1>2, <1>7
  <2>5. \A i \in 1 .. 4 : p2 + i <= k => p2 + i \in 1 .. k
    BY <1>2
  <2>6. \A i \in 1 .. y : p2 + 4 + i <= k => p2 + 4 + i \in 1 .. k
    BY <1>2
  <2> HIDE DEF p2, p3
  <2>3. \A i \in 1 .. 4 : m3[p2 + i] = h2[i]
    BY <1>4, <1>6, <1>7, <2>1, Zenon
  <2>4. \A i \in 1 .. y : m3[p2 + 4 + i] = j[2][i]
    BY <1>4, <1>6, <1>7, <2>2, Zenon
  <2> QED BY <2>3, <2>4, <2>5, <2>6, Zenon DEF FieldAt, m3, y, h2
<1>11. FieldAt(msg, p3, j[3])
  <2>5. \A i \in 1 .. 4 : p3 + i <= k => p3 + i \in 1 .. k
    BY <1>2
  <2>6. \A i \in 1 .. z : p3 + 4 + i <= k => p3 + 4 + i \in 1 .. k
    BY <1>2
  <2> HIDE DEF p2, p3
  <2>3. \A i \in 1 .. 4 : m3[p3 + i] = h3[i]
    BY <1>6, <1>7, Zenon
  <2>4. \A i \in 1 .. z : m3[p3 + 4 + i] = j[3][i]
    BY <1>6, <1>7, Zenon
  <2> QED BY <2>3, <2>4, <2>5, <2>6, Zenon DEF FieldAt, m3, z, h3
<1> QED BY <1>8, <1>9, <1>10, <1>11 DEF m3, x, y, z

(* handle_job makes of a message, or of the part of it that was sent, the  *)
(* job's fields or nothing.                                                *)
LEMMA ParseMessage ==
  ASSUME NEW j \in Jobs, \A i \in 1 .. 3 : Len(j[i]) < Modulus,
         NEW msg \in Bytes, Len(msg) <= Len(Message(j)),
         \A i \in 1 .. Len(msg) : msg[i] = Message(j)[i]
  PROVE  Parse(msg) = IF Len(msg) = Len(Message(j)) THEN j ELSE Malformed
<1> DEFINE x == Len(j[1])
           y == Len(j[2])
           z == Len(j[3])
           p1 == 0 + 4 + x
           p2 == 0 + 4 + x + 4 + y
           p3 == 0 + 4 + x + 4 + y + 4 + z
           k == Len(msg)
           No(p) == [ok |-> FALSE, pos |-> p, field |-> <<>>]
           a == parse_field(msg, 0)
           b == parse_field(msg, a.pos)
           c == parse_field(msg, b.pos)
<1>1. /\ j[1] \in Bytes /\ j[2] \in Bytes /\ j[3] \in Bytes
      /\ j = <<j[1], j[2], j[3]>>
  BY MessageBytes
<1>2. x \in Nat /\ y \in Nat /\ z \in Nat /\ k \in Nat
  BY <1>1 DEF Bytes
<1>3. x < Modulus /\ y < Modulus /\ z < Modulus
  OBVIOUS
<1>4. /\ Len(Message(j)) = 4 + x + 4 + y + 4 + z
      /\ FieldAt(msg, 0, j[1]) /\ FieldAt(msg, p1, j[2]) /\ FieldAt(msg, p2, j[3])
  BY <1>2, MessageLayout
<1>5. p1 \in Nat /\ p2 \in Nat /\ p3 \in Nat /\ p1 <= p2 /\ p2 <= p3
      /\ p1 + 4 + y = p2 /\ p2 + 4 + z = p3
  <2> HIDE DEF x, y, z
  <2> QED BY <1>2
<1>6. Len(Message(j)) = p3
  <2> HIDE DEF x, y, z
  <2> QED BY <1>2, <1>4
<1>7. a = IF p1 <= k THEN [ok |-> TRUE, pos |-> p1, field |-> j[1]] ELSE No(0)
  <2>1. 0 \in Nat
    OBVIOUS
  <2> QED BY <1>1, <1>3, <1>4, <2>1, ParseField, Zenon
<1>8. parse_field(msg, p1) = IF p2 <= k THEN [ok |-> TRUE, pos |-> p2, field |-> j[2]]
                             ELSE No(p1)
  BY <1>1, <1>3, <1>4, <1>5, ParseField, Zenon
<1>9. parse_field(msg, p2) = IF p3 <= k THEN [ok |-> TRUE, pos |-> p3, field |-> j[3]]
                             ELSE No(p2)
  BY <1>1, <1>3, <1>4, <1>5, ParseField, Zenon
<1>10. Parse(msg) = IF a.ok /\ b.ok /\ c.ok THEN <<a.field, b.field, c.field>>
                    ELSE Malformed
  BY DEF Parse
<1>11. CASE k = p3
  <2>1. p1 <= k /\ p2 <= k /\ p3 <= k
    <3> HIDE DEF x, y, z, k, p1, p2, p3
    <3> QED BY <1>2, <1>5, <1>11
  <2>2. a.ok /\ a.pos = p1 /\ a.field = j[1]
    <3> HIDE DEF p1, k, a
    <3> QED BY <1>7, <2>1
  <2>3. b = parse_field(msg, p1)
    BY <2>2, Zenon
  <2>4. b.ok /\ b.pos = p2 /\ b.field = j[2]
    <3> HIDE DEF p1, p2, k, b
    <3> QED BY <1>8, <2>1, <2>3
  <2>5. c = parse_field(msg, p2)
    BY <2>4, Zenon
  <2>6. c.ok /\ c.field = j[3]
    <3> HIDE DEF p2, p3, k, c
    <3> QED BY <1>9, <2>1, <2>5
  <2> HIDE DEF a, b, c, k, p3
  <2>7. Parse(msg) = <<a.field, b.field, c.field>>
    BY <1>10, <2>2, <2>4, <2>6
  <2>8. Parse(msg) = j
    BY <1>1, <2>2, <2>4, <2>6, <2>7, Zenon
  <2>9. Len(msg) = Len(Message(j))
    BY <1>6, <1>11 DEF k
  <2> QED BY <2>8, <2>9
<1>12. CASE k # p3
  <2>1. ~(p3 <= k)
    <3>1. k <= p3
      BY <1>6
    <3> HIDE DEF x, y, z, k, p1, p2, p3
    <3> QED BY <1>2, <1>5, <1>12, <3>1
  <2>2. ~(a.ok /\ b.ok /\ c.ok)
    <3> SUFFICES ASSUME a.ok, b.ok, c.ok PROVE FALSE
      OBVIOUS
    <3>1. a.pos = p1
      <4> HIDE DEF p1, k, a
      <4> QED BY <1>7
    <3>2. b = parse_field(msg, p1)
      BY <3>1, Zenon
    <3>3. b.pos = p2
      <4> HIDE DEF p1, p2, k, b
      <4> QED BY <1>8, <3>2
    <3>4. c = parse_field(msg, p2)
      BY <3>3, Zenon
    <3> HIDE DEF p2, p3, k, c
    <3> QED BY <1>9, <2>1, <3>4
  <2>3. Len(msg) # Len(Message(j))
    BY <1>6, <1>12
  <2> HIDE DEF a, b, c
  <2> QED BY <1>10, <2>2, <2>3, Zenon
<1> QED BY <1>11, <1>12

(* A receive that returned true returned the frame that was sent.          *)
LEMMA Received ==
  ASSUME IpcShape, NEW d \in Directions, RecvInv(d), rpc[d] = "ok"
  PROVE  data[d] \in Bytes /\ data[d] # None /\ buf[d] = Body(data[d])
<1>1. BodySoFar(d) /\ need[d] = 0
  BY DEF RecvInv
<1>2. data[d] \in Bytes /\ data[d] # None /\ buf[d] \in Bytes
  BY <1>1 DEF BodySoFar, IpcShape
<1>3. /\ Body(data[d]) \in Bytes /\ Len(Body(data[d])) = Size(data[d])
      /\ Size(data[d]) \in Nat
      /\ \A i \in 1 .. Size(data[d]) : Body(data[d])[i] = data[d][i]
  BY <1>2, BodyBytes, FrameBytes
<1>4. Len(buf[d]) = Size(data[d])
  <2>1. Len(buf[d]) + 0 = Size(data[d]) /\ Len(buf[d]) \in Nat
    BY <1>1, <1>2 DEF BodySoFar, Bytes
  <2> QED BY <2>1
<1>5. \A i \in 1 .. Len(buf[d]) : buf[d][i] = Body(data[d])[i]
  BY <1>1, <1>3, <1>4, Zenon DEF BodySoFar
<1>6. buf[d] = Body(data[d])
  BY <1>2, <1>3, <1>4, <1>5, SeqEqual, Zenon DEF Bytes
<1> QED BY <1>2, <1>6

(* pnm_unit_main.cc:74: the fields handle_job works on are those that      *)
(* Schedule was given, or the message is refused; a message below 2^32     *)
(* bytes is never refused.                                                 *)
THEOREM FieldsAsSentTheorem == Spec => []FieldsAsSent
<1>1. ASSUME IpcInv PROVE FieldsAsSent
  <2> SUFFICES ASSUME parsed # None
               PROVE  /\ Len(Message(job)) < Modulus => parsed = job
                      /\ (\A i \in 1 .. 3 : Len(job[i]) < Modulus) =>
                           parsed \in {job, Malformed}
    BY DEF FieldsAsSent
  <2>1. IpcShape /\ ExchangeInv /\ Stream("job") /\ "job" \in Directions
    BY <1>1 DEF IpcInv, StreamInv, Directions
  <2>2. rpc["job"] = "ok" /\ parsed = Parse(buf["job"])
    BY <2>1 DEF ExchangeInv
  <2>3. data["job"] # None /\ buf["job"] = Body(data["job"])
    BY <2>1, <2>2, Received DEF Stream
  <2>4. job \in Jobs /\ data["job"] = Message(job)
    BY <2>1, <2>3 DEF ExchangeInv
  <2> DEFINE M == Message(job)
             m == Body(M)
  <2>5. M \in Bytes
    BY <2>4, MessageBytes
  <2>6. /\ m \in Bytes /\ Len(m) = Size(M) /\ Size(M) <= Len(M)
        /\ \A i \in 1 .. Size(M) : m[i] = M[i]
        /\ Len(M) < Modulus => m = M
    BY <2>5, BodyBytes, Zenon
  <2>7. /\ m \in Bytes /\ Len(m) <= Len(M) /\ \A i \in 1 .. Len(m) : m[i] = M[i]
        /\ Len(M) < Modulus => Len(m) = Len(M)
    <3> HIDE DEF m, M
    <3> QED BY <2>6, Zenon
  <2>8. parsed = Parse(m)
    BY <2>2, <2>3, <2>4
  <2> HIDE DEF m
  <2>9. (\A i \in 1 .. 3 : Len(job[i]) < Modulus) =>
          parsed = IF Len(m) = Len(M) THEN job ELSE Malformed
    BY <2>4, <2>7, <2>8, ParseMessage, Zenon
  <2>10. Len(M) < Modulus => \A i \in 1 .. 3 : Len(job[i]) < Modulus
    <3> DEFINE x == Len(job[1])
               y == Len(job[2])
               z == Len(job[3])
    <3>1. x \in Nat /\ y \in Nat /\ z \in Nat
      BY <2>4, MessageBytes DEF Bytes
    <3>2. Len(M) = 4 + x + 4 + y + 4 + z
      <4>1. Len(m) \in Nat
        BY <2>7 DEF Bytes
      <4>2. job \in Jobs /\ Len(m) <= Len(Message(job)) /\ m \in Bytes
            /\ \A i \in 1 .. Len(m) : m[i] = Message(job)[i]
        BY <2>4, <2>7
      <4> QED BY <4>1, <4>2, MessageLayout
    <3> HIDE DEF x, y, z, M
    <3>3. Len(M) < Modulus => x < Modulus /\ y < Modulus /\ z < Modulus
      BY <3>1, <3>2, ModulusNat
    <3>4. \A i \in 1 .. 3 : i = 1 \/ i = 2 \/ i = 3
      OBVIOUS
    <3> QED BY <3>3, <3>4, Zenon DEF x, y, z
  <2>11. (\A i \in 1 .. 3 : Len(job[i]) < Modulus) => parsed \in {job, Malformed}
    BY <2>9, Zenon
  <2>12. Len(M) < Modulus => parsed = job
    BY <2>7, <2>9, <2>10, Zenon
  <2> QED BY <2>11, <2>12
<1> QED BY <1>1, IpcInvariance, PTL

(* pnm_compaction_service.h:162-173: the status that the primary gets is   *)
(* the first byte of what the worker answered on the job it was sent.      *)
THEOREM OutcomeIsAnswerTheorem == Spec => []OutcomeIsAnswer
<1>1. ASSUME IpcInv PROVE OutcomeIsAnswer
  <2> SUFFICES ASSUME outcome \in {"kSuccess", "kFailure"} PROVE OutcomeIsAnswer
    BY DEF OutcomeIsAnswer
  <2>1. IpcShape /\ ExchangeInv /\ Stream("reply") /\ "reply" \in Directions
    BY <1>1 DEF IpcInv, StreamInv, Directions
  <2> DEFINE r == data["reply"]
             g == buf["reply"]
  <2>2. rpc["reply"] = "ok" /\ outcome = Status(g)
    BY <2>1 DEF ExchangeInv
  <2>3. r \in Bytes /\ r # None /\ g = Body(r)
    BY <2>1, <2>2, Received DEF Stream
  <2>4. parsed = Malformed => r = <<1>>
    BY <2>1, <2>3 DEF ExchangeInv
  <2>5. /\ g \in Bytes /\ Len(g) = Size(r) /\ Size(r) \in Nat
        /\ \A i \in 1 .. Size(r) : g[i] = r[i]
        /\ Len(r) < Modulus => g = r
    <3>1. /\ Body(r) \in Bytes /\ Len(Body(r)) = Size(r)
          /\ \A i \in 1 .. Size(r) : Body(r)[i] = r[i]
          /\ Len(r) < Modulus => Body(r) = r
      BY <2>3, BodyBytes, Zenon
    <3>2. Size(r) \in Nat
      BY <2>3, FrameBytes, Zenon
    <3> HIDE DEF g
    <3> QED BY <2>3, <3>1, <3>2, Zenon
  <2>6. g # <<>> => g[1] = r[1]
    <3>1. g # <<>> => Len(g) # 0
      BY <2>5, EmptySeq DEF Bytes
    <3>2. g # <<>> => 1 \in 1 .. Size(r)
      BY <2>5, <3>1
    <3> QED BY <2>5, <3>2
  <2>7. g = <<>> => Size(r) = 0
    <3>1. Len(<<>>) = 0
      OBVIOUS
    <3> QED BY <2>5, <3>1, Zenon
  <2>8. outcome = "kSuccess" => /\ r[1] = 0 /\ parsed # Malformed
                                /\ Len(r) < Modulus => g = r
    <3>1. outcome = "kSuccess" => g # <<>> /\ g[1] = 0
      BY <2>2 DEF Status
    <3>2. r[1] = 0 => r # <<1>>
      OBVIOUS
    <3> HIDE DEF r, g
    <3> QED BY <2>4, <2>5, <2>6, <3>1, <3>2
  <2>9. outcome = "kFailure" => r[1] # 0 \/ Size(r) = 0
    <3>1. outcome = "kFailure" => ~(g # <<>> /\ g[1] = 0)
      BY <2>2 DEF Status
    <3> HIDE DEF r, g
    <3> QED BY <2>6, <2>7, <3>1
  <2> QED BY <2>8, <2>9 DEF OutcomeIsAnswer, Size
<1> QED BY <1>1, IpcInvariance, PTL

-----------------------------------------------------------------------------
(* Each direction is a channel of whole frames.                            *)

(* What a channel's two ends know, before and after a step.                *)
LEMMA ChannelEnds ==
  ASSUME IpcInv, NEW d \in Directions
  PROVE  /\ FrameOf(d) # None <=> data[d] # None
         /\ ResultOf(d) # None <=> rpc[d] \in {"ok", "failed"}
         /\ rpc[d] = "ok" => data[d] # None /\ ResultOf(d) = FrameOf(d)
<1>1. IpcShape /\ RecvInv(d)
  BY DEF IpcInv, StreamInv, Stream
<1>2. data[d] # None => Body(data[d]) \in Bytes
  BY <1>1, BodyBytes DEF IpcShape
<1>3. FrameOf(d) # None <=> data[d] # None
  BY <1>2, IpcAssumption DEF FrameOf, Bytes
<1>4. rpc[d] = "ok" => data[d] # None /\ buf[d] = Body(data[d])
  BY <1>1, Received
<1>5. buf[d] # None /\ Failed # None
  BY <1>1, IpcAssumption DEF IpcShape, Bytes
<1>6. ResultOf(d) # None <=> rpc[d] \in {"ok", "failed"}
  BY <1>5 DEF ResultOf
<1>7. rpc[d] = "ok" => data[d] # None /\ ResultOf(d) = FrameOf(d)
  BY <1>4 DEF ResultOf, FrameOf
<1> QED BY <1>3, <1>6, <1>7

DeliveredInv ==
  \A d \in Directions :
    rpc[d] = "ok" => data[d] # None /\ ResultOf(d) = FrameOf(d)

LEMMA Delivered == IpcInv => DeliveredInv
BY ChannelEnds DEF DeliveredInv

(* The steps of a direction: a frame is begun, received, or given up.      *)
ChannelStep(d, F) ==
  \/ data[d] = None /\ (\E f \in F : FrameOf(d)' = f) /\ ResultOf(d)' = ResultOf(d)
  \/ /\ FrameOf(d)' = FrameOf(d) /\ data[d] # None
     /\ rpc[d] \notin {"ok", "failed"} /\ ResultOf(d)' = FrameOf(d)
  \/ /\ FrameOf(d)' = FrameOf(d)
     /\ rpc[d] \notin {"ok", "failed"} /\ ResultOf(d)' = Failed
  \/ FrameOf(d)' = FrameOf(d) /\ ResultOf(d)' = ResultOf(d)

FramesOf(d) == IF d = "job" THEN {Body(Message(j)) : j \in Jobs}
               ELSE {Body(a) : a \in Answers}

LEMMA ChannelTransfer ==
  ASSUME IpcInv, IpcInv', NEW d \in Directions, NEW e \in Directions, Transfer(d)
  PROVE  ChannelStep(e, FramesOf(e))
<1>1. IpcShape
  BY DEF IpcInv
<1>2. data' = data /\ FrameOf(e)' = FrameOf(e)
  BY DEF Transfer, SendSome, SendFails, RecvSome, RecvFails, FrameOf
<1>3. CASE SendSome(d) \/ SendFails(d)
  <2>1. ResultOf(e)' = ResultOf(e)
    BY <1>3 DEF SendSome, SendFails, ResultOf
  <2> QED BY <1>2, <2>1 DEF ChannelStep
<1>4. CASE RecvFails(d) /\ d = e
  <2>1. rpc[e] \in {"header", "body"} /\ rpc'[e] = "failed"
    BY <1>1, <1>4 DEF RecvFails, IpcShape
  <2>2. ResultOf(e)' = Failed
    BY <2>1 DEF ResultOf
  <2> QED BY <1>2, <2>1, <2>2 DEF ChannelStep
<1>5. CASE RecvSome(d) /\ d = e
  <2>1. rpc[e] \in {"header", "body"}
    BY <1>5 DEF RecvSome
  <2>2. rpc'[e] \in {"header", "body", "ok"}
    BY <1>5, ShapeRecv
  <2>3. CASE rpc'[e] = "ok"
    <3>1. DeliveredInv'
      BY Delivered, PTL
    <3>2. data'[e] # None /\ ResultOf(e)' = FrameOf(e)'
      BY <2>3, <3>1 DEF DeliveredInv
    <3>3. data[e] # None /\ ResultOf(e)' = FrameOf(e)
      BY <1>2, <3>2
    <3> QED BY <1>2, <2>1, <3>3 DEF ChannelStep
  <2>4. CASE rpc'[e] # "ok"
    <3>1. ResultOf(e) = None
      BY <2>1 DEF ResultOf
    <3>2. ResultOf(e)' = None
      BY <2>2, <2>4 DEF ResultOf
    <3> QED BY <1>2, <3>1, <3>2 DEF ChannelStep
  <2> QED BY <2>3, <2>4
<1>6. CASE (RecvSome(d) \/ RecvFails(d)) /\ d # e
  <2>1. rpc'[e] = rpc[e] /\ buf'[e] = buf[e]
    BY <1>1, <1>6 DEF RecvSome, RecvFails, IpcShape
  <2>2. ResultOf(e)' = ResultOf(e)
    BY <2>1 DEF ResultOf
  <2> QED BY <1>2, <2>2 DEF ChannelStep
<1> QED BY <1>3, <1>4, <1>5, <1>6 DEF Transfer

LEMMA ChannelNext ==
  ASSUME IpcInv, IpcInv', [Next]_vars, NEW e \in Directions
  PROVE  ChannelStep(e, FramesOf(e))
<1>1. IpcShape /\ ExchangeInv /\ StreamInv
  BY DEF IpcInv
<1>2. CASE \E d \in Directions : Transfer(d)
  BY <1>2, ChannelTransfer
<1>3. CASE Schedule
  <2>1. PICK j \in Jobs : BeginSend("job", Message(j))
    BY <1>3 DEF Schedule
  <2>2. ResultOf(e)' = ResultOf(e)
    BY <1>3 DEF Schedule, ResultOf
  <2>3. CASE e = "job"
    <3>1. data["job"] = None
      BY <1>1, <1>3, IpcAssumption DEF ExchangeInv, Schedule
    <3>2. data'["job"] = Message(j) /\ Message(j) # None
      BY <1>1, <2>1, <2>3, MessageBytes DEF BeginSend, IpcShape
    <3>3. FrameOf(e)' = Body(Message(j))
      BY <2>3, <3>2 DEF FrameOf
    <3> QED BY <2>2, <2>3, <3>1, <3>3 DEF ChannelStep, FramesOf
  <2>4. CASE e # "job"
    <3>1. data'[e] = data[e]
      BY <1>1, <2>1, <2>4 DEF BeginSend, IpcShape
    <3>2. FrameOf(e)' = FrameOf(e)
      BY <3>1 DEF FrameOf
    <3> QED BY <2>2, <3>2 DEF ChannelStep
  <2> QED BY <2>3, <2>4
<1>4. CASE Wait
  <2>1. data' = data /\ buf' = buf
    BY <1>4 DEF Wait
  <2>2. rpc'[e] = rpc[e] \/ (rpc[e] = "idle" /\ rpc'[e] = "header")
    BY <1>1, <1>4 DEF Wait, BeginRecv, IpcShape
  <2>3. FrameOf(e)' = FrameOf(e)
    BY <2>1 DEF FrameOf
  <2>4. ResultOf(e)' = ResultOf(e)
    BY <2>1, <2>2 DEF ResultOf
  <2> QED BY <2>3, <2>4 DEF ChannelStep
<1>5. CASE HandleJob
  <2>1. PICK a \in Answers : BeginSend("reply", a)
    BY <1>5 DEF HandleJob
  <2>2. ResultOf(e)' = ResultOf(e)
    BY <1>5 DEF HandleJob, ResultOf
  <2>3. CASE e = "reply"
    <3>1. data["reply"] = None
      BY <1>1, <1>5, <2>3 DEF HandleJob, StreamInv, Stream, SendInv
    <3>2. data'["reply"] = a /\ a # None
      BY <1>1, <2>1, <2>3, IpcAssumption DEF BeginSend, IpcShape
    <3>3. FrameOf(e)' = Body(a)
      BY <2>3, <3>2 DEF FrameOf
    <3> QED BY <2>2, <2>3, <3>1, <3>3 DEF ChannelStep, FramesOf
  <2>4. CASE e # "reply"
    <3>1. data'[e] = data[e]
      BY <1>1, <2>1, <2>4 DEF BeginSend, IpcShape
    <3>2. FrameOf(e)' = FrameOf(e)
      BY <3>1 DEF FrameOf
    <3> QED BY <2>2, <3>2 DEF ChannelStep
  <2> QED BY <2>3, <2>4
<1>6. CASE UNCHANGED <<data, rpc, buf>>
  BY <1>6 DEF ChannelStep, FrameOf, ResultOf
<1>7. UseLocal \/ Answered \/ CloseConnection \/ (\E x \in {"client", "server"} : Crash(x))
      \/ UNCHANGED vars => UNCHANGED <<data, rpc, buf>>
  BY DEF UseLocal, Answered, CloseConnection, Crash, vars
<1> QED BY <1>2, <1>3, <1>4, <1>5, <1>6, <1>7 DEF Next, Client, Server, Ended

(* pnm_ipc.h: both directions of a connection implement FrameChannel, for  *)
(* every size of the single transfers, every failure and every moment of a *)
(* crash: the whole frame that was sent, or an error, and that once.       *)
THEOREM IpcRefinesChannel == Spec => WholeFrames
<1>1. "job" \in Directions /\ "reply" \in Directions
  BY DEF Directions
<1>2. ASSUME Init PROVE JobChannel!Init /\ ReplyChannel!Init
  BY <1>1, <1>2 DEF Init, JobChannel!Init, ReplyChannel!Init, FrameOf, ResultOf
<1>3. ASSUME IpcInv, IpcInv', [Next]_vars
      PROVE  [JobChannel!Next]_(<<FrameOf("job"), ResultOf("job")>>)
  <2>1. ChannelStep("job", {Body(Message(j)) : j \in Jobs})
    BY <1>1, <1>3, ChannelNext DEF FramesOf
  <2>2. /\ FrameOf("job") # None <=> data["job"] # None
        /\ ResultOf("job") # None <=> rpc["job"] \in {"ok", "failed"}
    BY <1>1, <1>3, ChannelEnds
  <2> QED BY <2>1, <2>2 DEF ChannelStep, JobChannel!Next, JobChannel!Send,
                             JobChannel!Deliver, JobChannel!Fail
<1>4. ASSUME IpcInv, IpcInv', [Next]_vars
      PROVE  [ReplyChannel!Next]_(<<FrameOf("reply"), ResultOf("reply")>>)
  <2>1. ChannelStep("reply", {Body(a) : a \in Answers})
    BY <1>1, <1>4, ChannelNext DEF FramesOf
  <2>2. /\ FrameOf("reply") # None <=> data["reply"] # None
        /\ ResultOf("reply") # None <=> rpc["reply"] \in {"ok", "failed"}
    BY <1>1, <1>4, ChannelEnds
  <2> QED BY <2>1, <2>2 DEF ChannelStep, ReplyChannel!Next, ReplyChannel!Send,
                             ReplyChannel!Deliver, ReplyChannel!Fail
<1> QED BY <1>2, <1>3, <1>4, IpcInvariance, PTL
        DEF Spec, WholeFrames, JobChannel!Spec, ReplyChannel!Spec

=============================================================================
