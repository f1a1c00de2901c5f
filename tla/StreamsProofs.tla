---------------------------- MODULE StreamsProofs ----------------------------
(***************************************************************************)
(* That a read of any WIM resource gives its slice, a read of any VMA      *)
(* device its blocks in order, and the extraction of a VMA file the same.  *)
(***************************************************************************)
EXTENDS Streams, SumLemmas

-----------------------------------------------------------------------------
(***************************************************************************)
(* WIM resources                                                           *)
(***************************************************************************)

\* Sums are the same in the module of the reader.
LEMMA WimSums ==
  ASSUME NEW f, NEW S
  PROVE  WimReader!SumFunctionOnSet(f, S) = SumFunctionOnSet(f, S)
BY DEF WimReader!SumFunctionOnSet, WimReader!FoldFunctionOnSet, WimReader!MapThenFoldSet,
       SumFunctionOnSet, FoldFunctionOnSet, MapThenFoldSet

\* Each chunk is stored behind the one before it.
LEMMA WimStarts ==
  ASSUME resource \in Resources
  PROVE  /\ WimReader!num_chunks \in Nat \ {0}
         /\ WimReader!num_chunks * ChunkSize - ChunkSize < resource.size
         /\ resource.size <= WimReader!num_chunks * ChunkSize
         /\ \A k \in 1 .. WimReader!num_chunks : resource.stored[k] \in Nat \ {0}
         /\ \A k \in 0 .. WimReader!num_chunks : WimReader!Start(k) \in Nat
         /\ \A k \in 1 .. WimReader!num_chunks :
              WimReader!Start(k) = WimReader!Start(k - 1) + resource.stored[k]
         /\ \A k \in 0 .. WimReader!num_chunks : \A j \in 0 .. k - 1 :
              WimReader!Start(j) < WimReader!Start(k)
<1> DEFINE n == WimReader!num_chunks
           f == resource.stored
<1>1. /\ resource.size \in Nat \ {0} /\ ChunkSize \in Nat \ {0}
      /\ n \in Nat \ {0}
      /\ n * ChunkSize - ChunkSize < resource.size
      /\ resource.size <= n * ChunkSize
  BY WimAssumption, RoundedUp DEF WimReader!num_chunks
<1>2. f \in Seq(Nat \ {0}) /\ Len(f) = n
  BY WimAssumption DEF WimReader!num_chunks
<1> HIDE DEF f, n
<1>3. \A k \in 1 .. n : f[k] \in Nat \ {0}
  BY <1>1, <1>2, ElementOfSeq
<1>4. ASSUME NEW k \in 0 .. n
      PROVE  SumFunctionOnSet(f, 1 .. k) \in Nat
  <2>1. IsFiniteSet(1 .. k) /\ \A i \in 1 .. k : f[i] \in Nat
    <3>1. k \in Int /\ \A i \in 1 .. k : f[i] \in Nat
      BY <1>1, <1>3
    <3> QED
      BY <3>1, FS_Interval
  <2> QED
    BY <2>1, SumNatural
<1>5. ASSUME NEW k \in 1 .. n
      PROVE  SumFunctionOnSet(f, 1 .. k) = SumFunctionOnSet(f, 1 .. k - 1) + f[k]
  <2>1. IsFiniteSet(1 .. k) /\ k \in 1 .. k /\ \A i \in 1 .. k : f[i] \in Int
    <3>1. k \in Int /\ k \in 1 .. k /\ \A i \in 1 .. k : f[i] \in Int
      BY <1>1, <1>3
    <3> QED
      BY <3>1, FS_Interval
  <2>2. (1 .. k) \ {k} = 1 .. k - 1
    BY <1>1
  <2>3. SumFunctionOnSet(f, 1 .. k) = f[k] + SumFunctionOnSet(f, 1 .. k - 1)
    BY <2>1, <2>2, SumWithout
  <2>4. k - 1 \in 0 .. n /\ f[k] \in Nat
    BY <1>1, <1>3
  <2>5. SumFunctionOnSet(f, 1 .. k - 1) \in Nat
    BY <1>4, <2>4
  <2> QED
    BY <2>3, <2>4, <2>5
<1>6. ASSUME NEW k \in 0 .. n, NEW j \in 0 .. k - 1
      PROVE  SumFunctionOnSet(f, 1 .. j) < SumFunctionOnSet(f, 1 .. k)
  <2> DEFINE bad == {i \in Nat : /\ i \in j + 1 .. n
                                 /\ ~(SumFunctionOnSet(f, 1 .. j) < SumFunctionOnSet(f, 1 .. i))}
  <2>1. bad = {}
    <3> SUFFICES ASSUME bad # {} PROVE FALSE
      OBVIOUS
    <3>1. PICK i \in bad : \A h \in bad : i <= h
      BY LeastNatural
    <3>2. i \in 1 .. n /\ i - 1 \in 0 .. n /\ i \in 0 .. n /\ j \in 0 .. n
      BY <1>1, <3>1
    <3>3. SumFunctionOnSet(f, 1 .. i) = SumFunctionOnSet(f, 1 .. i - 1) + f[i] /\ f[i] \in Nat \ {0}
      BY <1>3, <1>5, <3>2
    <3>4. /\ SumFunctionOnSet(f, 1 .. i - 1) \in Nat /\ SumFunctionOnSet(f, 1 .. j) \in Nat
          /\ SumFunctionOnSet(f, 1 .. i) \in Nat
      BY <1>4, <3>2
    <3>5. CASE i = j + 1
      <4>1. i - 1 = j
        BY <3>2, <3>5
      <4> QED
        BY <3>1, <3>3, <3>4, <4>1
    <3>6. CASE i # j + 1
      <4>1. i - 1 \in Nat /\ i - 1 \in j + 1 .. n /\ ~(i <= i - 1)
        BY <3>1, <3>2, <3>6
      <4>2. i - 1 \notin bad
        BY <3>1, <4>1
      <4>3. SumFunctionOnSet(f, 1 .. j) < SumFunctionOnSet(f, 1 .. i - 1)
        BY <4>1, <4>2
      <4> QED
        BY <3>1, <3>3, <3>4, <4>3
    <3> QED
      BY <3>5, <3>6
  <2>2. k \in Nat /\ k \in j + 1 .. n
    BY <1>1
  <2> QED
    BY <2>1, <2>2
<1>7. \A k \in Int : WimReader!Start(k) = SumFunctionOnSet(f, 1 .. k)
  BY WimSums DEF WimReader!Start, f
<1>8. /\ \A k \in 0 .. n : k \in Int /\ \A j \in 0 .. k - 1 : j \in Int
      /\ \A k \in 1 .. n : k \in Int /\ k - 1 \in Int
  BY <1>1
<1>9. /\ \A k \in 0 .. n : WimReader!Start(k) \in Nat
      /\ \A k \in 1 .. n : WimReader!Start(k) = WimReader!Start(k - 1) + f[k]
      /\ \A k \in 0 .. n : \A j \in 0 .. k - 1 : WimReader!Start(j) < WimReader!Start(k)
  BY <1>4, <1>5, <1>6, <1>7, <1>8
<1> QED
  BY <1>1, <1>3, <1>9 DEF f, n

\* Decompressing what lies between where a chunk starts and where the next one does, or the
\* resource ends, gives the bytes of the chunk.
LEMMA WimChunk ==
  ASSUME resource \in Resources, chunk \in 0 .. WimReader!num_chunks - 1
  PROVE  WimReader!ReadChunk(WimReader!Start(chunk), WimReader!NextStart - WimReader!Start(chunk))
           = [i \in 1 .. WimReader!Smaller(ChunkSize, resource.size - chunk * ChunkSize) |->
                chunk * ChunkSize + i - 1]
<1> DEFINE n == WimReader!num_chunks
           base(k) == WimReader!Start(k)
           size == WimReader!NextStart - base(chunk)
<1>1. /\ n \in Nat \ {0}
      /\ \A k \in 1 .. n : resource.stored[k] \in Nat \ {0}
      /\ \A k \in 0 .. n : base(k) \in Nat
      /\ \A k \in 1 .. n : base(k) = base(k - 1) + resource.stored[k]
      /\ \A k \in 0 .. n : \A j \in 0 .. k - 1 : base(j) < base(k)
  BY WimStarts
<1>2. WimReader!NextStart = IF chunk < n - 1 THEN base(chunk + 1) ELSE base(n) + n - 1
  BY DEF WimReader!NextStart, WimReader!compressed_size
<1> HIDE DEF n, base
<1>3. \A k \in 0 .. n - 1 : base(k) = base(chunk) => k = chunk
  <2> TAKE k \in 0 .. n - 1
  <2>1. CASE k < chunk
    <3>1. k \in 0 .. chunk - 1 /\ chunk \in 0 .. n /\ k \in 0 .. n
      BY <1>1, <2>1 DEF n
    <3> QED
      BY <1>1, <3>1
  <2>2. CASE chunk < k
    <3>1. chunk \in 0 .. k - 1 /\ chunk \in 0 .. n /\ k \in 0 .. n
      BY <1>1, <2>2 DEF n
    <3> QED
      BY <1>1, <3>1
  <2> QED
    BY <2>1, <2>2 DEF n
<1>4. ~(size < resource.stored[chunk + 1])
  <2>1. chunk + 1 \in 1 .. n /\ chunk \in 0 .. n /\ chunk + 1 \in 0 .. n
    BY <1>1 DEF n
  <2>2. base(chunk + 1) = base(chunk) + resource.stored[chunk + 1] /\ base(chunk) \in Nat
    BY <1>1, <2>1
  <2>3. CASE chunk < n - 1
    BY <1>1, <1>2, <2>1, <2>2, <2>3
  <2>4. CASE ~(chunk < n - 1)
    <3>1. chunk + 1 = n
      BY <1>1, <2>1, <2>4
    <3> QED
      BY <1>1, <1>2, <2>1, <2>2, <3>1
  <2> QED
    BY <2>3, <2>4
<1>5. (CHOOSE k \in 0 .. n - 1 : base(k) = base(chunk)) = chunk
  BY <1>3 DEF n
<1> QED
  BY <1>4, <1>5 DEF WimReader!ReadChunk, n, base

\* A read that starts where a chunk does, or ends in the chunk it starts in.
WimFits ==
  \/ request.offset % ChunkSize = 0
  \/ request.offset \div ChunkSize = (WimReader!end - 1) \div ChunkSize

\* The chunks that were read lie one after the other, up to the next one or the end.
WimInv ==
  /\ resource \in Resources
  /\ WimReader!TypeOK
  /\ offset_in_chunk = request.offset % ChunkSize
  /\ result \in Seq(Int)
  /\ WimFits =>
       /\ Len(result) = request.length - length
       /\ request.offset + Len(result) <= resource.size
       /\ \A i \in 1 .. Len(result) : result[i] = request.offset + i - 1
       /\ length > 0 =>
            request.offset + Len(result) =
              IF chunk < WimReader!num_chunks THEN chunk * ChunkSize + offset_in_chunk
                                              ELSE resource.size
  /\ pc = "cut" => length > 0 /\ chunk = WimReader!num_chunks
  /\ pc = "done" => length = 0

\* A request starts in a chunk of the resource.
LEMMA WimRequest ==
  ASSUME resource \in Resources, request \in WimReader!Requests(resource.size)
  PROVE  /\ resource.size \in Nat \ {0} /\ ChunkSize \in Nat \ {0}
         /\ request.offset \in 0 .. resource.size - 1 /\ request.length \in Nat \ {0}
         /\ WimReader!num_chunks \in Nat \ {0}
         /\ request.offset \div ChunkSize \in 0 .. WimReader!num_chunks - 1
         /\ request.offset % ChunkSize \in 0 .. ChunkSize - 1
         /\ request.offset = (request.offset \div ChunkSize) * ChunkSize + (request.offset % ChunkSize)
<1>1. resource.size \in Nat \ {0} /\ ChunkSize \in Nat \ {0} /\ Align \in Nat \ {0}
  BY WimAssumption
<1>2. request.offset \in 0 .. resource.size - 1 /\ request.length \in 1 .. resource.size + Align - 1
  BY DEF WimReader!Requests
<1> DEFINE q == request.offset \div ChunkSize
           r == request.offset % ChunkSize
           n == WimReader!num_chunks
<1>3. q \in Nat /\ r \in 0 .. ChunkSize - 1 /\ request.offset = q * ChunkSize + r
  <2>1. request.offset \in Nat
    BY <1>1, <1>2
  <2> QED
    BY <1>1, <2>1, Divided
<1>4. n \in Nat \ {0} /\ resource.size <= n * ChunkSize
  BY WimStarts
<1> HIDE DEF q, r, n
<1>5. q < n
  <2>1. q * ChunkSize \in Int /\ n * ChunkSize \in Int
    BY <1>1, <1>3, <1>4
  <2>2. q * ChunkSize < n * ChunkSize
    BY <1>1, <1>2, <1>3, <1>4, <2>1
  <2> QED
    BY <1>1, <1>3, <1>4, <2>2, ProductOrder
<1> QED
  BY <1>1, <1>2, <1>3, <1>4, <1>5 DEF q, r, n

\* At first nothing is read, and the chunk is the one the request starts in.
LEMMA WimInit ==
  ASSUME WimReader!Init
  PROVE  WimInv
<1>1. resource \in Resources /\ request \in WimReader!Requests(resource.size)
  BY DEF WimReader!Init
<1>2. /\ chunk = request.offset \div ChunkSize /\ offset_in_chunk = request.offset % ChunkSize
      /\ length = request.length /\ result = <<>> /\ pc = "reading"
  BY DEF WimReader!Init
<1>3. Len(result) = 0 /\ result \in Seq(Int)
  BY <1>2, EmptySeq
<1> DEFINE q == request.offset \div ChunkSize
           r == request.offset % ChunkSize
           n == WimReader!num_chunks
<1>4. /\ resource.size \in Nat \ {0} /\ n \in Nat \ {0}
      /\ request.offset \in 0 .. resource.size - 1 /\ request.length \in Nat \ {0}
      /\ q \in 0 .. n - 1 /\ r \in 0 .. ChunkSize - 1
      /\ request.offset = q * ChunkSize + r
  BY <1>1, WimRequest
<1>5. chunk = q /\ offset_in_chunk = r
  BY <1>2
<1> HIDE DEF q, r, n
<1>6. chunk \in 0 .. n /\ offset_in_chunk \in 0 .. ChunkSize - 1 /\ length \in Nat /\ length > 0
  BY <1>2, <1>4, <1>5
<1>7. WimReader!TypeOK
  BY <1>1, <1>2, <1>6 DEF WimReader!TypeOK, n
<1>8. chunk < n /\ request.offset + Len(result) = chunk * ChunkSize + offset_in_chunk
  BY <1>3, <1>4, <1>5
<1>9. /\ Len(result) = request.length - length /\ request.offset + Len(result) <= resource.size
      /\ \A i \in 1 .. Len(result) : result[i] = request.offset + i - 1
  BY <1>2, <1>3, <1>4
<1> QED
  BY <1>1, <1>2, <1>3, <1>7, <1>8, <1>9 DEF WimInv, n

\* What a slice holds.
LEMMA SliceIs ==
  ASSUME NEW s \in Seq(Int), NEW o \in Nat, NEW k \in Int
  PROVE  /\ WimReader!Slice(s, o, k) \in Seq(Int)
         /\ k >= 0 /\ o + k <= Len(s) =>
              /\ Len(WimReader!Slice(s, o, k)) = k
              /\ \A i \in 1 .. k : WimReader!Slice(s, o, k)[i] = s[o + i]
<1> DEFINE e == WimReader!Smaller(o + k, Len(s))
<1>1. Len(s) \in Nat /\ \A i \in 1 .. Len(s) : s[i] \in Int
  BY LenProperties, ElementOfSeq
<1>2. e \in Int /\ e <= Len(s) /\ (o + k <= Len(s) => e = o + k)
  BY <1>1 DEF WimReader!Smaller
<1> HIDE DEF e
<1>3. \A i \in o + 1 .. e : s[i] \in Int
  BY <1>1, <1>2
<1>4. /\ SubSeq(s, o + 1, e) \in Seq(Int)
      /\ Len(SubSeq(s, o + 1, e)) = IF o + 1 <= e THEN e - (o + 1) + 1 ELSE 0
      /\ \A i \in 1 .. e - (o + 1) + 1 : SubSeq(s, o + 1, e)[i] = s[o + 1 + i - 1]
  <2>1. o + 1 \in Int
    OBVIOUS
  <2> QED
    BY <1>2, <1>3, <2>1, SubSeqProperties
<1> QED
  BY <1>1, <1>2, <1>4 DEF WimReader!Slice, e

\* What NextChunk adds to the result.
WimAdded ==
  WimReader!Slice(
    WimReader!ReadChunk(WimReader!Start(chunk), WimReader!NextStart - WimReader!Start(chunk)),
    offset_in_chunk, WimReader!Smaller(WimReader!Remaining, length))

\* It is the next bytes, and all of the chunk that is left, if there is more to be read.
LEMMA WimNextBytes ==
  ASSUME WimInv, chunk \in 0 .. WimReader!num_chunks - 1, length > 0
  PROVE  /\ WimReader!Remaining \in Int
         /\ WimAdded \in Seq(Int)
         /\ WimFits =>
              \E m \in Nat :
                /\ m = WimReader!Smaller(WimReader!Remaining, length)
                /\ Len(WimAdded) = m
                /\ \A i \in 1 .. m : WimAdded[i] = request.offset + Len(result) + i - 1
                /\ request.offset + Len(result) + m <= resource.size
                /\ length - m > 0 =>
                     request.offset + Len(result) + m =
                       IF chunk + 1 < WimReader!num_chunks THEN (chunk + 1) * ChunkSize + offset_in_chunk
                                                           ELSE resource.size
<1> DEFINE n == WimReader!num_chunks
           base == chunk * ChunkSize
           size == resource.size
           o == offset_in_chunk
           m == WimReader!Smaller(ChunkSize, size - base)
           buf == [i \in 1 .. m |-> base + i - 1]
           R == WimReader!Remaining
           k == WimReader!Smaller(R, length)
<1>1. /\ resource \in Resources /\ request \in WimReader!Requests(resource.size)
      /\ length \in Nat /\ o \in 0 .. ChunkSize - 1
  BY DEF WimInv, WimReader!TypeOK
<1>o. o = request.offset % ChunkSize
  BY DEF WimInv
<1>2. /\ size \in Nat \ {0} /\ ChunkSize \in Nat \ {0} /\ n \in Nat \ {0}
      /\ request.offset \in 0 .. size - 1 /\ request.length \in Nat \ {0}
  BY <1>1, WimRequest
<1>s. n * ChunkSize - ChunkSize < size /\ size <= n * ChunkSize
  BY <1>1, WimStarts
<1>3. chunk \in 0 .. n - 1
  OBVIOUS
<1>p. (chunk + 1) * ChunkSize = base + ChunkSize
  BY <1>2, <1>3, Stepped
<1>4. /\ base \in Nat /\ base < size
      /\ chunk < n - 1 => base + ChunkSize < size
      /\ chunk = n - 1 => size <= base + ChunkSize
  <2> HIDE DEF n
  <2>1. base \in Nat
    BY <1>2, <1>3
  <2>2. (n - 1) * ChunkSize = n * ChunkSize - ChunkSize /\ n * ChunkSize \in Int
    BY <1>2, Stepped
  <2>3. chunk < n - 1 => base < (n - 1) * ChunkSize
    BY <1>2, <1>3, ProductOrder
  <2>4. chunk + 1 < n - 1 => (chunk + 1) * ChunkSize < (n - 1) * ChunkSize
    BY <1>2, <1>3, ProductOrder
  <2>5. /\ chunk = n - 1 => base = (n - 1) * ChunkSize
        /\ chunk + 1 = n - 1 => (chunk + 1) * ChunkSize = (n - 1) * ChunkSize
    OBVIOUS
  <2> HIDE DEF base
  <2> QED
    BY <1>2, <1>s, <1>3, <1>p, <2>1, <2>2, <2>3, <2>4, <2>5
<1>5. R = IF chunk < n - 1 THEN ChunkSize - o ELSE size - base - o
  BY DEF WimReader!Remaining
<1>6. WimAdded = WimReader!Slice(buf, o, k)
  BY <1>1, WimChunk DEF WimAdded
<1>7. Len(result) \in Nat
  BY LenProperties DEF WimInv
<1> HIDE DEF n, base, o, R
<1>8. R \in Int /\ k \in Int /\ m \in Nat /\ (chunk < n - 1 => m = ChunkSize)
      /\ (chunk = n - 1 => m = size - base)
  BY <1>1, <1>2, <1>3, <1>4, <1>5 DEF WimReader!Smaller
<1>9. k = IF R < length THEN R ELSE length
  BY DEF WimReader!Smaller
<1> HIDE DEF m, k
<1>10. buf \in Seq(Int) /\ Len(buf) = m /\ \A i \in 1 .. m : buf[i] = base + i - 1
  BY <1>4, <1>8
<1> HIDE DEF buf
<1>11. /\ WimReader!Slice(buf, o, k) \in Seq(Int)
       /\ k >= 0 /\ o + k <= Len(buf) =>
              /\ Len(WimReader!Slice(buf, o, k)) = k
              /\ \A i \in 1 .. k : WimReader!Slice(buf, o, k)[i] = buf[o + i]
  <2>1. o \in Nat
    BY <1>1, <1>2
  <2> QED
    BY <1>8, <1>10, <2>1, SliceIs
<1>12. ASSUME WimFits
       PROVE  /\ k \in Nat /\ Len(WimAdded) = k
              /\ \A i \in 1 .. k : WimAdded[i] = request.offset + Len(result) + i - 1
              /\ request.offset + Len(result) + k <= size
              /\ length - k > 0 =>
                   request.offset + Len(result) + k =
                     IF chunk + 1 < n THEN (chunk + 1) * ChunkSize + o ELSE size
  <2>1. /\ Len(result) = request.length - length
        /\ request.offset + Len(result) <= size
        /\ request.offset + Len(result) = base + o
    <3>1. chunk < n
      BY <1>2, <1>3
    <3> QED
      BY <1>12, <3>1 DEF WimInv, n, base, o
  <2>2. k >= 0 /\ o + k <= m /\ base + m <= size
    <3> HIDE DEF size
    <3>1. CASE chunk < n - 1
      <4>1. R = ChunkSize - o /\ m = ChunkSize /\ base + ChunkSize < size
        BY <1>4, <1>5, <1>8, <3>1
      <4> QED
        BY <1>1, <1>2, <1>4, <1>8, <1>9, <4>1
    <3>2. CASE chunk = n - 1
      <4>1. R = size - base - o /\ m = size - base /\ base + o <= size
        BY <1>4, <1>5, <1>8, <2>1, <3>2 DEF size
      <4> QED
        BY <1>1, <1>2, <1>4, <1>8, <1>9, <4>1 DEF size
    <3> QED
      BY <1>2, <1>3, <3>1, <3>2
  <2>3. /\ Len(WimAdded) = k
        /\ \A i \in 1 .. k : WimAdded[i] = buf[o + i]
    BY <1>6, <1>10, <1>11, <2>2
  <2>4. \A i \in 1 .. k : o + i \in 1 .. m
    BY <1>1, <1>2, <1>8, <2>2
  <2>5. \A i \in 1 .. k : WimAdded[i] = request.offset + Len(result) + i - 1
    <3> TAKE i \in 1 .. k
    <3>1. WimAdded[i] = base + (o + i) - 1
      BY <1>10, <2>3, <2>4
    <3> QED
      BY <1>1, <1>2, <1>4, <1>8, <2>1, <3>1
  <2>6. o = 0 \/ length <= ChunkSize - o
    <3> DEFINE q == request.offset \div ChunkSize
    <3>1. SUFFICES ASSUME o # 0 PROVE length <= ChunkSize - o
      OBVIOUS
    <3>2. q = (request.offset + request.length - 1) \div ChunkSize
      <4>1. request.offset % ChunkSize # 0
        BY <1>o, <3>1
      <4>2. WimReader!end - 1 = request.offset + request.length - 1
        BY <1>2 DEF WimReader!end
      <4>3. q = (WimReader!end - 1) \div ChunkSize
        BY <1>12, <4>1 DEF WimFits
      <4> QED
        BY <4>2, <4>3
    <3>3. q \in Nat /\ request.offset = q * ChunkSize + o
      <4>1. request.offset \in Nat
        BY <1>2
      <4> QED
        BY <1>o, <1>2, <4>1, Divided
    <3>4. request.offset + request.length - 1 < q * ChunkSize + ChunkSize
      <4> DEFINE b == request.offset + request.length - 1
      <4>1. b \in Nat
        BY <1>2
      <4>2. b % ChunkSize \in 0 .. ChunkSize - 1 /\ b = (b \div ChunkSize) * ChunkSize + (b % ChunkSize)
        BY <1>2, <4>1, Divided
      <4>3. b \div ChunkSize = q
        BY <3>2
      <4> HIDE DEF b, q
      <4>4. q * ChunkSize \in Int
        BY <1>2, <3>3
      <4>5. b < q * ChunkSize + ChunkSize
        BY <1>2, <4>1, <4>2, <4>3, <4>4
      <4> QED
        BY <4>5 DEF b
    <3> HIDE DEF q
    <3>5. q * ChunkSize \in Int
      BY <1>2, <3>3
    <3> QED
      BY <1>1, <1>2, <1>4, <1>7, <2>1, <3>3, <3>4, <3>5
  <2>7. ASSUME length - k > 0
        PROVE  request.offset + Len(result) + k =
                  IF chunk + 1 < n THEN (chunk + 1) * ChunkSize + o ELSE size
    <3>1. k = R /\ R < length
      BY <1>1, <1>8, <1>9, <2>7
    <3>2. CASE chunk + 1 < n
      <4>1. R = ChunkSize - o /\ chunk < n - 1
        BY <1>2, <1>3, <1>5, <3>2
      <4>2. o = 0
        BY <1>1, <1>8, <2>6, <3>1, <4>1
      <4> QED
        BY <1>2, <1>4, <1>p, <2>1, <3>1, <3>2, <4>1, <4>2
    <3>3. CASE ~(chunk + 1 < n)
      <4>1. R = size - base - o
        BY <1>2, <1>3, <1>5, <3>3
      <4> QED
        BY <1>1, <1>2, <1>4, <2>1, <3>1, <3>3, <4>1
    <3> QED
      BY <3>2, <3>3
  <2>8. request.offset + Len(result) + k <= size
    BY <1>1, <1>2, <1>4, <1>8, <2>1, <2>2
  <2>9. k \in Nat
    BY <1>8, <2>2
  <2> QED
    BY <2>3, <2>5, <2>7, <2>8, <2>9
<1> QED
  BY <1>6, <1>8, <1>11, <1>12 DEF n, o, R, k

\* The parts of WimInv that say where the read has come.
WimProgress ==
  /\ Len(result) = request.length - length
  /\ request.offset + Len(result) <= resource.size
  /\ \A i \in 1 .. Len(result) : result[i] = request.offset + i - 1
  /\ length > 0 =>
       request.offset + Len(result) =
         IF chunk < WimReader!num_chunks THEN chunk * ChunkSize + offset_in_chunk
                                         ELSE resource.size

\* The invariant holds after every step.
LEMMA WimStep ==
  ASSUME WimInv, [WimReader!Next]_(WimReader!vars)
  PROVE  WimInv'
<1> DEFINE n == WimReader!num_chunks
<1>1. /\ resource \in Resources /\ request \in WimReader!Requests(resource.size)
      /\ n \in Nat \ {0} /\ chunk \in 0 .. n /\ length \in Nat /\ result \in Seq(Int)
      /\ pc \in {"reading", "cut", "done"}
      /\ resource.size \in Nat \ {0} /\ ChunkSize \in Nat \ {0}
      /\ offset_in_chunk \in 0 .. ChunkSize - 1
      /\ request.offset \in Nat /\ request.length \in Nat /\ Len(result) \in Nat
  <2>1. /\ resource \in Resources /\ request \in WimReader!Requests(resource.size)
        /\ chunk \in 0 .. n /\ length \in Nat /\ result \in Seq(Int)
        /\ pc \in {"reading", "cut", "done"} /\ offset_in_chunk \in 0 .. ChunkSize - 1
    BY DEF WimInv, WimReader!TypeOK
  <2>2. Len(result) \in Nat
    BY <2>1, LenProperties
  <2>3. /\ resource.size \in Nat \ {0} /\ ChunkSize \in Nat \ {0} /\ n \in Nat \ {0}
        /\ request.offset \in 0 .. resource.size - 1 /\ request.length \in Nat \ {0}
    BY <2>1, WimRequest
  <2> HIDE DEF n
  <2> QED
    BY <2>1, <2>2, <2>3
<1>2. ASSUME UNCHANGED <<resource, request, chunk, offset_in_chunk, length, result>>,
             pc' = "cut" => length > 0 /\ chunk = n,
             pc' = "done" => length = 0,
             pc' \in {"reading", "cut", "done"}
      PROVE  WimInv'
  BY <1>2 DEF WimInv, WimFits, WimReader!TypeOK, WimReader!num_chunks, WimReader!end
<1>3. CASE WimReader!OutOfChunks
  BY <1>1, <1>2, <1>3 DEF WimReader!OutOfChunks, WimReader!Reading
<1>4. CASE WimReader!Return
  BY <1>1, <1>2, <1>4 DEF WimReader!Return
<1>5. CASE UNCHANGED WimReader!vars
  BY <1>1, <1>2, <1>5 DEF WimReader!vars, WimInv
<1>6. CASE WimReader!NextChunk
  <2>1. /\ length > 0 /\ chunk \in 0 .. n - 1 /\ pc = "reading"
        /\ result' = result \o WimAdded
        /\ length' = length - WimReader!Smaller(WimReader!Remaining, length)
        /\ chunk' = chunk + 1
        /\ UNCHANGED <<resource, request, offset_in_chunk, pc>>
    <3>1. chunk < n /\ length > 0
      BY <1>6 DEF WimReader!NextChunk, WimReader!Reading
    <3> QED
      BY <1>1, <1>6, <3>1 DEF WimReader!NextChunk, WimReader!Reading, WimAdded
  <2>2. /\ WimReader!Remaining \in Int /\ WimAdded \in Seq(Int)
        /\ WimFits => \E m \in Nat :
                /\ m = WimReader!Smaller(WimReader!Remaining, length)
                /\ Len(WimAdded) = m
                /\ \A i \in 1 .. m : WimAdded[i] = request.offset + Len(result) + i - 1
                /\ request.offset + Len(result) + m <= resource.size
                /\ length - m > 0 =>
                     request.offset + Len(result) + m =
                       IF chunk + 1 < n THEN (chunk + 1) * ChunkSize + offset_in_chunk
                                        ELSE resource.size
    BY <2>1, WimNextBytes
  <2>3. n' = n /\ (WimFits' <=> WimFits)
    BY <2>1 DEF WimReader!num_chunks, WimFits, WimReader!end
  <2>4. length' \in Nat /\ chunk' \in 0 .. n
    BY <1>1, <2>1, <2>2 DEF WimReader!Smaller
  <2>5. result' \in Seq(Int)
    BY <1>1, <2>1, <2>2, ConcatProperties
  <2>6. WimReader!TypeOK'
    BY <1>1, <2>1, <2>3, <2>4 DEF WimReader!TypeOK
  <2>7. ASSUME WimFits
        PROVE  WimProgress'
    <3>1. PICK m \in Nat :
            /\ m = WimReader!Smaller(WimReader!Remaining, length)
            /\ Len(WimAdded) = m
            /\ \A i \in 1 .. m : WimAdded[i] = request.offset + Len(result) + i - 1
            /\ request.offset + Len(result) + m <= resource.size
            /\ length - m > 0 =>
                 request.offset + Len(result) + m =
                   IF chunk + 1 < n THEN (chunk + 1) * ChunkSize + offset_in_chunk ELSE resource.size
      BY <2>2, <2>7
    <3>2. /\ Len(result) = request.length - length
          /\ \A i \in 1 .. Len(result) : result[i] = request.offset + i - 1
      BY <2>7 DEF WimInv
    <3>3. /\ Len(result') = Len(result) + m
          /\ \A i \in 1 .. Len(result) + m :
               result'[i] = IF i <= Len(result) THEN result[i] ELSE WimAdded[i - Len(result)]
      <4>1. result \in Seq(Int) /\ WimAdded \in Seq(Int) /\ result' = result \o WimAdded
        BY <1>1, <2>1, <2>2
      <4>2. Len(WimAdded) = m
        BY <3>1
      <4> QED
        BY <4>1, <4>2, ConcatProperties
    <3> HIDE DEF n
    <3>4. \A i \in 1 .. Len(result') : result'[i] = request.offset + i - 1
      <4> TAKE i \in 1 .. Len(result')
      <4>1. CASE i <= Len(result)
        BY <1>1, <3>2, <3>3, <4>1
      <4>2. CASE ~(i <= Len(result))
        <5>1. i - Len(result) \in 1 .. m
          BY <1>1, <3>3, <4>2
        <5>2. WimAdded[i - Len(result)] = request.offset + Len(result) + (i - Len(result)) - 1
          BY <3>1, <5>1
        <5> QED
          BY <1>1, <3>3, <4>2, <5>2
      <4> QED
        BY <4>1, <4>2
    <3>5. length' = length - m
      BY <2>1, <3>1
    <3>6. request.offset + Len(result') = request.offset + Len(result) + m
      BY <1>1, <3>3
    <3>7. length' > 0 =>
            request.offset + Len(result') =
              IF chunk' < n' THEN chunk' * ChunkSize + offset_in_chunk' ELSE resource'.size
      BY <2>1, <2>3, <3>1, <3>5, <3>6
    <3>8. Len(result') = request'.length - length'
      <4>1. request' = request
        BY <2>1
      <4>2. length \in Nat /\ request.length \in Nat
        BY <1>1
      <4> QED
        BY <3>2, <3>3, <3>5, <4>1, <4>2
    <3> QED
      BY <2>1, <3>1, <3>4, <3>6, <3>7, <3>8 DEF WimProgress, n
  <2> QED
    BY <1>1, <2>1, <2>3, <2>5, <2>6, <2>7 DEF WimInv, WimProgress
<1> QED
  BY <1>3, <1>4, <1>5, <1>6 DEF WimReader!Next, WimReader!Ended

\* The invariant says what a read of the resource is to give.
LEMMA WimFinal ==
  ASSUME WimInv
  PROVE  WimReader!ReadsSlice
<1>1. /\ resource.size \in Nat \ {0} /\ request.offset \in 0 .. resource.size - 1
      /\ request.length \in Nat \ {0} /\ WimReader!num_chunks \in Nat \ {0}
  BY WimRequest DEF WimInv, WimReader!TypeOK
<1>2. Len(result) \in Nat
  BY LenProperties DEF WimInv
<1>3. length \in Nat /\ pc \in {"reading", "cut", "done"}
  BY DEF WimInv, WimReader!TypeOK
<1>4. SUFFICES ASSUME WimFits
               PROVE  /\ \A i \in 1 .. Len(result) : result[i] = request.offset + i - 1
                      /\ pc # "reading" =>
                            Len(result) = WimReader!Smaller(request.length, resource.size - request.offset)
  BY DEF WimReader!ReadsSlice, WimFits
<1> QED
  BY <1>1, <1>2, <1>3, <1>4 DEF WimInv, WimReader!Smaller

-----------------------------------------------------------------------------
(***************************************************************************)
(* VMA files                                                               *)
(***************************************************************************)

Below(mask, b) == {c \in mask : c < b}

\* Counting the blocks of a mask from the first one on.
LEMMA BelowSteps ==
  ASSUME NEW n \in Nat, NEW mask \in SUBSET (0 .. n - 1)
  PROVE  /\ IsFiniteSet(mask) /\ Cardinality(mask) \in Nat
         /\ Below(mask, 0) = {} /\ Below(mask, n) = mask
         /\ \A k \in 0 .. n : Cardinality(Below(mask, k)) \in Nat
         /\ \A k \in 1 .. n :
              Cardinality(Below(mask, k)) =
                Cardinality(Below(mask, k - 1)) + (IF k - 1 \in mask THEN 1 ELSE 0)
<1>1. IsFiniteSet(0 .. n - 1)
  BY FS_Interval
<1>2. IsFiniteSet(mask) /\ Cardinality(mask) \in Nat
  BY <1>1, FS_Subset, FS_CardinalityType
<1>3. Below(mask, 0) = {} /\ Below(mask, n) = mask
  <2>1. \A c \in mask : c \in Int /\ 0 <= c /\ c < n
    OBVIOUS
  <2>2. \A c \in mask : ~(c < 0)
    BY <2>1
  <2> QED
    BY <2>1, <2>2 DEF Below
<1>4. \A k \in 0 .. n : IsFiniteSet(Below(mask, k)) /\ Cardinality(Below(mask, k)) \in Nat
  <2> TAKE k \in 0 .. n
  <2>1. Below(mask, k) \in SUBSET mask
    BY DEF Below
  <2>2. IsFiniteSet(Below(mask, k))
    BY <1>2, <2>1, FS_Subset
  <2> QED
    BY <2>2, FS_CardinalityType
<1>5. ASSUME NEW k \in 1 .. n
      PROVE  Cardinality(Below(mask, k)) =
               Cardinality(Below(mask, k - 1)) + (IF k - 1 \in mask THEN 1 ELSE 0)
  <2>1. k - 1 \in 0 .. n
    OBVIOUS
  <2>2. CASE k - 1 \in mask
    <3>1. \A c \in mask : c < k <=> c < k - 1 \/ c = k - 1
      OBVIOUS
    <3>2. k - 1 \in Int /\ ~(k - 1 < k - 1)
      OBVIOUS
    <3>3. k - 1 \notin Below(mask, k - 1)
      BY <3>2 DEF Below
    <3>4. Below(mask, k) = Below(mask, k - 1) \cup {k - 1}
      BY <2>2, <3>1 DEF Below
    <3> QED
      BY <1>4, <2>1, <2>2, <3>3, <3>4, FS_AddElement
  <2>3. CASE k - 1 \notin mask
    <3>1. \A c \in mask : c # k - 1
      BY <2>3
    <3>2. \A c \in mask : c < k <=> c < k - 1
      BY <3>1
    <3>3. Below(mask, k) = Below(mask, k - 1)
      BY <3>2 DEF Below
    <3> QED
      BY <1>4, <2>1, <2>3, <3>3
  <2> QED
    BY <2>2, <2>3
<1> QED
  BY <1>2, <1>3, <1>4, <1>5

Blocks == Int \X Int \X Int

\* The blocks of an entry, one by one, and put together.
VmaParts(f, e, n) ==
  [i \in 1 .. ClusterBlocks |-> IF i - 1 \in f[e][n].mask THEN << <<e, n, i - 1>> >> ELSE <<>>]

VmaStored(f, e, n) == FlattenSeq(VmaParts(f, e, n))

\* The entries of an extent, as they are stored.
VmaEntries(f, e) == [n \in 1 .. Len(f[e]) |-> VmaStored(f, e, n)]

VmaBody(f, e) == FlattenSeq(VmaEntries(f, e))

\* The entries of a file and what the assumption says of them.
LEMMA VmaTypes ==
  ASSUME NEW f \in Files
  PROVE  /\ ClusterBlocks \in Nat \ {0}
         /\ Len(f) \in Nat /\ DOMAIN f = 1 .. Len(f)
         /\ \A e \in 1 .. Len(f) :
              /\ Len(f[e]) \in Nat /\ DOMAIN f[e] = 1 .. Len(f[e])
              /\ \A n \in 1 .. Len(f[e]) :
                   /\ f[e][n].dev \in Nat /\ f[e][n].cluster \in Nat
                   /\ f[e][n].mask \in SUBSET (0 .. ClusterBlocks - 1)
                   /\ f[e][n].dev = 0 => f[e][n].mask = {}
<1> DEFINE R == [dev : Nat, cluster : Nat, mask : SUBSET (0 .. ClusterBlocks - 1)]
<1>1. f \in Seq(Seq(R)) /\ ClusterBlocks \in Nat \ {0}
  BY VmaAssumption
<1> HIDE DEF R
<1>2. \A e \in 1 .. Len(f) : f[e] \in Seq(R)
  BY <1>1, ElementOfSeq
<1>3. \A e \in 1 .. Len(f) : \A n \in 1 .. Len(f[e]) : f[e][n] \in R
  BY <1>2, ElementOfSeq
<1>4. /\ Len(f) \in Nat /\ DOMAIN f = 1 .. Len(f)
      /\ \A e \in 1 .. Len(f) : Len(f[e]) \in Nat /\ DOMAIN f[e] = 1 .. Len(f[e])
  BY <1>1, <1>2, LenProperties
<1>5. \A e \in 1 .. Len(f) : \A n \in 1 .. Len(f[e]) : f[e][n].dev = 0 => f[e][n].mask = {}
  BY VmaAssumption
<1> QED
  BY <1>1, <1>3, <1>4, <1>5 DEF R

\* A stored block comes after those of its entry that have lower numbers.
LEMMA VmaStoredIs ==
  ASSUME NEW f \in Files, NEW e \in 1 .. Len(f), NEW n \in 1 .. Len(f[e])
  PROVE  /\ VmaStored(f, e, n) \in Seq(Blocks)
         /\ Len(VmaStored(f, e, n)) = Cardinality(f[e][n].mask)
         /\ \A b \in f[e][n].mask :
              /\ Cardinality(Below(f[e][n].mask, b)) + 1 \in 1 .. Len(VmaStored(f, e, n))
              /\ VmaStored(f, e, n)[Cardinality(Below(f[e][n].mask, b)) + 1] = <<e, n, b>>
<1> DEFINE N == ClusterBlocks
           mask == f[e][n].mask
           ss == VmaParts(f, e, n)
           count(k) == Cardinality(Below(mask, k))
<1>1. /\ N \in Nat \ {0} /\ mask \in SUBSET (0 .. N - 1)
      /\ e \in Int /\ n \in Int
  BY VmaTypes
<1>2. /\ Cardinality(mask) \in Nat /\ count(0) = 0 /\ count(N) = Cardinality(mask)
      /\ \A k \in 0 .. N : count(k) \in Nat
      /\ \A k \in 1 .. N : count(k) = count(k - 1) + (IF k - 1 \in mask THEN 1 ELSE 0)
  <2>1. N \in Nat
    BY <1>1
  <2>2. /\ Cardinality(mask) \in Nat /\ Below(mask, 0) = {} /\ Below(mask, N) = mask
        /\ \A k \in 0 .. N : count(k) \in Nat
        /\ \A k \in 1 .. N : count(k) = count(k - 1) + (IF k - 1 \in mask THEN 1 ELSE 0)
    BY <1>1, <2>1, BelowSteps, ZenonT(60)
  <2>3. count(0) = 0
    BY <2>2, FS_EmptySet
  <2> QED
    BY <2>2, <2>3
<1>3. /\ ss \in Seq(Seq(Blocks)) /\ Len(ss) = N
      /\ \A i \in 1 .. N : ss[i] = IF i - 1 \in mask THEN << <<e, n, i - 1>> >> ELSE <<>>
  <2>1. \A i \in 1 .. N : (IF i - 1 \in mask THEN << <<e, n, i - 1>> >> ELSE <<>>) \in Seq(Blocks)
    <3> TAKE i \in 1 .. N
    <3>1. <<e, n, i - 1>> \in Blocks
      BY <1>1 DEF Blocks
    <3> QED
      BY <3>1
  <2> QED
    BY <1>1, <2>1 DEF VmaParts
<1> HIDE DEF ss, mask, N, count
<1>4. /\ FlatTo(ss, 0) = <<>> /\ FlatTo(ss, N) = FlattenSeq(ss)
      /\ FlattenSeq(ss) \in Seq(Blocks)
      /\ \A k \in 0 .. N : Len(FlatTo(ss, k)) \in Nat
  BY <1>3, FlatToSteps, FlattenType
<1>5. \A i \in 1 .. N :
        /\ Len(FlatTo(ss, i)) = Len(FlatTo(ss, i - 1)) + Len(ss[i])
        /\ Len(FlatTo(ss, i)) <= Len(FlattenSeq(ss))
        /\ \A j \in 1 .. Len(ss[i]) : FlattenSeq(ss)[Len(FlatTo(ss, i - 1)) + j] = ss[i][j]
  BY <1>3, FlattenAt, ZenonT(60)
<1>6. \A i \in 1 .. N : Len(ss[i]) = IF i - 1 \in mask THEN 1 ELSE 0
  BY <1>3
<1>7. \A k \in 0 .. N : Len(FlatTo(ss, k)) = count(k)
  <2> DEFINE bad == {k \in Nat : k \in 0 .. N /\ Len(FlatTo(ss, k)) # count(k)}
  <2>1. bad = {}
    <3> SUFFICES ASSUME bad # {} PROVE FALSE
      OBVIOUS
    <3>1. PICK k \in bad : \A j \in bad : k <= j
      BY LeastNatural
    <3>2. k # 0
      BY <1>2, <1>4, <3>1
    <3>3. k \in 1 .. N /\ k - 1 \in 0 .. N /\ k - 1 \notin bad
      BY <1>1, <3>1, <3>2
    <3>4. Len(FlatTo(ss, k - 1)) = count(k - 1)
      BY <3>3
    <3> QED
      BY <1>2, <1>5, <1>6, <3>1, <3>3, <3>4
  <2> QED
    BY <1>1, <2>1
<1>8. Len(FlattenSeq(ss)) = Cardinality(mask)
  BY <1>1, <1>2, <1>4, <1>7
<1>9. ASSUME NEW b \in mask
      PROVE  /\ count(b) + 1 \in 1 .. Len(FlattenSeq(ss))
             /\ FlattenSeq(ss)[count(b) + 1] = <<e, n, b>>
  <2>1. b + 1 \in 1 .. N /\ (b + 1) - 1 = b /\ b \in 0 .. N
    BY <1>1
  <2>2. ss[b + 1] = << <<e, n, b>> >> /\ Len(ss[b + 1]) = 1
    BY <1>3, <1>6, <2>1
  <2>3. /\ Len(FlatTo(ss, b + 1)) = Len(FlatTo(ss, b)) + 1
        /\ Len(FlatTo(ss, b + 1)) <= Len(FlattenSeq(ss))
        /\ FlattenSeq(ss)[Len(FlatTo(ss, b)) + 1] = ss[b + 1][1]
    <3>1. /\ Len(FlatTo(ss, b + 1)) = Len(FlatTo(ss, (b + 1) - 1)) + Len(ss[b + 1])
          /\ Len(FlatTo(ss, b + 1)) <= Len(FlattenSeq(ss))
          /\ \A j \in 1 .. Len(ss[b + 1]) :
               FlattenSeq(ss)[Len(FlatTo(ss, (b + 1) - 1)) + j] = ss[b + 1][j]
      BY <1>5, <2>1
    <3> QED
      BY <2>1, <2>2, <3>1
  <2>4. Len(FlatTo(ss, b)) = count(b) /\ count(b) \in Nat
    BY <1>2, <1>7, <2>1
  <2> QED
    BY <1>2, <1>8, <2>2, <2>3, <2>4
<1> QED
  BY <1>4, <1>8, <1>9 DEF VmaStored, ss, mask, count

\* Sums are the same in the modules of VMA files.
LEMMA VmaSums ==
  ASSUME NEW f, NEW S
  PROVE  /\ VmaReader!SumFunctionOnSet(f, S) = SumFunctionOnSet(f, S)
         /\ VmaExtractor!SumFunctionOnSet(f, S) = SumFunctionOnSet(f, S)
<1>1. VmaReader!SumFunctionOnSet(f, S) = SumFunctionOnSet(f, S)
  BY DEF VmaReader!SumFunctionOnSet, VmaReader!FoldFunctionOnSet, VmaReader!MapThenFoldSet,
         SumFunctionOnSet, FoldFunctionOnSet, MapThenFoldSet
<1>2. VmaExtractor!SumFunctionOnSet(f, S) = SumFunctionOnSet(f, S)
  BY DEF VmaExtractor!SumFunctionOnSet, VmaExtractor!FoldFunctionOnSet,
         VmaExtractor!MapThenFoldSet, SumFunctionOnSet, FoldFunctionOnSet, MapThenFoldSet
<1> QED
  BY <1>1, <1>2

\* What is put together of sequences is the same in the modules of VMA files.
LEMMA VmaFlattened ==
  ASSUME NEW ss
  PROVE  /\ VmaReader!FlattenSeq(ss) = FlattenSeq(ss)
         /\ VmaExtractor!FlattenSeq(ss) = FlattenSeq(ss)
BY DEF VmaReader!FlattenSeq, VmaExtractor!FlattenSeq, FlattenSeq

\* The size of a set is the same in the modules of VMA files.
LEMMA VmaCounted ==
  ASSUME NEW S
  PROVE  /\ VmaReader!Cardinality(S) = Cardinality(S)
         /\ VmaExtractor!Cardinality(S) = Cardinality(S)
BY DEF VmaReader!Cardinality, VmaExtractor!Cardinality, Cardinality

\* Where the blocks of entry n of extent e start.
VmaOffset(f, e, n) == Len(FlatTo(VmaEntries(f, e), n - 1))

\* The blocks of an entry come after those of the entries before it.
LEMMA VmaBodyIs ==
  ASSUME NEW f \in Files, NEW e \in 1 .. Len(f)
  PROVE  /\ VmaBody(f, e) \in Seq(Blocks) /\ Len(VmaBody(f, e)) \in Nat
         /\ VmaOffset(f, e, 1) = 0
         /\ \A n \in 1 .. Len(f[e]) + 1 : VmaOffset(f, e, n) \in Nat
         /\ \A n \in 1 .. Len(f[e]) :
              /\ VmaOffset(f, e, n + 1) = VmaOffset(f, e, n) + Cardinality(f[e][n].mask)
              /\ VmaOffset(f, e, n + 1) <= Len(VmaBody(f, e))
              /\ \A b \in f[e][n].mask :
                   LET p == Cardinality(Below(f[e][n].mask, b)) + 1
                   IN  /\ p \in 1 .. Cardinality(f[e][n].mask)
                       /\ VmaBody(f, e)[VmaOffset(f, e, n) + p] = <<e, n, b>>
<1> DEFINE ss == VmaEntries(f, e)
           N == Len(f[e])
<1>1. N \in Nat
  BY VmaTypes
<1>2. ss \in Seq(Seq(Blocks)) /\ Len(ss) = N /\ \A n \in 1 .. N : ss[n] = VmaStored(f, e, n)
  <2>1. \A n \in 1 .. N : VmaStored(f, e, n) \in Seq(Blocks)
    BY VmaStoredIs
  <2> QED
    BY <1>1, <2>1 DEF VmaEntries
<1> HIDE DEF ss
<1>3. /\ \A k \in 0 .. N : Len(FlatTo(ss, k)) \in Nat
      /\ FlatTo(ss, 0) = <<>>
      /\ FlattenSeq(ss) \in Seq(Blocks)
  BY <1>2, FlatToSteps, FlattenType
<1>4. \A n \in 1 .. N :
        /\ Len(FlatTo(ss, n)) = Len(FlatTo(ss, n - 1)) + Len(ss[n])
        /\ Len(FlatTo(ss, n)) <= Len(FlattenSeq(ss))
        /\ \A j \in 1 .. Len(ss[n]) : FlattenSeq(ss)[Len(FlatTo(ss, n - 1)) + j] = ss[n][j]
  <2> TAKE n \in 1 .. N
  <2>1. n \in 1 .. Len(ss) /\ ss \in Seq(Seq(Blocks))
    BY <1>2
  <2> HIDE DEF N
  <2> QED
    BY <2>1, FlattenAt
<1>5. \A k \in 0 .. N : VmaOffset(f, e, k + 1) = Len(FlatTo(ss, k))
  <2> TAKE k \in 0 .. N
  <2>1. (k + 1) - 1 = k
    BY <1>1
  <2> QED
    BY <2>1 DEF VmaOffset, ss
<1>6. \A n \in 1 .. N : VmaOffset(f, e, n) = Len(FlatTo(ss, n - 1))
  BY DEF VmaOffset, ss
<1>7. VmaBody(f, e) = FlattenSeq(ss)
  BY DEF VmaBody, ss
<1>8. ASSUME NEW n \in 1 .. N
      PROVE  /\ Len(ss[n]) = Cardinality(f[e][n].mask)
             /\ \A b \in f[e][n].mask :
                  /\ Cardinality(Below(f[e][n].mask, b)) + 1 \in 1 .. Len(ss[n])
                  /\ ss[n][Cardinality(Below(f[e][n].mask, b)) + 1] = <<e, n, b>>
  BY <1>2, VmaStoredIs
<1>9. VmaOffset(f, e, 1) = 0
  <2>1. VmaOffset(f, e, 0 + 1) = Len(FlatTo(ss, 0))
    BY <1>1, <1>5
  <2> QED
    BY <1>3, <2>1, EmptySeq
<1>10. \A n \in 1 .. N + 1 : VmaOffset(f, e, n) \in Nat
  <2> TAKE n \in 1 .. N + 1
  <2>1. n - 1 \in 0 .. N
    BY <1>1
  <2> QED
    BY <1>3, <2>1 DEF VmaOffset, ss
<1>11. ASSUME NEW n \in 1 .. N
       PROVE  /\ VmaOffset(f, e, n + 1) = VmaOffset(f, e, n) + Cardinality(f[e][n].mask)
              /\ VmaOffset(f, e, n + 1) <= Len(VmaBody(f, e))
              /\ \A b \in f[e][n].mask :
                   /\ Cardinality(Below(f[e][n].mask, b)) + 1 \in 1 .. Cardinality(f[e][n].mask)
                   /\ VmaBody(f, e)[VmaOffset(f, e, n) + (Cardinality(Below(f[e][n].mask, b)) + 1)]
                        = <<e, n, b>>
  <2>1. n \in 0 .. N
    BY <1>1
  <2>2. VmaOffset(f, e, n + 1) = Len(FlatTo(ss, n)) /\ VmaOffset(f, e, n) = Len(FlatTo(ss, n - 1))
    BY <1>5, <1>6, <2>1
  <2>3. ASSUME NEW b \in f[e][n].mask
        PROVE  FlattenSeq(ss)[Len(FlatTo(ss, n - 1)) + (Cardinality(Below(f[e][n].mask, b)) + 1)]
                 = <<e, n, b>>
    <3> DEFINE p == Cardinality(Below(f[e][n].mask, b)) + 1
    <3>1. p \in 1 .. Len(ss[n]) /\ ss[n][p] = <<e, n, b>>
      BY <1>8
    <3> HIDE DEF p
    <3>2. FlattenSeq(ss)[Len(FlatTo(ss, n - 1)) + p] = ss[n][p]
      BY <1>4, <3>1
    <3>3. FlattenSeq(ss)[Len(FlatTo(ss, n - 1)) + p] = <<e, n, b>>
      BY <3>1, <3>2
    <3> QED
      BY <3>3 DEF p
  <2> QED
    BY <1>4, <1>7, <1>8, <2>2, <2>3
<1>12. Len(VmaBody(f, e)) \in Nat
  BY <1>3, <1>7, LenProperties
<1> QED
  BY <1>3, <1>7, <1>9, <1>10, <1>11, <1>12

\* The sum of what the entries before hold is where the blocks start.
LEMMA VmaSumOfHeld ==
  ASSUME NEW f \in Files, NEW e \in 1 .. Len(f), NEW held,
         \A n \in 1 .. Len(f[e]) :
           held[n] = IF f[e][n].dev = 0 THEN 0 ELSE Cardinality(f[e][n].mask)
  PROVE  \A n \in 1 .. Len(f[e]) : SumFunctionOnSet(held, 1 .. n - 1) = VmaOffset(f, e, n)
<1> DEFINE N == Len(f[e])
           sum(k) == SumFunctionOnSet(held, 1 .. k)
           off(k) == VmaOffset(f, e, k)
<1>1. N \in Nat /\ \A n \in 1 .. N : Cardinality(f[e][n].mask) \in Nat
  <2>1. N \in Nat /\ \A n \in 1 .. N : f[e][n].mask \in SUBSET (0 .. ClusterBlocks - 1)
    BY VmaTypes
  <2>2. ClusterBlocks \in Nat
    BY VmaTypes
  <2> QED
    BY <2>1, <2>2, BelowSteps
<1>2. \A n \in 1 .. N : held[n] = Cardinality(f[e][n].mask) /\ held[n] \in Nat
  <2> TAKE n \in 1 .. N
  <2>1. f[e][n].dev = 0 => f[e][n].mask = {}
    BY VmaTypes
  <2> QED
    BY <1>1, <2>1, FS_EmptySet
<1>3. /\ off(1) = 0 /\ \A n \in 1 .. N : off(n) \in Nat /\ off(n + 1) = off(n) + held[n]
  BY <1>1, <1>2, VmaBodyIs
<1>4. \A k \in 1 .. N : sum(k) = held[k] + sum(k - 1)
  <2> TAKE k \in 1 .. N
  <2>1. IsFiniteSet(1 .. k) /\ k \in 1 .. k /\ \A i \in 1 .. k : held[i] \in Int
    <3>1. k \in Int /\ 1 \in Int /\ k \in 1 .. k
      BY <1>1
    <3>2. IsFiniteSet(1 .. k)
      BY <3>1, FS_Interval
    <3>3. \A i \in 1 .. k : i \in 1 .. N
      BY <1>1
    <3> QED
      BY <1>2, <3>1, <3>2, <3>3
  <2>2. (1 .. k) \ {k} = 1 .. k - 1
    BY <1>1
  <2>3. SumFunctionOnSet(held, 1 .. k) = held[k] + SumFunctionOnSet(held, (1 .. k) \ {k})
    BY <2>1, SumWithout
  <2> QED
    BY <2>2, <2>3
<1>5. sum(0) = 0
  <2>1. 1 .. 0 = {}
    OBVIOUS
  <2> QED
    BY <2>1, SumOverNone
<1> HIDE DEF sum, off
<1> DEFINE bad == {k \in Nat : k \in 0 .. N - 1 /\ sum(k) # off(k + 1)}
<1>6. bad = {}
  <2> SUFFICES ASSUME bad # {} PROVE FALSE
    OBVIOUS
  <2>1. PICK k \in bad : \A j \in bad : k <= j
    BY LeastNatural
  <2>2. k # 0
    BY <1>3, <1>5, <2>1
  <2>3. k \in 1 .. N /\ k - 1 \in 0 .. N - 1 /\ k - 1 \notin bad
    BY <1>1, <2>1, <2>2
  <2>4. sum(k - 1) = off(k)
    <3>1. (k - 1) + 1 = k
      BY <2>3
    <3>2. k - 1 \in Nat
      BY <1>1, <2>3
    <3> QED
      BY <2>3, <3>1, <3>2
  <2>5. sum(k) = held[k] + sum(k - 1) /\ off(k + 1) = off(k) + held[k] /\ off(k) \in Nat
    BY <1>3, <1>4, <2>3
  <2> QED
    BY <1>2, <2>1, <2>3, <2>4, <2>5
<1>7. \A n \in 1 .. N : sum(n - 1) = off(n)
  <2> TAKE n \in 1 .. N
  <2>1. n - 1 \in 0 .. N - 1 /\ n - 1 \in Nat /\ (n - 1) + 1 = n
    BY <1>1
  <2> QED
    BY <1>6, <2>1
<1> QED
  BY <1>7 DEF sum, off

\* Extents are the same in both modules.
LEMMA VmaFiles ==
  ASSUME file \in Files, NEW e \in 1 .. Len(file)
  PROVE  /\ VmaReader!Body(e) = VmaBody(file, e)
         /\ VmaExtractor!Body(e) = VmaBody(file, e)
<1>1. \A n : VmaReader!Stored(e, n) = VmaStored(file, e, n)
  BY VmaFlattened DEF VmaReader!Stored, VmaStored, VmaParts
<1>2. \A n : VmaExtractor!Stored(e, n) = VmaStored(file, e, n)
  BY VmaFlattened DEF VmaExtractor!Stored, VmaStored, VmaParts
<1>3. VmaReader!Body(e) = VmaBody(file, e)
  BY <1>1, VmaFlattened DEF VmaReader!Body, VmaBody, VmaEntries
<1>4. VmaExtractor!Body(e) = VmaBody(file, e)
  BY <1>2, VmaFlattened DEF VmaExtractor!Body, VmaBody, VmaEntries
<1> QED
  BY <1>3, <1>4

\* What is read of an extent that reaches as far.
LEMMA VmaReadIs ==
  ASSUME file \in Files, NEW e \in 1 .. Len(file), NEW p \in Nat, NEW count \in Nat,
         p + count <= Len(VmaBody(file, e))
  PROVE  /\ VmaReader!Read(e, p, count) = [i \in 1 .. count |-> VmaBody(file, e)[p + i]]
         /\ VmaExtractor!Read(e, p, count) = [i \in 1 .. count |-> VmaBody(file, e)[p + i]]
<1> DEFINE s == VmaBody(file, e)
           m == IF p + count < Len(s) THEN p + count ELSE Len(s)
<1>1. s \in Seq(Blocks) /\ Len(s) \in Nat
  BY VmaBodyIs
<1> HIDE DEF s
<1>2. m = p + count
  BY <1>1 DEF s
<1>3. \A i \in p + 1 .. p + count : s[i] \in Blocks
  <2> TAKE i \in p + 1 .. p + count
  <2>1. i \in 1 .. Len(s)
    BY <1>1 DEF s
  <2> QED
    BY <1>1, <2>1, ElementOfSeq
<1>4. /\ SubSeq(s, p + 1, p + count) \in Seq(Blocks)
      /\ Len(SubSeq(s, p + 1, p + count)) =
           IF p + 1 <= p + count THEN p + count - (p + 1) + 1 ELSE 0
      /\ \A i \in 1 .. p + count - (p + 1) + 1 :
           SubSeq(s, p + 1, p + count)[i] = s[p + 1 + i - 1]
  <2>1. p + 1 \in Int /\ p + count \in Int
    OBVIOUS
  <2> QED
    BY <1>3, <2>1, SubSeqProperties
<1>5. /\ DOMAIN SubSeq(s, p + 1, p + count) = 1 .. count
      /\ \A i \in 1 .. count : SubSeq(s, p + 1, p + count)[i] = s[p + i]
  <2>1. Len(SubSeq(s, p + 1, p + count)) = count
    BY <1>4
  <2>2. DOMAIN SubSeq(s, p + 1, p + count) = 1 .. count
    BY <1>4, <2>1, LenProperties
  <2>3. \A i \in 1 .. count : i \in 1 .. p + count - (p + 1) + 1 /\ p + 1 + i - 1 = p + i
    OBVIOUS
  <2> QED
    BY <1>4, <2>2, <2>3
<1>6. SubSeq(s, p + 1, p + count) = [i \in 1 .. count |-> s[p + i]]
  <2>1. SubSeq(s, p + 1, p + count) = [i \in 1 .. count |-> SubSeq(s, p + 1, p + count)[i]]
    BY <1>4, <1>5
  <2> QED
    BY <1>5, <2>1
<1>7. /\ VmaReader!Read(e, p, count) = SubSeq(s, p + 1, m)
      /\ VmaExtractor!Read(e, p, count) = SubSeq(s, p + 1, m)
  BY VmaFiles DEF VmaReader!Read, VmaExtractor!Read, s
<1> QED
  BY <1>2, <1>6, <1>7 DEF s

\* The blocks of a cluster from its first one on: those that are stored and zeros.
VmaBlocks(f, e, n, count) ==
  [i \in 1 .. count |-> IF i - 1 \in f[e][n].mask THEN <<e, n, i - 1>> ELSE <<0, 0, 0>>]

\* Each way a cluster is read gives its blocks.
LEMMA VmaClusterIs ==
  ASSUME file \in Files, NEW e \in 1 .. Len(file), NEW n \in 1 .. Len(file[e]),
         NEW count \in 1 .. ClusterBlocks
  PROVE  /\ file[e][n].mask = 0 .. ClusterBlocks - 1 =>
              /\ VmaReader!Read(e, VmaOffset(file, e, n), count) = VmaBlocks(file, e, n, count)
              /\ VmaExtractor!Read(e, VmaOffset(file, e, n), count) = VmaBlocks(file, e, n, count)
         /\ file[e][n].mask = {} =>
              [i \in 1 .. count |-> <<0, 0, 0>>] = VmaBlocks(file, e, n, count)
         /\ /\ VmaReader!ReadMasked(e, VmaOffset(file, e, n), file[e][n].mask, count) =
                  VmaBlocks(file, e, n, count)
            /\ VmaExtractor!ReadMasked(e, VmaOffset(file, e, n), file[e][n].mask, count) =
                  VmaBlocks(file, e, n, count)
<1> DEFINE N == ClusterBlocks
           mask == file[e][n].mask
           at0 == VmaOffset(file, e, n)
           s == VmaBody(file, e)
           card(k) == Cardinality(Below(mask, k))
<1>1. /\ N \in Nat \ {0} /\ mask \in SUBSET (0 .. N - 1) /\ n \in Int /\ Len(file[e]) \in Nat
  BY VmaTypes
<1>2. /\ Len(s) \in Nat /\ at0 \in Nat /\ Cardinality(mask) \in Nat
      /\ at0 + Cardinality(mask) <= Len(s)
      /\ \A b \in mask : card(b) + 1 \in 1 .. Cardinality(mask) /\ s[at0 + (card(b) + 1)] = <<e, n, b>>
  <2>1. n \in 1 .. Len(file[e]) + 1
    BY <1>1
  <2>2. Cardinality(mask) \in Nat
    BY <1>1, BelowSteps
  <2> QED
    BY <2>1, <2>2, VmaBodyIs
<1>3. \A k \in 0 .. N : card(k) \in Nat
  BY <1>1, BelowSteps
<1> HIDE DEF N, mask, at0, s, card
<1>4. ASSUME mask = 0 .. N - 1
      PROVE  [i \in 1 .. count |-> s[at0 + i]] = VmaBlocks(file, e, n, count)
             /\ at0 + count <= Len(s)
  <2>1. \A b \in 0 .. N - 1 : card(b) = b
    <3> TAKE b \in 0 .. N - 1
    <3>1. \A c \in 0 .. N - 1 : c < b <=> c \in 0 .. b - 1
      BY <1>1
    <3>2. Below(mask, b) = 0 .. b - 1
      BY <1>1, <1>4, <3>1 DEF Below
    <3>3. 0 \in Int /\ b - 1 \in Int /\ (IF 0 <= b - 1 THEN b - 1 - 0 + 1 ELSE 0) = b
      BY <1>1
    <3> QED
      BY <3>2, <3>3, FS_Interval DEF card
  <2>2. Cardinality(mask) = N
    <3>1. 0 \in Int /\ N - 1 \in Int
      BY <1>1
    <3>2. Cardinality(0 .. N - 1) = IF 0 > N - 1 THEN 0 ELSE N - 1 - 0 + 1
      BY <3>1, FS_Interval
    <3>3. Cardinality(0 .. N - 1) = N
      BY <1>1, <3>2
    <3> QED
      BY <1>4, <3>3
  <2>3. count \in 1 .. N
    BY DEF N
  <2>4. \A i \in 1 .. count : s[at0 + i] = <<e, n, i - 1>> /\ i - 1 \in mask
    <3> TAKE i \in 1 .. count
    <3>1. i - 1 \in 0 .. N - 1 /\ (i - 1) + 1 = i
      BY <1>1, <2>3
    <3>2. i - 1 \in mask /\ card(i - 1) + 1 = i
      BY <1>4, <2>1, <3>1
    <3> QED
      BY <1>2, <3>2
  <2>5. at0 + count <= Len(s)
    BY <1>1, <1>2, <2>2, <2>3
  <2> QED
    BY <2>4, <2>5 DEF VmaBlocks, mask
<1>5. ASSUME NEW i \in 1 .. count, i - 1 \in mask
      PROVE  /\ VmaReader!Read(e, at0 + card(i - 1), 1)[1] = <<e, n, i - 1>>
             /\ VmaExtractor!Read(e, at0 + card(i - 1), 1)[1] = <<e, n, i - 1>>
  <2>1. /\ card(i - 1) + 1 \in 1 .. Cardinality(mask)
        /\ s[at0 + (card(i - 1) + 1)] = <<e, n, i - 1>>
    BY <1>2, <1>5
  <2>2. i - 1 \in 0 .. N /\ card(i - 1) \in Nat
    <3>1. i - 1 \in 0 .. N
      BY <1>1, <1>5
    <3> QED
      BY <1>3, <3>1
  <2>3. /\ at0 + card(i - 1) \in Nat /\ at0 + card(i - 1) + 1 <= Len(s)
        /\ at0 + (card(i - 1) + 1) = (at0 + card(i - 1)) + 1
    <3>1. /\ Len(s) \in Nat /\ at0 \in Nat /\ Cardinality(mask) \in Nat
          /\ at0 + Cardinality(mask) <= Len(s)
      BY <1>2
    <3>2. card(i - 1) \in Nat /\ card(i - 1) + 1 <= Cardinality(mask)
      BY <2>1, <2>2, <3>1
    <3> QED
      BY <3>1, <3>2
  <2>4. /\ VmaReader!Read(e, at0 + card(i - 1), 1) = [j \in 1 .. 1 |-> s[(at0 + card(i - 1)) + j]]
        /\ VmaExtractor!Read(e, at0 + card(i - 1), 1) = [j \in 1 .. 1 |-> s[(at0 + card(i - 1)) + j]]
    BY <2>3, VmaReadIs DEF s
  <2> QED
    BY <2>1, <2>3, <2>4
<1>6. ASSUME mask = 0 .. N - 1
      PROVE  /\ VmaReader!Read(e, at0, count) = VmaBlocks(file, e, n, count)
             /\ VmaExtractor!Read(e, at0, count) = VmaBlocks(file, e, n, count)
  <2>1. count \in Nat /\ at0 + count <= Len(VmaBody(file, e)) /\ at0 \in Nat
    BY <1>1, <1>2, <1>4, <1>6 DEF s, N
  <2> QED
    BY <1>4, <1>6, <2>1, VmaReadIs DEF s
<1>7. ASSUME mask = {}
      PROVE  [i \in 1 .. count |-> <<0, 0, 0>>] = VmaBlocks(file, e, n, count)
  BY <1>7 DEF VmaBlocks, mask
<1>8. VmaReader!ReadMasked(e, at0, mask, count) = VmaBlocks(file, e, n, count)
  <2>1. \A k : Below(mask, k) = {b \in mask : b < k}
    BY DEF Below
  <2>2. VmaReader!ReadMasked(e, at0, mask, count) =
          [i \in 1 .. count |-> IF i - 1 \in mask THEN VmaReader!Read(e, at0 + card(i - 1), 1)[1]
                                               ELSE <<0, 0, 0>>]
    BY <2>1, VmaCounted DEF VmaReader!ReadMasked, VmaReader!Zero, card
  <2> QED
    BY <1>5, <2>2 DEF VmaBlocks, mask
<1>9. VmaExtractor!ReadMasked(e, at0, mask, count) = VmaBlocks(file, e, n, count)
  <2>1. \A k : Below(mask, k) = {b \in mask : b < k}
    BY DEF Below
  <2>2. VmaExtractor!ReadMasked(e, at0, mask, count) =
          [i \in 1 .. count |-> IF i - 1 \in mask THEN VmaExtractor!Read(e, at0 + card(i - 1), 1)[1]
                                               ELSE <<0, 0, 0>>]
    BY <2>1, VmaCounted DEF VmaExtractor!ReadMasked, VmaExtractor!Zero, card
  <2> QED
    BY <1>5, <2>2 DEF VmaBlocks, mask
<1> QED
  BY <1>6, <1>7, <1>8, <1>9 DEF mask, N, at0

\* The entries of a file by their places.
VmaPlace(f, x) == x = <<x[1], x[2]>> /\ x[1] \in 1 .. Len(f) /\ x[2] \in 1 .. Len(f[x[1]])

\* What the operators of both modules are, of an entry of the file.
LEMMA VmaEntryIs ==
  ASSUME file \in Files, NEW x
  PROVE  /\ x \in VmaReader!Entries <=> VmaPlace(file, x)
         /\ x \in VmaExtractor!Entries <=> VmaPlace(file, x)
         /\ VmaReader!Entry(x) = file[x[1]][x[2]]
         /\ VmaExtractor!Entry(x) = file[x[1]][x[2]]
<1>1. /\ DOMAIN file = 1 .. Len(file)
      /\ \A e \in 1 .. Len(file) : DOMAIN file[e] = 1 .. Len(file[e])
  BY VmaTypes
<1>2. \A y : y \in UNION {{e} \X DOMAIN file[e] : e \in DOMAIN file} <=> VmaPlace(file, y)
  <2> TAKE y
  <2>1. ASSUME NEW e \in DOMAIN file, y \in {e} \X DOMAIN file[e]
        PROVE  VmaPlace(file, y)
    BY <1>1, <2>1 DEF VmaPlace
  <2>2. ASSUME VmaPlace(file, y)
        PROVE  y[1] \in DOMAIN file /\ y \in {y[1]} \X DOMAIN file[y[1]]
    <3>1. y = <<y[1], y[2]>> /\ y[1] \in DOMAIN file /\ y[2] \in DOMAIN file[y[1]]
      BY <1>1, <2>2 DEF VmaPlace
    <3>2. <<y[1], y[2]>> \in {y[1]} \X DOMAIN file[y[1]]
      BY <3>1
    <3> QED
      BY <3>1, <3>2
  <2> QED
    BY <2>1, <2>2
<1> QED
  BY <1>2 DEF VmaReader!Entries, VmaExtractor!Entries, VmaReader!Entry, VmaExtractor!Entry

\* A cluster of a device is held by one entry.
LEMMA VmaHolderIs ==
  ASSUME file \in Files, NEW x, VmaPlace(file, x), file[x[1]][x[2]].dev # 0
  PROVE  /\ \A y : /\ VmaPlace(file, y)
                   /\ file[y[1]][y[2]].dev = file[x[1]][x[2]].dev
                   /\ file[y[1]][y[2]].cluster = file[x[1]][x[2]].cluster
                   => y = x
         /\ VmaReader!Holder(file[x[1]][x[2]].dev, file[x[1]][x[2]].cluster) = x
         /\ VmaExtractor!Holder(file[x[1]][x[2]].dev, file[x[1]][x[2]].cluster) = x
<1> DEFINE Same(y) == /\ VmaPlace(file, y)
                      /\ file[y[1]][y[2]].dev = file[x[1]][x[2]].dev
                      /\ file[y[1]][y[2]].cluster = file[x[1]][x[2]].cluster
<1>1. ASSUME NEW y, Same(y) PROVE y = x
  <2>1. /\ x[1] \in 1 .. Len(file) /\ x[2] \in 1 .. Len(file[x[1]]) /\ x = <<x[1], x[2]>>
        /\ y[1] \in 1 .. Len(file) /\ y[2] \in 1 .. Len(file[y[1]]) /\ y = <<y[1], y[2]>>
    BY <1>1 DEF VmaPlace
  <2>2. y[1] = x[1] /\ y[2] = x[2]
    <3>1. \A e \in 1 .. Len(file) : \A n \in 1 .. Len(file[e]) :
            file[e][n].dev # 0 =>
              \A d \in 1 .. Len(file) : \A m \in 1 .. Len(file[d]) :
                file[d][m].dev = file[e][n].dev /\ file[d][m].cluster = file[e][n].cluster
                  => d = e /\ m = n
      BY VmaAssumption
    <3>2. /\ x[1] \in 1 .. Len(file) /\ x[2] \in 1 .. Len(file[x[1]])
          /\ y[1] \in 1 .. Len(file) /\ y[2] \in 1 .. Len(file[y[1]])
          /\ file[y[1]][y[2]].dev = file[x[1]][x[2]].dev
          /\ file[y[1]][y[2]].cluster = file[x[1]][x[2]].cluster
      BY <1>1, <2>1
    <3>3. \A d \in 1 .. Len(file) : \A m \in 1 .. Len(file[d]) :
            /\ file[d][m].dev = file[x[1]][x[2]].dev
            /\ file[d][m].cluster = file[x[1]][x[2]].cluster
            => d = x[1] /\ m = x[2]
      BY <3>1, <3>2, ZenonT(60)
    <3> QED
      BY <3>2, <3>3
  <2> QED
    BY <2>1, <2>2
<1>2. VmaReader!Holder(file[x[1]][x[2]].dev, file[x[1]][x[2]].cluster) =
        CHOOSE y \in VmaReader!Entries : /\ VmaReader!Entry(y).dev = file[x[1]][x[2]].dev
                                        /\ VmaReader!Entry(y).cluster = file[x[1]][x[2]].cluster
  BY DEF VmaReader!Holder
<1>3. VmaExtractor!Holder(file[x[1]][x[2]].dev, file[x[1]][x[2]].cluster) =
        CHOOSE y \in VmaExtractor!Entries : /\ VmaExtractor!Entry(y).dev = file[x[1]][x[2]].dev
                                           /\ VmaExtractor!Entry(y).cluster = file[x[1]][x[2]].cluster
  BY DEF VmaExtractor!Holder
<1>4. \A y \in VmaReader!Entries : /\ VmaReader!Entry(y).dev = file[x[1]][x[2]].dev
                                   /\ VmaReader!Entry(y).cluster = file[x[1]][x[2]].cluster
                                   <=> y = x
  BY <1>1, VmaEntryIs
<1>5. \A y \in VmaExtractor!Entries : /\ VmaExtractor!Entry(y).dev = file[x[1]][x[2]].dev
                                      /\ VmaExtractor!Entry(y).cluster = file[x[1]][x[2]].cluster
                                      <=> y = x
  BY <1>1, VmaEntryIs
<1>6. x \in VmaReader!Entries /\ x \in VmaExtractor!Entries
  BY VmaEntryIs
<1> QED
  BY <1>1, <1>2, <1>3, <1>4, <1>5, <1>6

\* The handle is taken to where the blocks of an entry start.
LEMMA VmaBlockOffsetIs ==
  ASSUME file \in Files, NEW x, VmaPlace(file, x)
  PROVE  VmaReader!BlockOffset(x) = VmaOffset(file, x[1], x[2])
<1> DEFINE held == [n \in DOMAIN file[x[1]] |->
                      IF file[x[1]][n].dev = 0 THEN 0 ELSE Cardinality(file[x[1]][n].mask)]
<1>1. /\ x[1] \in 1 .. Len(file) /\ x[2] \in 1 .. Len(file[x[1]])
      /\ DOMAIN file[x[1]] = 1 .. Len(file[x[1]])
  BY VmaTypes DEF VmaPlace
<1>2. \A n : VmaReader!Entry(<<x[1], n>>) = file[x[1]][n]
  BY DEF VmaReader!Entry
<1>3. VmaReader!BlockOffset(x) = VmaReader!SumFunctionOnSet(held, 1 .. x[2] - 1)
  BY <1>2, VmaCounted DEF VmaReader!BlockOffset
<1>4. \A n \in 1 .. Len(file[x[1]]) :
        held[n] = IF file[x[1]][n].dev = 0 THEN 0 ELSE Cardinality(file[x[1]][n].mask)
  BY <1>1
<1> HIDE DEF held
<1>5. VmaReader!SumFunctionOnSet(held, 1 .. x[2] - 1) = SumFunctionOnSet(held, 1 .. x[2] - 1)
  BY VmaSums
<1>6. SumFunctionOnSet(held, 1 .. x[2] - 1) = VmaOffset(file, x[1], x[2])
  BY <1>1, <1>4, VmaSumOfHeld
<1> QED
  BY <1>3, <1>5, <1>6

\* The blocks of the first cluster of those looked at.
LEMMA VmaFirstCluster ==
  ASSUME file \in Files, NEW x, VmaPlace(file, x), file[x[1]][x[2]].dev # 0
  PROVE  VmaExtractor!DeviceBlocks(file[x[1]][x[2]].dev, file[x[1]][x[2]].cluster, ClusterBlocks) =
           VmaBlocks(file, x[1], x[2], ClusterBlocks)
<1> DEFINE N == ClusterBlocks
           y == file[x[1]][x[2]]
<1>1. N \in Nat \ {0} /\ y.cluster \in Nat
  BY VmaTypes DEF VmaPlace
<1>2. ASSUME NEW i \in 1 .. N
      PROVE  (i - 1) \div N = 0 /\ (i - 1) % N = i - 1
  BY <1>1
<1>3. VmaExtractor!Holder(y.dev, y.cluster) = x /\ VmaExtractor!Entry(x) = y
  BY VmaHolderIs, VmaEntryIs
<1> HIDE DEF N, y
<1>4. \A i \in 1 .. N : VmaExtractor!Holder(y.dev, y.cluster + (i - 1) \div N) = x
  BY <1>1, <1>2, <1>3
<1>5. VmaExtractor!DeviceBlocks(y.dev, y.cluster, N) =
        [i \in 1 .. N |-> IF i - 1 \in y.mask THEN <<x[1], x[2], i - 1>> ELSE <<0, 0, 0>>]
  BY <1>2, <1>3, <1>4 DEF VmaExtractor!DeviceBlocks, VmaExtractor!Zero, N
<1> QED
  BY <1>5 DEF VmaBlocks, N, y

\* A place the file is looked at: an entry, the head of an extent, or the end.
VmaAt(f, p) ==
  /\ p = <<p[1], p[2]>> /\ p[1] \in 1 .. Len(f) + 1 /\ p[2] \in Nat
  /\ p[1] <= Len(f) => p[2] <= Len(f[p[1]])
  /\ p[1] > Len(f) => p[2] = 0

Before(x, p) == x[1] < p[1] \/ (x[1] = p[1] /\ x[2] < p[2])

VmaNextPlace(f, p) == IF p[2] < Len(f[p[1]]) THEN <<p[1], p[2] + 1>> ELSE <<p[1] + 1, 0>>

\* Every entry is met once on the way through the file.
LEMMA VmaNextPlaceIs ==
  ASSUME NEW f \in Files, NEW p, VmaAt(f, p), p[1] <= Len(f)
  PROVE  /\ VmaAt(f, VmaNextPlace(f, p))
         /\ \A x : VmaPlace(f, x) => (Before(x, VmaNextPlace(f, p)) <=> Before(x, p) \/ x = p)
         /\ p[2] > 0 => VmaPlace(f, p)
         /\ VmaNextPlace(f, p)[1] <= Len(f) /\ VmaNextPlace(f, p)[2] > 0 =>
              VmaNextPlace(f, p)[1] = p[1] /\ VmaNextPlace(f, p)[2] = p[2] + 1
<1>1. /\ Len(f) \in Nat /\ p[1] \in 1 .. Len(f) /\ Len(f[p[1]]) \in Nat
      /\ p[2] \in 0 .. Len(f[p[1]]) /\ p = <<p[1], p[2]>>
  <2>1. /\ Len(f) \in Nat /\ p[1] \in 1 .. Len(f) /\ p[2] \in Nat /\ p[2] <= Len(f[p[1]])
        /\ p = <<p[1], p[2]>>
    BY VmaTypes DEF VmaAt
  <2> QED
    BY <2>1, VmaTypes
<1>2. VmaAt(f, VmaNextPlace(f, p))
  <2>1. CASE p[2] < Len(f[p[1]])
    BY <1>1, <2>1 DEF VmaAt, VmaNextPlace
  <2>2. CASE ~(p[2] < Len(f[p[1]]))
    <3>1. VmaNextPlace(f, p) = <<p[1] + 1, 0>>
      BY <2>2 DEF VmaNextPlace
    <3>2. p[1] + 1 \in 1 .. Len(f) + 1
      BY <1>1
    <3>3. p[1] + 1 <= Len(f) => Len(f[p[1] + 1]) \in Nat
      BY <1>1, <3>2, VmaTypes
    <3> QED
      BY <1>1, <3>1, <3>2, <3>3 DEF VmaAt
  <2> QED
    BY <2>1, <2>2
<1>3. ASSUME NEW x, VmaPlace(f, x)
      PROVE  Before(x, VmaNextPlace(f, p)) <=> Before(x, p) \/ x = p
  <2>1. /\ x[1] \in Nat /\ x[2] \in Nat \ {0} /\ x = <<x[1], x[2]>>
        /\ x[1] = p[1] => x[2] <= Len(f[p[1]])
    BY <1>1, <1>3, VmaTypes DEF VmaPlace
  <2>2. x = p <=> x[1] = p[1] /\ x[2] = p[2]
    BY <1>1, <2>1
  <2>3. CASE p[2] < Len(f[p[1]])
    <3>1. VmaNextPlace(f, p)[1] = p[1] /\ VmaNextPlace(f, p)[2] = p[2] + 1
      BY <2>3 DEF VmaNextPlace
    <3>2. /\ x[1] \in Nat /\ x[2] \in Nat /\ p[1] \in Nat /\ p[2] \in Nat
      BY <1>1, <2>1
    <3> QED
      BY <2>2, <3>1, <3>2 DEF Before
  <2>4. CASE ~(p[2] < Len(f[p[1]]))
    <3>1. /\ VmaNextPlace(f, p)[1] = p[1] + 1 /\ VmaNextPlace(f, p)[2] = 0
          /\ p[2] = Len(f[p[1]])
      BY <1>1, <2>4 DEF VmaNextPlace
    <3>2. /\ x[1] \in Nat /\ x[2] \in Nat /\ p[1] \in Nat /\ p[2] \in Nat
          /\ x[1] = p[1] => x[2] <= p[2]
      BY <1>1, <2>1, <3>1
    <3> QED
      BY <2>2, <3>1, <3>2 DEF Before
  <2> QED
    BY <2>3, <2>4
<1>4. p[2] > 0 => VmaPlace(f, p)
  BY <1>1 DEF VmaPlace
<1> QED
  BY <1>1, <1>2, <1>3, <1>4 DEF VmaNextPlace

\* What was written is the blocks of entries, and all entries on the way were written.  The
\* handle is where the blocks of the next entry start.
VmaExtractInv ==
  /\ file \in Files
  /\ VmaAt(file, place)
  /\ at \in Nat
  /\ place[1] <= Len(file) /\ place[2] > 0 => at = VmaOffset(file, place[1], place[2])
  /\ DOMAIN written = Devices
  /\ \A d \in Devices : \A c \in DOMAIN written[d] : \E x :
       /\ VmaPlace(file, x)
       /\ file[x[1]][x[2]].dev = d
       /\ file[x[1]][x[2]].cluster = c
       /\ written[d][c] = VmaBlocks(file, x[1], x[2], ClusterBlocks)
  /\ \A x : VmaPlace(file, x) /\ Before(x, place) /\ file[x[1]][x[2]].dev # 0 =>
       /\ file[x[1]][x[2]].dev \in Devices
       /\ file[x[1]][x[2]].cluster \in DOMAIN written[file[x[1]][x[2]].dev]
  /\ pc = "done" => place[1] > Len(file)

\* Nothing has been written at first.
LEMMA VmaExtractInit ==
  ASSUME VmaExtractor!Init
  PROVE  VmaExtractInv
<1>1. /\ file \in Files /\ place = <<1, 0>> /\ at = 0 /\ pc = "extracting"
      /\ written = [d \in Devices |-> [c \in {} |-> <<>>]]
  BY DEF VmaExtractor!Init
<1>2. Len(file) \in Nat /\ \A e \in 1 .. Len(file) : Len(file[e]) \in Nat
  BY <1>1, VmaTypes
<1>3. VmaAt(file, place)
  BY <1>1, <1>2 DEF VmaAt
<1>4. \A x : VmaPlace(file, x) => ~Before(x, place)
  BY <1>1, <1>2 DEF VmaPlace, Before
<1> QED
  BY <1>1, <1>3, <1>4 DEF VmaExtractInv

\* The handle moves on over what an entry holds.
LEMMA VmaHandle ==
  ASSUME VmaExtractInv, place[1] <= Len(file), place[2] > 0
  PROVE  /\ at + Cardinality(file[place[1]][place[2]].mask) \in Nat
         /\ VmaNextPlace(file, place)[1] <= Len(file) /\ VmaNextPlace(file, place)[2] > 0 =>
              at + Cardinality(file[place[1]][place[2]].mask) =
                VmaOffset(file, VmaNextPlace(file, place)[1], VmaNextPlace(file, place)[2])
<1>1. VmaPlace(file, place) /\ at = VmaOffset(file, place[1], place[2]) /\ at \in Nat
  BY VmaNextPlaceIs DEF VmaExtractInv
<1>2. /\ place[1] \in 1 .. Len(file) /\ place[2] \in 1 .. Len(file[place[1]])
      /\ file \in Files
  BY <1>1 DEF VmaPlace, VmaExtractInv
<1>3. Cardinality(file[place[1]][place[2]].mask) \in Nat
  BY <1>2, VmaTypes, BelowSteps
<1>4. VmaOffset(file, place[1], place[2] + 1) =
        VmaOffset(file, place[1], place[2]) + Cardinality(file[place[1]][place[2]].mask)
  BY <1>2, VmaBodyIs
<1>5. VmaNextPlace(file, place)[1] <= Len(file) /\ VmaNextPlace(file, place)[2] > 0 =>
        VmaNextPlace(file, place)[1] = place[1] /\ VmaNextPlace(file, place)[2] = place[2] + 1
  BY VmaNextPlaceIs DEF VmaExtractInv
<1> QED
  BY <1>1, <1>3, <1>4, <1>5

\* A cluster is written as it is stored.
LEMMA VmaClusterRead ==
  ASSUME VmaExtractInv, place[1] <= Len(file), place[2] > 0
  PROVE  VmaExtractor!ClusterRead = VmaBlocks(file, place[1], place[2], ClusterBlocks)
<1>1. VmaPlace(file, place) /\ at = VmaOffset(file, place[1], place[2])
  BY VmaNextPlaceIs DEF VmaExtractInv
<1>2. /\ place[1] \in 1 .. Len(file) /\ place[2] \in 1 .. Len(file[place[1]])
      /\ file \in Files
  BY <1>1 DEF VmaPlace, VmaExtractInv
<1>3. ClusterBlocks \in 1 .. ClusterBlocks
  BY VmaTypes, <1>2
<1> DEFINE e == place[1]
           n == place[2]
<1>4. /\ file[e][n].mask = 0 .. ClusterBlocks - 1 =>
           VmaExtractor!Read(e, at, ClusterBlocks) = VmaBlocks(file, e, n, ClusterBlocks)
      /\ file[e][n].mask = {} =>
           [i \in 1 .. ClusterBlocks |-> <<0, 0, 0>>] = VmaBlocks(file, e, n, ClusterBlocks)
      /\ VmaExtractor!ReadMasked(e, at, file[e][n].mask, ClusterBlocks) =
           VmaBlocks(file, e, n, ClusterBlocks)
  BY <1>1, <1>2, <1>3, VmaClusterIs
<1>5. VmaExtractor!ClusterRead =
        IF file[e][n].mask = 0 .. ClusterBlocks - 1 THEN VmaExtractor!Read(e, at, ClusterBlocks)
        ELSE IF file[e][n].mask = {} THEN [i \in 1 .. ClusterBlocks |-> <<0, 0, 0>>]
        ELSE VmaExtractor!ReadMasked(e, at, file[e][n].mask, ClusterBlocks)
  BY DEF VmaExtractor!ClusterRead, VmaExtractor!FullMask, VmaExtractor!Zero, VmaExtractor!Entry
<1> QED
  BY <1>4, <1>5

\* The entries before the next place are written once this one is, or is of no device.
LEMMA VmaExtractMoves ==
  ASSUME VmaExtractInv, place[1] <= Len(file), file' = file, place' = VmaNextPlace(file, place),
         at' \in Nat,
         place'[1] <= Len(file) /\ place'[2] > 0 => at' = VmaOffset(file, place'[1], place'[2]),
         pc' = "extracting", DOMAIN written' = Devices,
         \A d \in Devices : /\ DOMAIN written[d] \subseteq DOMAIN written'[d]
                            /\ \A c \in DOMAIN written'[d] : \E x :
                                 /\ VmaPlace(file, x)
                                 /\ file[x[1]][x[2]].dev = d
                                 /\ file[x[1]][x[2]].cluster = c
                                 /\ written'[d][c] = VmaBlocks(file, x[1], x[2], ClusterBlocks),
         place[2] > 0 /\ file[place[1]][place[2]].dev # 0 =>
           /\ file[place[1]][place[2]].dev \in Devices
           /\ file[place[1]][place[2]].cluster \in DOMAIN written'[file[place[1]][place[2]].dev]
  PROVE  VmaExtractInv'
<1>1. file \in Files /\ VmaAt(file, place)
  BY DEF VmaExtractInv
<1>2. VmaAt(file, place')
  BY <1>1, VmaNextPlaceIs
<1>3. ASSUME NEW x, VmaPlace(file, x), Before(x, place'), file[x[1]][x[2]].dev # 0
      PROVE  /\ file[x[1]][x[2]].dev \in Devices
             /\ file[x[1]][x[2]].cluster \in DOMAIN written'[file[x[1]][x[2]].dev]
  <2>1. Before(x, place) \/ x = place
    BY <1>1, <1>3, VmaNextPlaceIs
  <2>2. CASE Before(x, place)
    <3>1. /\ file[x[1]][x[2]].dev \in Devices
          /\ file[x[1]][x[2]].cluster \in DOMAIN written[file[x[1]][x[2]].dev]
      BY <1>3, <2>2 DEF VmaExtractInv
    <3> QED
      BY <3>1
  <2>3. CASE x = place
    <3>1. place[2] > 0
      BY <1>1, <1>3, <2>3, VmaTypes DEF VmaPlace
    <3> QED
      BY <1>3, <2>3, <3>1
  <2> QED
    BY <2>1, <2>2, <2>3
<1> QED
  BY <1>1, <1>2, <1>3 DEF VmaExtractInv

\* Every step of the tool keeps the invariant.
LEMMA VmaExtractStep ==
  ASSUME VmaExtractInv, [VmaExtractor!Next]_(VmaExtractor!vars)
  PROVE  VmaExtractInv'
<1>1. /\ file \in Files /\ VmaAt(file, place) /\ DOMAIN written = Devices
      /\ \A d \in Devices : \A c \in DOMAIN written[d] : \E x :
           /\ VmaPlace(file, x)
           /\ file[x[1]][x[2]].dev = d
           /\ file[x[1]][x[2]].cluster = c
           /\ written[d][c] = VmaBlocks(file, x[1], x[2], ClusterBlocks)
  BY DEF VmaExtractInv
<1>2. /\ VmaExtractor!Following(place) = VmaNextPlace(file, place)
      /\ VmaExtractor!Entry(place) = file[place[1]][place[2]]
  BY DEF VmaExtractor!Following, VmaNextPlace, VmaExtractor!Entry
<1>3. CASE VmaExtractor!EnterExtent
  <2>1. /\ place[1] <= Len(file) /\ place[2] = 0 /\ at' = 0 /\ pc' = "extracting"
        /\ place' = VmaNextPlace(file, place) /\ file' = file /\ written' = written
    BY <1>2, <1>3 DEF VmaExtractor!EnterExtent, VmaExtractor!Extracting
  <2>2. ASSUME place'[1] <= Len(file), place'[2] > 0
        PROVE  at' = VmaOffset(file, place'[1], place'[2])
    <3>1. place'[1] = place[1] /\ place'[2] = 1 /\ place[1] \in 1 .. Len(file)
      BY <1>1, <2>1, <2>2, VmaNextPlaceIs, VmaTypes DEF VmaAt
    <3>2. VmaOffset(file, place[1], 1) = 0
      BY <1>1, <3>1, VmaBodyIs
    <3> QED
      BY <2>1, <3>1, <3>2
  <2> QED
    BY <1>1, <2>1, <2>2, VmaExtractMoves
<1>4. CASE VmaExtractor!Unused
  <2>1. /\ place[1] <= Len(file) /\ place[2] > 0 /\ at' = at /\ pc' = "extracting"
        /\ place' = VmaNextPlace(file, place) /\ file' = file /\ written' = written
        /\ file[place[1]][place[2]].dev = 0
    BY <1>2, <1>4 DEF VmaExtractor!Unused, VmaExtractor!Extracting
  <2>2. VmaPlace(file, place)
    BY <1>1, <2>1, VmaNextPlaceIs
  <2>3. Cardinality(file[place[1]][place[2]].mask) = 0 /\ at \in Nat
    <3>1. file[place[1]][place[2]].mask = {}
      BY <1>1, <2>1, <2>2, VmaTypes DEF VmaPlace
    <3> QED
      BY <3>1, FS_EmptySet DEF VmaExtractInv
  <2>4. place'[1] <= Len(file) /\ place'[2] > 0 => at' = VmaOffset(file, place'[1], place'[2])
    BY <2>1, <2>3, VmaHandle
  <2> QED
    BY <1>1, <2>1, <2>3, <2>4, VmaExtractMoves
<1>5. CASE VmaExtractor!UnknownDevice
  <2>1. /\ UNCHANGED <<file, place, at, written>> /\ pc' = "failed"
    BY <1>5, SMTT(30) DEF VmaExtractor!UnknownDevice
  <2> QED
    BY <2>1 DEF VmaExtractInv
<1>6. CASE VmaExtractor!WriteCluster
  <2> DEFINE y == file[place[1]][place[2]]
  <2>1. /\ place[1] <= Len(file) /\ place[2] > 0 /\ pc' = "extracting"
        /\ place' = VmaNextPlace(file, place) /\ file' = file
        /\ y.dev \in Devices /\ at' = at + Cardinality(y.mask)
        /\ written' = [written EXCEPT ![y.dev] =
                         [c \in DOMAIN @ \cup {y.cluster} |->
                            IF c = y.cluster THEN VmaExtractor!ClusterRead ELSE @[c]]]
    BY <1>2, <1>6, VmaCounted, ZenonT(60)
    DEF VmaExtractor!WriteCluster, VmaExtractor!Extracting, VmaExtractor!Target
  <2>2. VmaPlace(file, place)
    BY <1>1, <2>1, VmaNextPlaceIs, ZenonT(60)
  <2>3. /\ at' \in Nat
        /\ place'[1] <= Len(file) /\ place'[2] > 0 => at' = VmaOffset(file, place'[1], place'[2])
    BY <2>1, VmaHandle, ZenonT(60)
  <2>4. VmaExtractor!ClusterRead = VmaBlocks(file, place[1], place[2], ClusterBlocks)
    BY <2>1, VmaClusterRead
  <2> HIDE DEF y
  <2>5. /\ DOMAIN written' = Devices
        /\ \A d \in Devices \ {y.dev} : written'[d] = written[d]
        /\ DOMAIN written'[y.dev] = DOMAIN written[y.dev] \cup {y.cluster}
        /\ \A c \in DOMAIN written'[y.dev] : written'[y.dev][c] =
             IF c = y.cluster THEN VmaExtractor!ClusterRead ELSE written[y.dev][c]
    BY <1>1, <2>1
  <2>6. ASSUME NEW d \in Devices
        PROVE  /\ DOMAIN written[d] \subseteq DOMAIN written'[d]
               /\ \A c \in DOMAIN written'[d] : \E x :
                    /\ VmaPlace(file, x)
                    /\ file[x[1]][x[2]].dev = d
                    /\ file[x[1]][x[2]].cluster = c
                    /\ written'[d][c] = VmaBlocks(file, x[1], x[2], ClusterBlocks)
    <3>1. CASE d # y.dev
      <4>1. written'[d] = written[d]
        BY <2>5, <3>1
      <4> QED
        BY <1>1, <4>1
    <3>2. CASE d = y.dev
      <4>1. DOMAIN written[d] \subseteq DOMAIN written'[d]
        BY <2>5, <3>2
      <4>2. ASSUME NEW c \in DOMAIN written'[d]
            PROVE  \E x : /\ VmaPlace(file, x)
                          /\ file[x[1]][x[2]].dev = d
                          /\ file[x[1]][x[2]].cluster = c
                          /\ written'[d][c] = VmaBlocks(file, x[1], x[2], ClusterBlocks)
        <5>1. CASE c = y.cluster
          <6>1. written'[d][c] = VmaBlocks(file, place[1], place[2], ClusterBlocks)
            BY <2>4, <2>5, <3>2, <4>2, <5>1
          <6> QED
            BY <2>2, <3>2, <5>1, <6>1 DEF y
        <5>2. CASE c # y.cluster
          <6>1. c \in DOMAIN written[d] /\ written'[d][c] = written[d][c]
            BY <2>5, <3>2, <4>2, <5>2
          <6> QED
            BY <1>1, <6>1
        <5> QED
          BY <5>1, <5>2, SMTT(30)
      <4> QED
        BY <4>1, <4>2
    <3> QED
      BY <3>1, <3>2
  <2>7. y.dev \in Devices /\ y.cluster \in DOMAIN written'[y.dev]
    BY <2>1, <2>5
  <2> QED
    BY <2>1, <2>3, <2>5, <2>6, <2>7, VmaExtractMoves, ZenonT(60) DEF y
<1>7. CASE VmaExtractor!Finish
  <2>1. UNCHANGED <<file, place, at, written>> /\ place[1] > Len(file)
    BY <1>7 DEF VmaExtractor!Finish
  <2> QED
    BY <2>1 DEF VmaExtractInv
<1>8. CASE UNCHANGED VmaExtractor!vars
  BY <1>8 DEF VmaExtractor!vars, VmaExtractInv
<1> QED
  BY <1>3, <1>4, <1>5, <1>6, <1>7, <1>8 DEF VmaExtractor!Next, VmaExtractor!Ended

\* The invariant says what the files of the devices are to hold.
LEMMA VmaExtractFinal ==
  ASSUME VmaExtractInv
  PROVE  VmaExtractor!ExtractsDevices
<1>1. file \in Files /\ VmaAt(file, place)
  BY DEF VmaExtractInv
<1>2. ASSUME NEW d \in Devices, NEW c \in DOMAIN written[d]
      PROVE  written[d][c] = VmaExtractor!DeviceBlocks(d, c, ClusterBlocks)
  <2>1. PICK x : /\ VmaPlace(file, x)
                 /\ file[x[1]][x[2]].dev = d
                 /\ file[x[1]][x[2]].cluster = c
                 /\ written[d][c] = VmaBlocks(file, x[1], x[2], ClusterBlocks)
    BY DEF VmaExtractInv
  <2>2. d # 0
    BY VmaAssumption
  <2> QED
    BY <1>1, <2>1, <2>2, VmaFirstCluster
<1>3. ASSUME pc = "done", NEW x \in VmaExtractor!Entries, VmaExtractor!Entry(x).dev # 0
      PROVE  VmaExtractor!Entry(x).cluster \in DOMAIN written[VmaExtractor!Entry(x).dev]
  <2>1. VmaPlace(file, x) /\ VmaExtractor!Entry(x) = file[x[1]][x[2]]
    BY <1>1, VmaEntryIs
  <2>2. Before(x, place)
    <3>1. x[1] \in Nat /\ x[1] <= Len(file) /\ Len(file) \in Nat /\ place[1] \in Nat
      BY <1>1, <2>1, VmaTypes DEF VmaPlace, VmaAt
    <3>2. place[1] > Len(file)
      BY <1>3 DEF VmaExtractInv
    <3> QED
      BY <3>1, <3>2 DEF Before
  <2> QED
    BY <1>3, <2>1, <2>2 DEF VmaExtractInv
<1> QED
  BY <1>2, <1>3 DEF VmaExtractor!ExtractsDevices

\* Block i of what a request asks for.
VmaBlockAt(i) ==
  LET x == VmaReader!Holder(request.dev, request.cluster + (i - 1) \div ClusterBlocks)
      b == (i - 1) % ClusterBlocks
  IN  IF b \in file[x[1]][x[2]].mask THEN <<x[1], x[2], b>> ELSE <<0, 0, 0>>

\* An entry of the device that is read.
VmaOfDevice(x) == VmaPlace(file, x) /\ file[x[1]][x[2]].dev = request.dev

\* What is read so far ends with a whole cluster until all of it is read.  Every cluster still
\* to come that was passed on the way through the file is kept.
VmaReadInv ==
  /\ file \in Files /\ request \in VmaRequests
  /\ VmaAt(file, place)
  /\ cluster \in Nat /\ cluster >= request.cluster
  /\ pc \in {"scan", "temp", "rest", "done"}
  /\ result \in Seq(Blocks)
  /\ block_count \in Nat /\ block_count = request.blocks - Len(result)
  /\ block_count > 0 => Len(result) = (cluster - request.cluster) * ClusterBlocks
  /\ \A i \in 1 .. Len(result) : result[i] = VmaBlockAt(i)
  /\ \A c \in DOMAIN temp : VmaOfDevice(temp[c]) /\ file[temp[c][1]][temp[c][2]].cluster = c
  /\ pc # "done" => block_count > 0
  /\ pc = "rest" => place[1] > Len(file)
  /\ pc = "temp" => VmaOfDevice(place) /\ file[place[1]][place[2]].cluster < cluster
  /\ block_count > 0 =>
       \A x : /\ VmaOfDevice(x) /\ Before(x, place)
              /\ cluster <= file[x[1]][x[2]].cluster /\ file[x[1]][x[2]].cluster <= VmaReader!end
              => file[x[1]][x[2]].cluster \in DOMAIN temp
  /\ pc = "done" /\ block_count > 0 => place[1] > Len(file) /\ cluster \notin DOMAIN temp

\* The types of a request.
LEMMA VmaRequestIs ==
  ASSUME request \in VmaRequests
  PROVE  /\ ClusterBlocks \in Nat \ {0}
         /\ request.dev \in Nat \ {0} /\ request.cluster \in Nat /\ request.blocks \in Nat \ {0}
         /\ VmaReader!end \in Nat
<1>1. /\ ClusterBlocks \in Nat \ {0}
      /\ request.dev \in Nat \ {0} /\ request.cluster \in Nat /\ request.blocks \in Nat \ {0}
  BY VmaAssumption
<1>2. (request.blocks + ClusterBlocks - 1) \div ClusterBlocks \in Nat
  BY <1>1, RoundedUp
<1> QED
  BY <1>1, <1>2 DEF VmaReader!end, VmaReader!ClusterCount

\* While blocks are to be read, the cluster that is next is one of those asked for.
LEMMA VmaNotAtEnd ==
  ASSUME VmaReadInv, block_count > 0
  PROVE  cluster < VmaReader!end
<1> DEFINE N == ClusterBlocks
           n == (request.blocks + N - 1) \div N
           k == cluster - request.cluster
<1>1. /\ N \in Nat \ {0} /\ request.blocks \in Nat \ {0} /\ request.cluster \in Nat
      /\ cluster \in Nat /\ k \in Nat
      /\ Len(result) \in Nat /\ Len(result) = k * N /\ Len(result) < request.blocks
  <2>1. request \in VmaRequests /\ cluster \in Nat /\ cluster >= request.cluster
    BY DEF VmaReadInv
  <2>2. /\ N \in Nat \ {0} /\ request.blocks \in Nat \ {0} /\ request.cluster \in Nat
    BY <2>1, VmaRequestIs
  <2>3. /\ Len(result) \in Nat /\ Len(result) = k * N
        /\ block_count = request.blocks - Len(result)
    BY LenProperties DEF VmaReadInv
  <2>4. Len(result) < request.blocks
    BY <2>2, <2>3
  <2> QED
    BY <2>1, <2>2, <2>3, <2>4
<1>2. n \in Nat \ {0} /\ request.blocks <= n * N
  BY <1>1, RoundedUp
<1> HIDE DEF n, k, N
<1>3. k * N < n * N
  <2>1. k * N \in Int /\ n * N \in Int
    BY <1>1, <1>2
  <2> QED
    BY <1>1, <1>2, <2>1
<1>4. k < n
  <2>1. k \in Int /\ n \in Int /\ N \in Nat \ {0}
    BY <1>1, <1>2
  <2> QED
    BY <1>3, <2>1, ProductOrder
<1>5. VmaReader!end = request.cluster + n
  BY DEF VmaReader!end, VmaReader!ClusterCount, n, N
<1> QED
  BY <1>1, <1>2, <1>4, <1>5 DEF k

\* The place of a block in its cluster.
LEMMA VmaBlockInCluster ==
  ASSUME NEW N \in Nat \ {0}, NEW k \in Nat, NEW j \in 0 .. N - 1
  PROVE  (k * N + j) \div N = k /\ (k * N + j) % N = j
<1> DEFINE a == k * N + j
           q == a \div N
           r == a % N
<1>1. k * N \in Nat
  OBVIOUS
<1>2. a \in Nat
  BY <1>1
<1>3. q \in Nat /\ r \in 0 .. N - 1 /\ a = q * N + r
  BY <1>2, Divided
<1>4. q * N + r = k * N + j
  BY <1>3
<1> HIDE DEF q, r, a
<1>5. /\ q * N \in Int /\ (q + 1) * N = q * N + N
      /\ k * N \in Int /\ (k + 1) * N = k * N + N
  BY <1>3, Stepped
<1>6. ~(q + 1 <= k)
  <2> SUFFICES ASSUME q + 1 <= k PROVE FALSE
    OBVIOUS
  <2>1. ~(k * N < (q + 1) * N)
    BY <1>3, ProductOrder
  <2> QED
    BY <1>3, <1>4, <1>5, <2>1
<1>7. ~(k + 1 <= q)
  <2> SUFFICES ASSUME k + 1 <= q PROVE FALSE
    OBVIOUS
  <2>1. ~(q * N < (k + 1) * N)
    BY <1>3, ProductOrder
  <2> QED
    BY <1>3, <1>4, <1>5, <2>1
<1>8. q = k
  BY <1>3, <1>6, <1>7
<1>9. r = j
  BY <1>3, <1>4, <1>5, <1>8
<1> QED
  BY <1>8, <1>9 DEF q, r, a

\* What a step that reads the cluster that is next, from its entry x, comes to.
LEMMA VmaConsumes ==
  ASSUME VmaReadInv, block_count > 0, NEW x, VmaOfDevice(x), file[x[1]][x[2]].cluster = cluster,
         NEW then, VmaReader!Consume(x, then), request' = request, file' = file,
         cluster' = cluster + 1
  PROVE  /\ result' \in Seq(Blocks)
         /\ block_count' \in Nat /\ block_count' = request.blocks - Len(result')
         /\ block_count' > 0 => Len(result') = (cluster' - request.cluster) * ClusterBlocks
         /\ \A i \in 1 .. Len(result') : result'[i] = VmaBlockAt(i)
         /\ pc' = IF block_count' = 0 THEN "done" ELSE then
<1> DEFINE N == ClusterBlocks
           k == cluster - request.cluster
           e == x[1]
           n == x[2]
           count == IF block_count < N THEN block_count ELSE N
           read == VmaBlocks(file, e, n, count)
<1>1. /\ file \in Files /\ request \in VmaRequests /\ VmaPlace(file, x) /\ x = <<e, n>>
      /\ e \in 1 .. Len(file) /\ n \in 1 .. Len(file[e])
      /\ file[e][n].dev = request.dev /\ request.dev # 0
      /\ N \in Nat \ {0} /\ request.blocks \in Nat /\ request.cluster \in Nat
      /\ cluster \in Nat /\ k \in Nat /\ block_count \in Nat /\ block_count > 0
  <2>1. file \in Files /\ request \in VmaRequests /\ cluster \in Nat /\ cluster >= request.cluster
    BY DEF VmaReadInv
  <2>2. VmaPlace(file, x) /\ file[e][n].dev = request.dev
    BY DEF VmaOfDevice
  <2>3. block_count \in Nat
    BY DEF VmaReadInv
  <2> QED
    BY <2>1, <2>2, <2>3, VmaRequestIs, SMTT(30) DEF VmaPlace
<1>2. /\ count \in 1 .. N /\ count \in Nat /\ block_count - count \in Nat
      /\ block_count - count > 0 => count = N
  BY <1>1, SMTT(30)
<1>3. /\ result \in Seq(Blocks) /\ Len(result) \in Nat /\ Len(result) = k * N
      /\ block_count = request.blocks - Len(result)
      /\ \A i \in 1 .. Len(result) : result[i] = VmaBlockAt(i)
  BY LenProperties DEF VmaReadInv
<1>4. /\ result' = result \o read
      /\ block_count' = block_count - count
      /\ pc' = IF block_count' = 0 THEN "done" ELSE then
  <2>1. /\ file[e][n].mask = 0 .. N - 1 =>
             VmaReader!Read(e, VmaOffset(file, e, n), count) = VmaBlocks(file, e, n, count)
        /\ file[e][n].mask = {} =>
             [i \in 1 .. count |-> <<0, 0, 0>>] = VmaBlocks(file, e, n, count)
        /\ VmaReader!ReadMasked(e, VmaOffset(file, e, n), file[e][n].mask, count) =
             VmaBlocks(file, e, n, count)
    BY <1>1, <1>2, VmaClusterIs
  <2>2. VmaReader!BlockOffset(x) = VmaOffset(file, e, n)
    BY <1>1, VmaBlockOffsetIs, SMTT(30)
  <2>3. /\ result' = result \o
             (IF file[e][n].mask = 0 .. N - 1 THEN VmaReader!Read(e, VmaReader!BlockOffset(x), count)
              ELSE IF file[e][n].mask = {} THEN [i \in 1 .. count |-> <<0, 0, 0>>]
              ELSE VmaReader!ReadMasked(e, VmaReader!BlockOffset(x), file[e][n].mask, count))
        /\ block_count' = block_count - count
        /\ pc' = IF block_count' = 0 THEN "done" ELSE then
    BY DEF VmaReader!Consume, VmaReader!FullMask, VmaReader!Zero, VmaReader!Entry
  <2> HIDE DEF count, N, e, n
  <2> QED
    BY <2>1, <2>2, <2>3 DEF read
<1>5. VmaReader!Holder(request.dev, cluster) = x
  BY <1>1, VmaHolderIs
<1>6. /\ read \in Seq(Blocks) /\ Len(read) = count
      /\ \A j \in 1 .. count :
           read[j] = IF j - 1 \in file[e][n].mask THEN <<e, n, j - 1>> ELSE <<0, 0, 0>>
  <2>1. e \in Int /\ n \in Int
    BY <1>1
  <2> HIDE DEF count, e, n
  <2>2. \A j \in 1 .. count :
          (IF j - 1 \in file[e][n].mask THEN <<e, n, j - 1>> ELSE <<0, 0, 0>>) \in Blocks
    BY <1>2, <2>1 DEF Blocks
  <2>3. read = [j \in 1 .. count |-> IF j - 1 \in file[e][n].mask THEN <<e, n, j - 1>> ELSE <<0, 0, 0>>]
    BY DEF read, VmaBlocks
  <2>4. count \in Nat
    BY <1>2
  <2> HIDE DEF read
  <2>5. \A j \in 1 .. count :
          read[j] = IF j - 1 \in file[e][n].mask THEN <<e, n, j - 1>> ELSE <<0, 0, 0>>
    BY <2>3
  <2>6. read \in [1 .. count -> Blocks]
    BY <2>2, <2>3
  <2>7. read \in Seq(Blocks) /\ Len(read) = count
    BY <2>4, <2>6
  <2> QED
    BY <2>5, <2>7
<1> HIDE DEF count, read, k, N, e, n
<1>7. /\ result' \in Seq(Blocks) /\ Len(result') = Len(result) + count
      /\ \A i \in 1 .. Len(result) + count :
           result'[i] = IF i <= Len(result) THEN result[i] ELSE read[i - Len(result)]
  <2>1. result \in Seq(Blocks) /\ read \in Seq(Blocks) /\ result' = result \o read
    BY <1>3, <1>4, <1>6
  <2>2. Len(read) = count
    BY <1>6
  <2> QED
    BY <2>1, <2>2, ConcatProperties
<1>8. ASSUME NEW j \in 1 .. count
      PROVE  VmaBlockAt(Len(result) + j) = read[j]
  <2>1. (k * N + (j - 1)) \div N = k /\ (k * N + (j - 1)) % N = j - 1
    <3>1. j - 1 \in 0 .. N - 1 /\ k \in Nat /\ N \in Nat \ {0}
      BY <1>1, <1>2
    <3> QED
      BY <3>1, VmaBlockInCluster
  <2>2. (Len(result) + j) - 1 = k * N + (j - 1)
    BY <1>2, <1>3
  <2>3. ((Len(result) + j) - 1) \div N = k /\ ((Len(result) + j) - 1) % N = j - 1
    BY <2>1, <2>2
  <2>4. request.cluster + k = cluster
    BY <1>1 DEF k
  <2> QED
    BY <1>5, <1>6, <2>3, <2>4 DEF VmaBlockAt, N, e, n
<1>9. \A i \in 1 .. Len(result') : result'[i] = VmaBlockAt(i)
  <2> TAKE i \in 1 .. Len(result')
  <2>1. CASE i <= Len(result)
    BY <1>2, <1>3, <1>7, <2>1
  <2>2. CASE ~(i <= Len(result))
    <3>1. i - Len(result) \in 1 .. count /\ Len(result) + (i - Len(result)) = i
      BY <1>2, <1>3, <1>7, <2>2
    <3>2. VmaBlockAt(Len(result) + (i - Len(result))) = read[i - Len(result)]
      BY <1>8, <3>1
    <3> QED
      BY <1>7, <2>2, <3>1, <3>2
  <2> QED
    BY <2>1, <2>2
<1>10. block_count' \in Nat /\ block_count' = request.blocks - Len(result')
  <2>1. request.blocks \in Nat /\ Len(result) \in Nat /\ count \in Nat
    BY <1>1, <1>2, <1>3
  <2>2. block_count' = request.blocks - Len(result) - count
    BY <1>3, <1>4
  <2>3. Len(result') = Len(result) + count
    BY <1>7
  <2>4. block_count' \in Nat
    BY <1>2, <1>4
  <2> QED
    BY <2>1, <2>2, <2>3, <2>4
<1>11. ASSUME block_count' > 0
       PROVE  Len(result') = (cluster' - request.cluster) * ClusterBlocks
  <2>1. count = N
    BY <1>2, <1>4, <1>11
  <2>2. cluster' - request.cluster = k + 1
    <3>1. cluster \in Nat /\ request.cluster \in Nat
      BY <1>1
    <3> QED
      BY <3>1 DEF k
  <2>3. (k + 1) * N = k * N + N
    BY <1>1, Stepped
  <2> QED
    BY <1>3, <1>7, <2>1, <2>2, <2>3 DEF N
<1> QED
  BY <1>4, <1>7, <1>9, <1>10, <1>11

\* What is said of the file and the request stays the same.
LEMMA VmaReadSame ==
  ASSUME file' = file, request' = request
  PROVE  /\ \A x : VmaOfDevice(x)' <=> VmaOfDevice(x)
         /\ \A i : VmaBlockAt(i)' = VmaBlockAt(i)
         /\ VmaReader!end' = VmaReader!end
<1>1. \A d, c : VmaReader!Holder(d, c)' = VmaReader!Holder(d, c)
  BY DEF VmaReader!Holder, VmaReader!Entries, VmaReader!Entry
<1>2. \A i : VmaBlockAt(i)' = VmaBlockAt(i)
  BY <1>1 DEF VmaBlockAt
<1>3. \A x : VmaOfDevice(x)' <=> VmaOfDevice(x)
  BY DEF VmaOfDevice, VmaPlace
<1>4. VmaReader!end' = VmaReader!end
  BY DEF VmaReader!end, VmaReader!ClusterCount
<1> QED
  BY <1>2, <1>3, <1>4

\* Nothing has been read at first.
LEMMA VmaReadInit ==
  ASSUME VmaReader!Init
  PROVE  VmaReadInv
<1>1. /\ file \in Files /\ request \in VmaRequests /\ place = <<1, 0>> /\ cluster = request.cluster
      /\ DOMAIN temp = {} /\ block_count = request.blocks /\ result = <<>> /\ pc = "scan"
  BY DEF VmaReader!Init
<1>2. /\ Len(file) \in Nat /\ \A e \in 1 .. Len(file) : Len(file[e]) \in Nat
      /\ request.cluster \in Nat /\ request.blocks \in Nat \ {0} /\ ClusterBlocks \in Nat
  BY <1>1, VmaTypes, VmaRequestIs
<1>3. VmaAt(file, place)
  BY <1>1, <1>2 DEF VmaAt
<1>4. \A x : VmaPlace(file, x) => ~Before(x, place)
  BY <1>1, <1>2 DEF VmaPlace, Before
<1>5. result \in Seq(Blocks) /\ Len(result) = 0
  BY <1>1, EmptySeq
<1>6. Len(result) = (cluster - request.cluster) * ClusterBlocks
  <2>1. cluster - request.cluster = 0
    BY <1>1, <1>2
  <2> QED
    BY <1>2, <1>5, <2>1
<1>7. /\ block_count \in Nat /\ block_count > 0 /\ block_count = request.blocks - Len(result)
      /\ cluster \in Nat /\ cluster >= request.cluster
      /\ \A i \in 1 .. Len(result) : result[i] = VmaBlockAt(i)
  BY <1>1, <1>2, <1>5
<1> QED
  BY <1>1, <1>3, <1>4, <1>5, <1>6, <1>7 DEF VmaReadInv, VmaOfDevice

\* A step that reads nothing moves on, as long as it keeps what is still to come.
LEMMA VmaReadMoves ==
  ASSUME VmaReadInv, block_count > 0,
         UNCHANGED <<file, request, cluster, block_count, result>>,
         VmaAt(file, place'),
         pc' \in {"scan", "rest"}, pc' = "rest" => place'[1] > Len(file),
         \A c \in DOMAIN temp' :
           VmaOfDevice(temp'[c]) /\ file[temp'[c][1]][temp'[c][2]].cluster = c,
         \A x : /\ VmaOfDevice(x) /\ Before(x, place')
                /\ cluster <= file[x[1]][x[2]].cluster /\ file[x[1]][x[2]].cluster <= VmaReader!end
                => file[x[1]][x[2]].cluster \in DOMAIN temp'
  PROVE  VmaReadInv'
<1>1. /\ \A x : VmaOfDevice(x)' <=> VmaOfDevice(x)
      /\ \A i : VmaBlockAt(i)' = VmaBlockAt(i)
      /\ VmaReader!end' = VmaReader!end
  BY VmaReadSame
<1> QED
  BY <1>1 DEF VmaReadInv

\* A step that reads a cluster leaves those kept that are still to come.
LEMMA VmaReadsOn ==
  ASSUME VmaReadInv, block_count > 0, NEW x, VmaOfDevice(x), file[x[1]][x[2]].cluster = cluster,
         NEW then \in {"temp", "rest"}, VmaReader!Consume(x, then),
         UNCHANGED <<file, request, place>>, cluster' = cluster + 1,
         DOMAIN temp \ {cluster} \subseteq DOMAIN temp', DOMAIN temp' \subseteq DOMAIN temp,
         \A c \in DOMAIN temp' : temp'[c] = temp[c],
         then = "rest" => pc = "rest",
         then = "temp" => VmaOfDevice(place) /\ file[place[1]][place[2]].cluster <= cluster
  PROVE  VmaReadInv'
<1>1. /\ \A y : VmaOfDevice(y)' <=> VmaOfDevice(y)
      /\ \A i : VmaBlockAt(i)' = VmaBlockAt(i)
      /\ VmaReader!end' = VmaReader!end
  BY VmaReadSame
<1>2. /\ result' \in Seq(Blocks)
      /\ block_count' \in Nat /\ block_count' = request.blocks - Len(result')
      /\ block_count' > 0 => Len(result') = (cluster' - request.cluster) * ClusterBlocks
      /\ \A i \in 1 .. Len(result') : result'[i] = VmaBlockAt(i)
      /\ pc' = IF block_count' = 0 THEN "done" ELSE then
  BY VmaConsumes
<1>3. /\ file \in Files /\ request \in VmaRequests /\ VmaAt(file, place) /\ cluster \in Nat
      /\ cluster >= request.cluster /\ request.cluster \in Nat /\ VmaReader!end \in Nat
  <2>1. /\ file \in Files /\ request \in VmaRequests /\ VmaAt(file, place) /\ cluster \in Nat
        /\ cluster >= request.cluster
    BY DEF VmaReadInv
  <2> QED
    BY <2>1, VmaRequestIs
<1>4. cluster' \in Nat /\ cluster' >= request.cluster
  BY <1>3
<1>5. ASSUME NEW y, VmaOfDevice(y), Before(y, place),
             cluster' <= file[y[1]][y[2]].cluster, file[y[1]][y[2]].cluster <= VmaReader!end
      PROVE  file[y[1]][y[2]].cluster \in DOMAIN temp'
  <2>1. file[y[1]][y[2]].cluster \in Nat
    BY <1>3, <1>5, VmaTypes DEF VmaOfDevice, VmaPlace
  <2>2. cluster <= file[y[1]][y[2]].cluster /\ file[y[1]][y[2]].cluster # cluster
    BY <1>3, <1>5, <2>1
  <2>3. file[y[1]][y[2]].cluster \in DOMAIN temp
    BY <1>5, <2>2 DEF VmaReadInv
  <2> QED
    BY <2>2, <2>3
<1>6. \A c \in DOMAIN temp' :
        VmaOfDevice(temp'[c]) /\ file[temp'[c][1]][temp'[c][2]].cluster = c
  <2> TAKE c \in DOMAIN temp'
  <2>1. c \in DOMAIN temp /\ temp'[c] = temp[c]
    OBVIOUS
  <2>2. VmaOfDevice(temp[c]) /\ file[temp[c][1]][temp[c][2]].cluster = c
    BY <2>1 DEF VmaReadInv
  <2> QED
    BY <2>1, <2>2
<1>7. then = "temp" => file[place[1]][place[2]].cluster < cluster'
  <2> SUFFICES ASSUME then = "temp" PROVE file[place[1]][place[2]].cluster < cluster'
    OBVIOUS
  <2>1. file[place[1]][place[2]].cluster \in Nat
    BY <1>3, VmaTypes DEF VmaOfDevice, VmaPlace
  <2> QED
    BY <1>3, <2>1
<1>8. pc = "rest" => place[1] > Len(file)
  BY DEF VmaReadInv
<1>9. pc' = "done" => ~(block_count' > 0)
  BY <1>2
<1> QED
  BY <1>1, <1>2, <1>3, <1>4, <1>5, <1>6, <1>7, <1>8, <1>9 DEF VmaReadInv

\* An extent that is passed over holds nothing of the device that is still to come.
LEMMA VmaPassedOver ==
  ASSUME file \in Files, NEW e \in 1 .. Len(file), cluster \in Nat, VmaReader!end \in Nat,
         ~ VmaReader!Overlaps(e), NEW x, VmaOfDevice(x), x[1] = e
  PROVE  ~(cluster <= file[x[1]][x[2]].cluster /\ file[x[1]][x[2]].cluster <= VmaReader!end)
<1> DEFINE c == file[x[1]][x[2]].cluster
<1>1. /\ x[2] \in DOMAIN file[e] /\ file[e][x[2]].dev = request.dev /\ c \in Nat
      /\ c = file[e][x[2]].cluster
  BY VmaTypes DEF VmaOfDevice, VmaPlace
<1>2. file[e][x[2]] \in VmaReader!ToSet(file[e])
  BY <1>1 DEF VmaReader!ToSet
<1>3. c \in VmaReader!ClustersIn(e)
  BY <1>1, <1>2 DEF VmaReader!ClustersIn
<1> HIDE DEF c
<1>4. ~(VmaReader!end >= c /\ cluster <= c)
  BY <1>3 DEF VmaReader!Overlaps
<1> QED
  BY <1>1, <1>4 DEF c

\* Every step of a read keeps the invariant.
LEMMA VmaReadStep ==
  ASSUME VmaReadInv, [VmaReader!Next]_(VmaReader!vars)
  PROVE  VmaReadInv'
<1>1. /\ file \in Files /\ request \in VmaRequests /\ VmaAt(file, place) /\ cluster \in Nat
      /\ block_count \in Nat
      /\ \A c \in DOMAIN temp : VmaOfDevice(temp[c]) /\ file[temp[c][1]][temp[c][2]].cluster = c
      /\ \A x : /\ VmaOfDevice(x) /\ Before(x, place) /\ block_count > 0
                /\ cluster <= file[x[1]][x[2]].cluster /\ file[x[1]][x[2]].cluster <= VmaReader!end
                => file[x[1]][x[2]].cluster \in DOMAIN temp
      /\ pc # "done" => block_count > 0
  BY DEF VmaReadInv
<1>2. /\ Len(file) \in Nat /\ VmaReader!end \in Nat
      /\ \A x : VmaOfDevice(x) => file[x[1]][x[2]].cluster \in Nat /\ VmaPlace(file, x)
  BY <1>1, VmaTypes, VmaRequestIs DEF VmaOfDevice, VmaPlace
<1>3. /\ VmaReader!Following = VmaNextPlace(file, place)
      /\ VmaReader!Entry(place) = file[place[1]][place[2]]
  BY DEF VmaReader!Following, VmaNextPlace, VmaReader!Entry
<1>4. ASSUME place[1] <= Len(file)
      PROVE  /\ VmaAt(file, VmaNextPlace(file, place))
             /\ \A x : VmaOfDevice(x) /\ Before(x, VmaNextPlace(file, place)) =>
                  Before(x, place) \/ x = place
             /\ place[2] > 0 => VmaPlace(file, place)
  BY <1>1, <1>2, <1>4, VmaNextPlaceIs
<1>5. CASE VmaReader!EnterExtent
  <2>1. /\ pc = "scan" /\ pc' = "scan" /\ place[1] <= Len(file) /\ place[2] = 0
        /\ place' = IF VmaReader!Overlaps(place[1]) THEN VmaNextPlace(file, place)
                    ELSE <<place[1] + 1, 0>>
        /\ UNCHANGED <<file, request, cluster, temp, block_count, result>>
    BY <1>3, <1>5 DEF VmaReader!EnterExtent, VmaReader!AtExtent
  <2>2. block_count > 0
    BY <1>1, <2>1
  <2>3. CASE VmaReader!Overlaps(place[1])
    <3>1. \A x : VmaOfDevice(x) => x # place
      <4>1. \A x : VmaOfDevice(x) => x[2] \in Nat \ {0}
        BY <1>1, VmaTypes DEF VmaOfDevice, VmaPlace
      <4> QED
        BY <2>1, <4>1
    <3> QED
      BY <1>1, <1>4, <2>1, <2>2, <2>3, <3>1, VmaReadMoves
  <2>4. CASE ~ VmaReader!Overlaps(place[1])
    <3>1. place' = <<place[1] + 1, 0>> /\ place[1] \in 1 .. Len(file)
      BY <1>1, <1>2, <2>1, <2>4 DEF VmaAt
    <3>2. VmaAt(file, place')
      <4>1. place[1] + 1 <= Len(file) => Len(file[place[1] + 1]) \in Nat
        BY <1>1, <1>2, <3>1, VmaTypes
      <4> QED
        BY <1>2, <3>1, <4>1 DEF VmaAt
    <3>3. ASSUME NEW x, VmaOfDevice(x), Before(x, place'),
                 cluster <= file[x[1]][x[2]].cluster, file[x[1]][x[2]].cluster <= VmaReader!end
          PROVE  file[x[1]][x[2]].cluster \in DOMAIN temp
      <4>1. /\ x[1] \in Nat /\ x[2] \in Nat /\ place[1] \in Nat
            /\ place'[1] = place[1] + 1 /\ place'[2] = 0
        BY <1>1, <1>2, <3>1, <3>3, VmaTypes DEF VmaPlace
      <4>2. x[1] < place[1] \/ x[1] = place[1]
        BY <3>3, <4>1 DEF Before
      <4>3. x[1] # place[1]
        BY <1>1, <1>2, <2>4, <3>1, <3>3, VmaPassedOver
      <4>4. Before(x, place)
        BY <4>2, <4>3 DEF Before
      <4> QED
        BY <1>1, <2>2, <3>3, <4>4
    <3> QED
      BY <1>1, <2>1, <2>2, <3>2, <3>3, VmaReadMoves
  <2> QED
    BY <2>3, <2>4
<1>6. CASE VmaReader!Match
  <2>1. /\ pc = "scan" /\ place[1] <= Len(file) /\ place[2] > 0
        /\ file[place[1]][place[2]].dev = request.dev
        /\ file[place[1]][place[2]].cluster = cluster
        /\ VmaReader!Consume(place, "temp") /\ cluster' = cluster + 1
        /\ UNCHANGED <<file, request, place, temp>>
    BY <1>3, <1>6 DEF VmaReader!Match, VmaReader!AtEntry, VmaReader!Wanted
  <2>2. VmaOfDevice(place)
    BY <1>4, <2>1 DEF VmaOfDevice
  <2>3. block_count > 0 /\ file[place[1]][place[2]].cluster <= cluster
    BY <1>1, <2>1
  <2> QED
    BY <2>1, <2>2, <2>3, VmaReadsOn
<1>7. CASE VmaReader!FromTemp
  <2>1. /\ pc \in {"temp", "rest"} /\ cluster \in DOMAIN temp
        /\ VmaReader!Consume(temp[cluster], pc) /\ cluster' = cluster + 1
        /\ temp' = [c \in DOMAIN temp \ {cluster} |-> temp[c]]
        /\ UNCHANGED <<file, request, place>>
    BY <1>7 DEF VmaReader!FromTemp
  <2>2. VmaOfDevice(temp[cluster]) /\ file[temp[cluster][1]][temp[cluster][2]].cluster = cluster
    BY <1>1, <2>1
  <2>3. block_count > 0
    BY <1>1, <2>1
  <2>4. pc = "temp" => VmaOfDevice(place) /\ file[place[1]][place[2]].cluster <= cluster
    <3>1. pc = "temp" => VmaOfDevice(place) /\ file[place[1]][place[2]].cluster < cluster
      BY DEF VmaReadInv
    <3> QED
      BY <1>1, <1>2, <3>1
  <2>5. /\ DOMAIN temp' = DOMAIN temp \ {cluster}
        /\ \A c \in DOMAIN temp' : temp'[c] = temp[c]
    BY <2>1
  <2> QED
    BY <2>1, <2>2, <2>3, <2>4, <2>5, VmaReadsOn
<1>8. CASE VmaReader!TempExhausted
  <2>1. /\ pc = "temp" /\ pc' = VmaReader!OnFrom(cluster) /\ place' = VmaNextPlace(file, place)
        /\ UNCHANGED <<file, request, cluster, temp, block_count, result>>
    BY <1>3, <1>8 DEF VmaReader!TempExhausted
  <2>2. /\ block_count > 0 /\ VmaOfDevice(place) /\ file[place[1]][place[2]].cluster < cluster
    BY <2>1 DEF VmaReadInv
  <2>3. place[1] <= Len(file) /\ file[place[1]][place[2]].cluster \in Nat
    BY <1>2, <2>2 DEF VmaPlace
  <2>4. pc' = "scan"
    <3>1. cluster < VmaReader!end
      BY <2>2, VmaNotAtEnd
    <3> QED
      BY <1>1, <1>2, <2>1, <3>1 DEF VmaReader!OnFrom
  <2>5. ASSUME NEW x, VmaOfDevice(x), Before(x, place'),
               cluster <= file[x[1]][x[2]].cluster, file[x[1]][x[2]].cluster <= VmaReader!end
        PROVE  file[x[1]][x[2]].cluster \in DOMAIN temp
    <3>1. x # place
      BY <1>1, <2>2, <2>3, <2>5
    <3>2. Before(x, place)
      BY <1>4, <2>1, <2>3, <2>5, <3>1
    <3> QED
      BY <1>1, <2>2, <2>5, <3>2
  <2> QED
    BY <1>1, <1>4, <2>1, <2>2, <2>3, <2>4, <2>5, VmaReadMoves
<1>9. CASE VmaReader!Keep
  <2> DEFINE k == file[place[1]][place[2]].cluster
  <2>1. /\ pc = "scan" /\ pc' = "scan" /\ place[1] <= Len(file) /\ place[2] > 0
        /\ file[place[1]][place[2]].dev = request.dev
        /\ temp' = [c \in DOMAIN temp \cup {k} |-> IF c = k THEN place ELSE temp[c]]
        /\ place' = VmaNextPlace(file, place)
        /\ UNCHANGED <<file, request, cluster, block_count, result>>
    BY <1>3, <1>9 DEF VmaReader!Keep, VmaReader!AtEntry, VmaReader!Wanted
  <2>2. VmaOfDevice(place) /\ block_count > 0
    BY <1>1, <1>4, <2>1 DEF VmaOfDevice
  <2>3. ASSUME NEW c \in DOMAIN temp'
        PROVE  VmaOfDevice(temp'[c]) /\ file[temp'[c][1]][temp'[c][2]].cluster = c
    <3>1. CASE c = k
      BY <2>1, <2>2, <2>3, <3>1
    <3>2. CASE c # k
      <4>1. c \in DOMAIN temp /\ temp'[c] = temp[c]
        BY <2>1, <2>3, <3>2
      <4> QED
        BY <1>1, <4>1
    <3> QED
      BY <3>1, <3>2
  <2>4. ASSUME NEW x, VmaOfDevice(x), Before(x, place'),
               cluster <= file[x[1]][x[2]].cluster, file[x[1]][x[2]].cluster <= VmaReader!end
        PROVE  file[x[1]][x[2]].cluster \in DOMAIN temp'
    <3>1. CASE x = place
      BY <2>1, <3>1
    <3>2. CASE x # place
      <4>1. Before(x, place)
        BY <1>4, <2>1, <2>4, <3>2
      <4>2. file[x[1]][x[2]].cluster \in DOMAIN temp
        BY <1>1, <2>2, <2>4, <4>1
      <4> QED
        BY <2>1, <4>2
    <3> QED
      BY <3>1, <3>2
  <2> QED
    BY <1>4, <2>1, <2>2, <2>3, <2>4, VmaReadMoves
<1>10. CASE VmaReader!PassOver
  <2>1. /\ pc = "scan" /\ pc' = "scan" /\ place[1] <= Len(file) /\ place[2] > 0
        /\ file[place[1]][place[2]].dev = request.dev =>
             /\ file[place[1]][place[2]].cluster # cluster
             /\ ~(cluster < file[place[1]][place[2]].cluster
                   /\ file[place[1]][place[2]].cluster <= VmaReader!end)
        /\ place' = VmaNextPlace(file, place)
        /\ UNCHANGED <<file, request, cluster, temp, block_count, result>>
    BY <1>3, <1>10 DEF VmaReader!PassOver, VmaReader!AtEntry, VmaReader!Wanted, VmaReader!Early
  <2>2. block_count > 0
    BY <1>1, <2>1
  <2>3. ASSUME NEW x, VmaOfDevice(x), Before(x, place'),
               cluster <= file[x[1]][x[2]].cluster, file[x[1]][x[2]].cluster <= VmaReader!end
        PROVE  file[x[1]][x[2]].cluster \in DOMAIN temp
    <3>1. x # place
      <4> SUFFICES ASSUME x = place PROVE FALSE
        OBVIOUS
      <4>1. /\ file[place[1]][place[2]].cluster \in Nat
            /\ file[place[1]][place[2]].dev = request.dev
        BY <1>2, <2>3 DEF VmaOfDevice
      <4> QED
        BY <1>1, <1>2, <2>1, <2>3, <4>1
    <3>2. Before(x, place)
      BY <1>4, <2>1, <2>3, <3>1
    <3> QED
      BY <1>1, <2>2, <2>3, <3>2
  <2> QED
    BY <1>1, <1>4, <2>1, <2>2, <2>3, VmaReadMoves
<1>11. CASE VmaReader!EndOfFile
  <2>1. /\ pc = "scan" /\ pc' = "rest" /\ place[1] > Len(file)
        /\ UNCHANGED <<file, request, place, cluster, temp, block_count, result>>
    BY <1>11 DEF VmaReader!EndOfFile
  <2>2. block_count > 0
    BY <1>1, <2>1
  <2> QED
    BY <1>1, <2>1, <2>2, VmaReadMoves
<1>12. CASE VmaReader!RestExhausted
  <2>1. /\ pc = "rest" /\ pc' = "done" /\ cluster \notin DOMAIN temp
        /\ UNCHANGED <<file, request, place, cluster, temp, block_count, result>>
    BY <1>12 DEF VmaReader!RestExhausted
  <2>2. /\ \A x : VmaOfDevice(x)' <=> VmaOfDevice(x)
        /\ \A i : VmaBlockAt(i)' = VmaBlockAt(i)
        /\ VmaReader!end' = VmaReader!end
    BY <2>1, VmaReadSame
  <2> QED
    BY <2>1, <2>2 DEF VmaReadInv
<1>13. CASE UNCHANGED VmaReader!vars
  <2>1. UNCHANGED <<file, request, place, cluster, temp, block_count, result, pc>>
    BY <1>13 DEF VmaReader!vars
  <2>2. /\ \A x : VmaOfDevice(x)' <=> VmaOfDevice(x)
        /\ \A i : VmaBlockAt(i)' = VmaBlockAt(i)
        /\ VmaReader!end' = VmaReader!end
    BY <2>1, VmaReadSame
  <2> QED
    BY <2>1, <2>2 DEF VmaReadInv
<1> QED
  BY <1>5, <1>6, <1>7, <1>8, <1>9, <1>10, <1>11, <1>12, <1>13
  DEF VmaReader!Next, VmaReader!Done

\* The invariant says what a read of the device is to give.
LEMMA VmaReadFinal ==
  ASSUME VmaReadInv
  PROVE  VmaReader!ReadsDevice
<1>1. /\ file \in Files /\ request \in VmaRequests /\ VmaAt(file, place)
      /\ result \in Seq(Blocks) /\ Len(result) \in Nat
      /\ block_count = request.blocks - Len(result)
      /\ cluster \in Nat /\ cluster >= request.cluster
      /\ \A i \in 1 .. Len(result) : result[i] = VmaBlockAt(i)
  BY LenProperties DEF VmaReadInv
<1>2. /\ request.blocks \in Nat /\ request.cluster \in Nat /\ ClusterBlocks \in Nat \ {0}
      /\ VmaReader!end \in Nat
  BY <1>1, VmaRequestIs
<1>3. Len(result) = request.blocks - block_count
  BY <1>1, <1>2
<1>4. result = VmaReader!DeviceBlocks(request.dev, request.cluster, Len(result))
  <2>1. result = [i \in 1 .. Len(result) |-> result[i]]
    BY <1>1, LenProperties
  <2>2. VmaReader!DeviceBlocks(request.dev, request.cluster, Len(result)) =
          [i \in 1 .. Len(result) |-> VmaBlockAt(i)]
    BY DEF VmaReader!DeviceBlocks, VmaBlockAt, VmaReader!Entry, VmaReader!Zero
  <2> QED
    BY <1>1, <2>1, <2>2
<1>5. ASSUME pc = "done", block_count > 0
      PROVE  ~ VmaReader!Holds(request.cluster + Len(result) \div ClusterBlocks)
  <2>1. Len(result) \div ClusterBlocks = cluster - request.cluster
    <3>1. Len(result) = (cluster - request.cluster) * ClusterBlocks
      BY <1>5 DEF VmaReadInv
    <3>2. cluster - request.cluster \in Nat /\ 0 \in 0 .. ClusterBlocks - 1
      BY <1>1, <1>2
    <3>3. ((cluster - request.cluster) * ClusterBlocks + 0) \div ClusterBlocks =
            cluster - request.cluster
      BY <1>2, <3>2, VmaBlockInCluster
    <3>4. (cluster - request.cluster) * ClusterBlocks + 0 = Len(result)
      BY <1>1, <3>1
    <3> QED
      BY <3>3, <3>4
  <2>2. request.cluster + Len(result) \div ClusterBlocks = cluster
    BY <1>1, <1>2, <2>1
  <2>3. cluster < VmaReader!end
    BY <1>5, VmaNotAtEnd
  <2>4. ASSUME NEW x \in VmaReader!Entries, VmaReader!Entry(x).dev = request.dev,
               VmaReader!Entry(x).cluster = cluster
        PROVE  FALSE
    <3>1. VmaOfDevice(x) /\ file[x[1]][x[2]].cluster = cluster
      BY <1>1, <2>4, VmaEntryIs DEF VmaOfDevice
    <3>2. Before(x, place)
      <4>1. x[1] \in Nat /\ x[1] <= Len(file) /\ Len(file) \in Nat /\ place[1] \in Nat
        BY <1>1, <3>1, VmaTypes DEF VmaOfDevice, VmaPlace, VmaAt
      <4>2. place[1] > Len(file)
        BY <1>5 DEF VmaReadInv
      <4> QED
        BY <4>1, <4>2 DEF Before
    <3>3. cluster <= file[x[1]][x[2]].cluster /\ file[x[1]][x[2]].cluster <= VmaReader!end
      BY <1>1, <1>2, <2>3, <3>1
    <3>4. cluster \in DOMAIN temp
      BY <1>5, <3>1, <3>2, <3>3 DEF VmaReadInv
    <3> QED
      BY <1>5, <3>4 DEF VmaReadInv
  <2> QED
    BY <2>2, <2>4 DEF VmaReader!Holds
<1> QED
  BY <1>3, <1>4, <1>5 DEF VmaReader!ReadsDevice

-----------------------------------------------------------------------------
(***************************************************************************)
(* The theorems.                                                           *)
(***************************************************************************)

\* For any WIM resources, chunks and units, a read that starts where a chunk does, or stays in
\* one, gives the bytes it asks for (CompressedStream._read).
THEOREM WimReadCorrect == Spec => []WimReadsSlice
<1> DEFINE Inv == format = "wim" => WimInv
<1>1. Init => Inv
  BY WimInit DEF Init
<1>2. Inv /\ [Next]_vars => Inv'
  <2> SUFFICES ASSUME Inv, [Next]_vars, format' = "wim"
               PROVE  WimInv'
    OBVIOUS
  <2>1. format = "wim" /\ [WimReader!Next]_(WimReader!vars)
    BY DEF Next, vars, wim_read, WimReader!vars
  <2> QED
    BY <2>1, WimStep
<1>3. Inv => WimReadsSlice
  BY WimFinal DEF WimReadsSlice
<1> QED
  BY <1>1, <1>2, <1>3, PTL DEF Spec

\* For any VMA file, device and part of it, a read gives the blocks of the device in their order,
\* wherever in the file their clusters are (DeviceDataStream._read, _iter_clusters).
THEOREM VmaReadCorrect == Spec => []VmaReadsDevice
<1> DEFINE Inv == format = "vma" => VmaReadInv
<1>1. Init => Inv
  BY VmaReadInit DEF Init
<1>2. Inv /\ [Next]_vars => Inv'
  <2> SUFFICES ASSUME Inv, [Next]_vars, format' = "vma"
               PROVE  VmaReadInv'
    OBVIOUS
  <2>1. format = "vma" /\ [VmaReader!Next]_(VmaReader!vars)
    BY DEF Next, vars, vma_read, VmaReader!vars
  <2> QED
    BY <2>1, VmaReadStep
<1>3. Inv => VmaReadsDevice
  BY VmaReadFinal DEF VmaReadsDevice
<1> QED
  BY <1>1, <1>2, <1>3, PTL DEF Spec

\* For any VMA file and devices, what the tool writes is what a read of the devices gives, and
\* all of it is written in the end (extract_vma).
THEOREM VmaExtractCorrect == Spec => []VmaExtractsDevices
<1> DEFINE Inv == format = "vma tool" => VmaExtractInv
<1>1. Init => Inv
  BY VmaExtractInit DEF Init
<1>2. Inv /\ [Next]_vars => Inv'
  <2> SUFFICES ASSUME Inv, [Next]_vars, format' = "vma tool"
               PROVE  VmaExtractInv'
    OBVIOUS
  <2>1. format = "vma tool" /\ [VmaExtractor!Next]_(VmaExtractor!vars)
    BY DEF Next, vars, VmaExtractor!vars
  <2> QED
    BY <2>1, VmaExtractStep
<1>3. Inv => VmaExtractsDevices
  BY VmaExtractFinal DEF VmaExtractsDevices
<1> QED
  BY <1>1, <1>2, <1>3, PTL DEF Spec
=============================================================================
