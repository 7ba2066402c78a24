--------------------------- MODULE RawDownloadProofs ---------------------------
(***************************************************************************)
(* A raw download is written whole and in order whatever the sizes of the  *)
(* image, the buffer and the callbacks, and however often the connection   *)
(* breaks.                                                                 *)
(***************************************************************************)
EXTENDS RawDownload, SequenceTheorems, TLAPS

\* The bytes taken from curl so far.
Taken == Len(device) + Len(buffer)

\* The next byte is within the image, cancelled or not.
BoundsKept ==
  /\ Len(device) <= Size
  /\ pc = "receive" => startOffset + dlNow <= Size
  /\ pc = "append" => chunk.first <= chunk.last + 1 /\ startOffset <= chunk.last
  /\ pc = "complete" => Len(device) = Size

\* Where the download stands agrees with what was taken, between two callbacks
\* (curl's count), in one (the chunk) and at the end of an attempt (the last
\* report, from which the next one resumes).
AtTaken ==
  /\ Taken <= Size
  /\ pc = "perform" => startOffset = Taken
  /\ pc = "receive" => startOffset + dlNow = Taken
  /\ pc = "append" => chunk.first = Taken + 1
  /\ pc = "check" /\ ret # "WRITE_ERROR" => lastDlNow = Taken
  /\ pc = "check" /\ ret = "OK" => Taken = Size
  /\ pc = "flush" => Taken = Size
  /\ pc = "finalise" => Len(device) = Size /\ buffer = <<>>

\* A cancelled download drops bytes, and the position is lost.
PositionKept == ~cancelled => AtTaken

\* curl fails with an HTTP/2 error only while HTTP/2 is on, which the third such
\* failure turns off.
FallbackKept ==
  /\ http2 => http2FailureCount < MAX_HTTP2_FAILURES
  /\ pc = "check" /\ ret = "HTTP2" => http2

\* The inductive invariant: the order of the bytes alone says nothing about the
\* next one, which is where the position comes in.
IInv == /\ TypeOK /\ BoundsKept /\ PositionKept /\ FallbackKept
        /\ InOrder /\ AlignedWrites

-------------------------------------------------------------------------------
(* The bytes of the image as sequences.                                    *)

\* A run of bytes is as long as its bounds say.
LEMMA BytesProperties ==
  ASSUME NEW first \in Nat \ {0}, NEW last \in Nat, first <= last + 1,
         NEW bound \in Nat, last <= bound
  PROVE  /\ Bytes(first, last) \in Seq(1..bound)
         /\ Len(Bytes(first, last)) = last + 1 - first
  <1>1. last + 1 - first \in Nat
    OBVIOUS
  <1>2. \A k \in 1..(last + 1 - first) : first + k - 1 \in 1..bound
    OBVIOUS
  <1>3. Bytes(first, last) \in [1..(last + 1 - first) -> 1..bound]
    BY <1>2 DEF Bytes
  <1> QED
    BY <1>1, <1>3 DEF Bytes

\* Two runs that meet are one.
LEMMA BytesConcat ==
  ASSUME NEW m \in Nat, NEW n \in Nat, m <= n
  PROVE  Bytes(1, m) \o Bytes(m + 1, n) = Bytes(1, n)
  <1> DEFINE left == Bytes(1, m)
             right == Bytes(m + 1, n)
             whole == Bytes(1, n)
  <1>1. left \in Seq(1..n) /\ Len(left) = m
    BY BytesProperties, m + 1 - 1 = m
  <1>2. right \in Seq(1..n) /\ Len(right) = n - m
    <2> DEFINE first == m + 1
    <2>1. first \in Nat \ {0} /\ first <= n + 1 /\ n <= n /\ n + 1 - first = n - m
      OBVIOUS
    <2> HIDE DEF first
    <2>2. Bytes(first, n) \in Seq(1..n) /\ Len(Bytes(first, n)) = n - m
      BY <2>1, BytesProperties
    <2> QED
      BY <2>2 DEF first
  <1>3. whole \in Seq(1..n) /\ Len(whole) = n
    BY BytesProperties, n + 1 - 1 = n
  <1>4. \A k \in 1..m : left[k] = k
    BY DEF Bytes
  <1>5. \A k \in 1..(n - m) : right[k] = m + k
    BY DEF Bytes
  <1>6. \A k \in 1..n : whole[k] = k
    BY DEF Bytes
  <1> HIDE DEF left, right, whole
  <1>7. /\ left \o right \in Seq(1..n)
        /\ Len(left \o right) = n
        /\ \A k \in 1..n : (left \o right)[k] =
                IF k <= m THEN left[k] ELSE right[k - m]
    <2>1. m + (n - m) = n
      OBVIOUS
    <2>2. /\ left \o right \in Seq(1..n)
          /\ Len(left \o right) = Len(left) + Len(right)
          /\ \A k \in 1..(Len(left) + Len(right)) : (left \o right)[k] =
                IF k <= Len(left) THEN left[k] ELSE right[k - Len(left)]
      BY <1>1, <1>2, ConcatProperties
    <2> QED
      BY <1>1, <1>2, <2>1, <2>2
  <1>8. \A k \in 1..n : (left \o right)[k] = whole[k]
    BY SMTT(30), <1>4, <1>5, <1>6, <1>7
  <1> QED
    BY <1>3, <1>7, <1>8, SeqEqual DEF left, right, whole

LEMMA EmptyBytes == Bytes(1, 0) = <<>>
  BY BytesProperties DEF Bytes

\* A multiple of the buffer's size and a full buffer make the next multiple.
LEMMA NextMultiple ==
  ASSUME NEW k \in Nat, NEW c \in Nat \ {0}
  PROVE  k * c + c = (k + 1) * c
  OBVIOUS

\* Concatenation is associative.
LEMMA ConcatRegrouped ==
  ASSUME NEW S, NEW a \in Seq(S), NEW b \in Seq(S), NEW c \in Seq(S)
  PROVE  (a \o b) \o c = a \o (b \o c)
  OBVIOUS

LEMMA BytesRegrouped ==
  \A a, b, c \in Seq(1..Size) : (a \o b) \o c = a \o (b \o c)
  BY SMTT(30), ConcatRegrouped

-------------------------------------------------------------------------------
(* Appending the next bytes of the image to what was taken.                *)

\* What a turn of the loop copies fits in the buffer and is no more than is left.
LEMMA FragmentFits ==
  ASSUME NEW first \in Nat \ {0}, NEW last \in Nat, last <= Size, first <= last,
         NEW used \in Nat, used <= Capacity
  PROVE  LET count == Fitting(last + 1 - first, Capacity - used)
         IN /\ count \in Nat /\ used + count <= Capacity
            /\ first + count - 1 \in Nat /\ first + count - 1 <= Size
            /\ first <= first + count - 1 + 1
            /\ first + count - 1 + 1 - first = count
            /\ first + count \in 1..(Size + 1) /\ first + count <= last + 1
  BY SizesAssumption DEF Fitting

\* What is appended continues the image.
LEMMA AppendInOrder ==
  ASSUME NEW written \in Seq(1..Size), NEW held \in Seq(1..Size), NEW count \in Nat,
         written \o held = Bytes(1, Len(written) + Len(held)),
         Len(written) + Len(held) + count <= Size
  PROVE  LET taken == Len(written) + Len(held)
             more == Bytes(taken + 1, taken + 1 + count - 1)
         IN /\ held \o more \in Seq(1..Size)
            /\ Len(held \o more) = Len(held) + count
            /\ written \o (held \o more) = Bytes(1, taken + count)
            /\ Len(written \o (held \o more)) = taken + count
  <1> DEFINE taken == Len(written) + Len(held)
             more == Bytes(taken + 1, taken + 1 + count - 1)
  <1>1. /\ taken \in Nat /\ taken + count \in Nat /\ taken <= taken + count
        /\ taken + 1 + count - 1 = taken + count
        /\ taken + 1 \in Nat \ {0} /\ taken + 1 <= taken + count + 1
        /\ taken + count + 1 - (taken + 1) = count
        /\ Size \in Nat /\ taken + count <= Size
    BY SizesAssumption
  <1> HIDE DEF taken
  <1>2. more \in Seq(1..Size) /\ Len(more) = count
    <2> DEFINE first == taken + 1
               last == taken + count
    <2>1. first \in Nat \ {0} /\ last \in Nat /\ first <= last + 1 /\ last <= Size
          /\ last + 1 - first = count
      BY <1>1
    <2> HIDE DEF first, last
    <2>2. Bytes(first, last) \in Seq(1..Size) /\ Len(Bytes(first, last)) = count
      BY <1>1, <2>1, BytesProperties
    <2> QED
      BY <1>1, <2>2 DEF first, last
  <1>3. Bytes(1, taken) \o more = Bytes(1, taken + count)
    BY <1>1, BytesConcat
  <1> HIDE DEF more
  <1>4. /\ held \o more \in Seq(1..Size)
        /\ Len(held \o more) = Len(held) + count
    BY <1>2, ConcatProperties
  <1>5. written \o (held \o more) = Bytes(1, taken + count)
    <2>1. (written \o held) \o more = written \o (held \o more)
      BY <1>2, BytesRegrouped
    <2>2. written \o held = Bytes(1, taken)
      BY DEF taken
    <2> QED
      BY <1>2, <1>3, <2>1, <2>2
  <1>6. Len(written \o (held \o more)) = taken + count
    BY <1>1, <1>4, ConcatProperties DEF taken
  <1> QED
    BY <1>4, <1>5, <1>6 DEF taken, more

-------------------------------------------------------------------------------
(* The invariant.                                                          *)

\* A download begins with nothing taken.
LEMMA InitInvariant ==
  Init => IInv
  <1> SUFFICES ASSUME Init PROVE IInv
    OBVIOUS
  <1> USE SizesAssumption DEF Init
  <1>1. /\ <<>> \in Seq(1..Size) /\ Len(<<>>) = 0
        /\ <<>> \o <<>> = <<>>
    BY ConcatEmptySeq
  <1>2. TypeOK
    <2>1. chunk \in [first : 1..(Size + 1), last : 0..Size]
      BY DEF NoChunk
    <2>2. /\ http2 \in BOOLEAN /\ http2SslFallback \in BOOLEAN
          /\ failed \in BOOLEAN /\ cancelled \in BOOLEAN
      OBVIOUS
    <2>3. /\ http2FailureCount \in 0..MAX_HTTP2_FAILURES
          /\ buffer \in Seq(1..Size) /\ Len(buffer) <= Capacity
          /\ device \in Seq(1..Size)
      BY <1>1 DEF MAX_HTTP2_FAILURES
    <2> QED
      BY <2>1, <2>2, <2>3 DEF TypeOK, Ended
  <1>3. BoundsKept /\ PositionKept
    BY <1>1 DEF BoundsKept, PositionKept, AtTaken, Taken
  <1>4. FallbackKept
    BY DEF FallbackKept, MAX_HTTP2_FAILURES
  <1>5. InOrder
    BY <1>1, EmptyBytes DEF InOrder
  <1>6. AlignedWrites
    BY <1>1 DEF AlignedWrites
  <1> QED
    BY <1>2, <1>3, <1>4, <1>5, <1>6 DEF IInv

\* What an action that leaves the buffer and the device alone cannot disturb.
LEMMA SinkUntouched ==
  ASSUME IInv, UNCHANGED <<buffer, device>>, cancelled => cancelled'
  PROVE  /\ Taken' = Taken
         /\ Taken \in Nat /\ Len(buffer) \in Nat /\ Len(device) \in Nat
         /\ buffer' \in Seq(1..Size) /\ Len(buffer') <= Capacity
         /\ device' \in Seq(1..Size)
         /\ Len(device') <= Size
         /\ InOrder'
         /\ AlignedWrites'
  <1>1. /\ buffer \in Seq(1..Size) /\ Len(buffer) <= Capacity
        /\ device \in Seq(1..Size) /\ Len(device) <= Size
        /\ InOrder
        /\ AlignedWrites
    BY DEF IInv, TypeOK, BoundsKept
  <1>2. Len(buffer) \in Nat /\ Len(device) \in Nat
    BY <1>1
  <1>3. Taken \in Nat /\ Taken' = Taken
    BY <1>2 DEF Taken
  <1>4. InOrder'
    BY <1>1, Zenon DEF InOrder
  <1>5. AlignedWrites'
    BY <1>1, Zenon DEF AlignedWrites
  <1> QED
    BY <1>1, <1>2, <1>3, <1>4, <1>5

\* The attempt begins, goes on and ends.
LEMMA AttemptSteps ==
  ASSUME IInv, Perform \/ Receive \/ Progress \/ PerformReturns
  PROVE  IInv'
  <1> USE SizesAssumption DEF IInv, TypeOK, offsets, protocol, sink
  <1>1. /\ UNCHANGED <<buffer, device, cancelled>>
        /\ pc \in {"perform", "receive"}
    BY DEF Perform, Receive, Progress, PerformReturns
  <1>2. /\ Taken' = Taken
        /\ Taken \in Nat /\ Len(buffer) \in Nat /\ Len(device) \in Nat
        /\ buffer' \in Seq(1..Size) /\ Len(buffer') <= Capacity
        /\ device' \in Seq(1..Size) /\ Len(device') <= Size
        /\ InOrder' /\ AlignedWrites'
    BY <1>1, SinkUntouched
  <1>3. CASE Perform
    <2>1. TypeOK'
      BY <1>2, <1>3 DEF Perform
    <2>2. BoundsKept' /\ PositionKept'
      <3>1. /\ pc = "perform" /\ pc' = "receive" /\ dlNow' = 0
            /\ startOffset' = startOffset
        BY <1>3 DEF Perform
      <3> QED
        BY <1>1, <1>2, <3>1 DEF BoundsKept, PositionKept, AtTaken
    <2>3. FallbackKept'
      BY <1>3 DEF Perform, FallbackKept
    <2> QED
      BY <1>2, <2>1, <2>2, <2>3
  <1>4. CASE Receive
    <2>1. TypeOK'
      BY <1>2, <1>4 DEF Receive, Ended
    <2>2. BoundsKept' /\ PositionKept'
      <3>1. pc' = "check" \/ pc' = "append"
        BY <1>4 DEF Receive
      <3>2. CASE pc' = "check"
        BY <1>1, <1>2, <1>4, <3>2 DEF Receive, BoundsKept, PositionKept, AtTaken
      <3>3. CASE pc' = "append"
        <4> DEFINE at == startOffset + dlNow
        <4>1. PICK n \in 1..MaxChunk : /\ at + n <= Size
                                       /\ chunk' = [first |-> at + 1, last |-> at + n]
          BY <1>4, <3>3 DEF Receive
        <4>2. /\ chunk'.first = at + 1 /\ chunk'.last = at + n
              /\ at \in Nat /\ startOffset <= at /\ n \in Nat \ {0}
              /\ ~cancelled => AtTaken /\ at = Taken
              /\ startOffset' = startOffset /\ cancelled' = cancelled
          BY <1>4, <4>1 DEF Receive, PositionKept, AtTaken
        <4> HIDE DEF at
        <4>3. at + 1 <= at + n + 1 /\ startOffset <= at + n
          BY <4>2
        <4> QED
          BY <1>2, <3>3, <4>2, <4>3 DEF BoundsKept, PositionKept, AtTaken
      <3> QED
        BY <3>1, <3>2, <3>3
    <2>3. FallbackKept'
      BY <1>4 DEF Receive, FallbackKept
    <2> QED
      BY <1>2, <2>1, <2>2, <2>3
  <1>5. CASE Progress
    <2>1. TypeOK'
      BY <1>2, <1>5 DEF Progress, Offset, Ended, BoundsKept
    <2>2. BoundsKept' /\ PositionKept'
      BY <1>1, <1>2, <1>5 DEF Progress, Offset, Aborts, BoundsKept, PositionKept, AtTaken
    <2>3. FallbackKept'
      BY <1>5 DEF Progress, FallbackKept
    <2> QED
      BY <1>2, <2>1, <2>2, <2>3
  <1>6. CASE PerformReturns
    <2>1. TypeOK'
      BY <1>2, <1>6 DEF PerformReturns, Offset, Ended, BoundsKept
    <2>2. BoundsKept' /\ PositionKept'
      BY <1>1, <1>2, <1>6
         DEF PerformReturns, Offset, Codes, BoundsKept, PositionKept, AtTaken
    <2>3. FallbackKept'
      BY <1>6 DEF PerformReturns, FallbackKept
    <2> QED
      BY <1>2, <2>1, <2>2, <2>3
  <1> QED
    BY <1>3, <1>4, <1>5, <1>6

\* The callback passes the next bytes on.
LEMMA AppendSteps ==
  ASSUME IInv, AppendFragment
  PROVE  IInv'
  <1> DEFINE left  == chunk.last + 1 - chunk.first
             room  == Capacity - Len(buffer)
             count == Fitting(left, room)
             more  == Bytes(chunk.first, chunk.first + count - 1)
             used  == buffer \o more
  <1>1. /\ pc = "append" /\ chunk.first <= chunk.last /\ startOffset <= chunk.last
        /\ chunk.first \in Nat \ {0} /\ chunk.last \in Nat /\ chunk.last <= Size
        /\ Len(device) \in Nat /\ Len(buffer) \in Nat /\ Len(buffer) <= Capacity
        /\ Len(device) <= Size
        /\ Taken \in Nat /\ Taken = Len(device) + Len(buffer)
        /\ Size \in Nat /\ Capacity \in Nat \ {0}
        /\ device \in Seq(1..Size) /\ buffer \in Seq(1..Size)
    <2>1. /\ pc = "append" /\ chunk.first <= chunk.last /\ startOffset <= chunk.last
          /\ Len(device) <= Size
      BY DEF AppendFragment, IInv, BoundsKept
    <2>2. /\ device \in Seq(1..Size) /\ buffer \in Seq(1..Size)
          /\ chunk \in [first : 1..(Size + 1), last : 0..Size]
          /\ Len(buffer) <= Capacity
      BY DEF IInv, TypeOK
    <2>3. /\ chunk.first \in Nat \ {0} /\ chunk.last \in Nat /\ chunk.last <= Size
      BY <2>2, SizesAssumption
    <2>4. Len(device) \in Nat /\ Len(buffer) \in Nat
      BY <2>2
    <2> QED
      BY <2>1, <2>2, <2>3, <2>4, SizesAssumption DEF Taken
  <1>2. /\ count \in Nat /\ Len(buffer) + count <= Capacity
        /\ chunk.first + count - 1 \in Nat /\ chunk.first + count - 1 <= Size
        /\ chunk.first <= chunk.first + count - 1 + 1
        /\ chunk.first + count - 1 + 1 - chunk.first = count
        /\ chunk.first + count \in 1..(Size + 1) /\ chunk.first + count <= chunk.last + 1
    BY ZenonT(30), <1>1, FragmentFits
  <1> HIDE DEF count
  <1>3. /\ used \in Seq(1..Size) /\ Len(used) = Len(buffer) + count
        /\ Len(used) <= Capacity
    <2>1. more \in Seq(1..Size) /\ Len(more) = count
      <3> DEFINE last == chunk.first + count - 1
      <3>1. last \in Nat /\ last <= Size /\ chunk.first <= last + 1
            /\ last + 1 - chunk.first = count
        BY <1>2
      <3> HIDE DEF last
      <3>2. /\ Bytes(chunk.first, last) \in Seq(1..Size)
            /\ Len(Bytes(chunk.first, last)) = last + 1 - chunk.first
        BY <1>1, <3>1, BytesProperties
      <3> QED
        BY <3>1, <3>2 DEF last
    <2> HIDE DEF more
    <2>2. used \in Seq(1..Size) /\ Len(used) = Len(buffer) + count
      BY <1>1, <2>1, ConcatProperties
    <2> HIDE DEF used
    <2> QED
      BY <1>1, <1>2, <2>2
  <1>4. ~cancelled => /\ chunk.first = Taken + 1
                      /\ Taken + count <= Size
                      /\ device \o used \in Seq(1..Size)
                      /\ device \o used = Bytes(1, Taken + count)
                      /\ Len(device \o used) = Taken + count
    <2> SUFFICES ASSUME ~cancelled
                 PROVE  /\ chunk.first = Taken + 1
                        /\ Taken + count <= Size
                        /\ device \o used \in Seq(1..Size)
                        /\ device \o used = Bytes(1, Taken + count)
                        /\ Len(device \o used) = Taken + count
      OBVIOUS
    <2>1. device \o buffer = Bytes(1, Len(device) + Len(buffer))
      BY DEF IInv, InOrder
    <2>2. chunk.first = Taken + 1
      BY <1>1 DEF IInv, PositionKept, AtTaken
    <2>3. Taken + count <= Size /\ Len(device) + Len(buffer) + count <= Size
      BY <1>1, <1>2, <2>2
    <2>4. /\ device \o used = Bytes(1, Taken + count)
          /\ Len(device \o used) = Taken + count
      <3>1. more = Bytes(Taken + 1, Taken + 1 + count - 1)
        BY <2>2
      <3> HIDE DEF more
      <3> QED
        BY ZenonT(60), <1>1, <1>2, <2>1, <2>3, <3>1, AppendInOrder
    <2> HIDE DEF used
    <2>5. device \o used \in Seq(1..Size)
      BY <1>1, <1>3, ConcatProperties
    <2> QED
      BY <2>2, <2>3, <2>4, <2>5
  <1> HIDE DEF used
  <1>5. /\ chunk' = [chunk EXCEPT !.first = chunk.first + count]
        /\ \/ /\ buffer' = used /\ device' = device
              /\ UNCHANGED <<pc, ret, failed>>
           \/ /\ Full(Len(used))
              /\ device' = Written(used)
              /\ buffer' = <<>>
              /\ UNCHANGED <<pc, ret, failed>>
           \/ /\ buffer' = used /\ device' = device
              /\ failed' = TRUE
              /\ pc' = "check" /\ ret' = "WRITE_ERROR"
        /\ UNCHANGED <<faults, dlNow, startOffset, lastDlNow, lastFailureOffset,
                       http2, http2FailureCount, http2SslFallback, cancelled>>
    BY DEF AppendFragment, used, count, offsets, protocol
  <1>6. /\ chunk' \in [first : 1..(Size + 1), last : 0..Size]
        /\ chunk'.first = chunk.first + count /\ chunk'.last = chunk.last
        /\ chunk'.first <= chunk'.last + 1
    <2>1. chunk \in [first : 1..(Size + 1), last : 0..Size]
      BY DEF IInv, TypeOK
    <2>3. chunk'.first = chunk.first + count /\ chunk'.last = chunk.last
      BY <1>5, <2>1
    <2>4. chunk' \in [first : 1..(Size + 1), last : 0..Size]
      BY <1>2, <1>5, <2>1
    <2> QED
      BY <1>2, <2>3, <2>4
  <1>7. /\ buffer' \in Seq(1..Size) /\ Len(buffer') <= Capacity
        /\ device' \in Seq(1..Size) /\ Len(device') <= Size
        /\ \/ device' = device
           \/ ~cancelled /\ Full(Len(used)) /\ device' = device \o used
        /\ ~cancelled => /\ device' \o buffer' = device \o used
                         /\ Len(device') + Len(buffer') = Taken + count
                         /\ Taken' = Taken + count
    <2>1. CASE buffer' = used /\ device' = device
      <3>1. Len(device) + Len(used) = Taken + count
        BY <1>1, <1>2, <1>3
      <3> QED
        BY <1>1, <1>3, <2>1, <3>1 DEF Taken
    <2>2. CASE buffer' = <<>> /\ device' = Written(used) /\ Full(Len(used))
      <3>1. <<>> \in Seq(1..Size) /\ Len(<<>>) = 0
        OBVIOUS
      <3>2. CASE cancelled
        BY <1>1, <2>2, <3>1, <3>2 DEF Written
      <3>3. CASE ~cancelled
        <4>1. device' = device \o used
          BY <2>2, <3>3 DEF Written
        <4>2. (device \o used) \o <<>> = device \o used
          BY <1>4, <3>3, ConcatEmptySeq
        <4>3. /\ Len(device') = Taken + count /\ Len(buffer') = 0
              /\ device' \in Seq(1..Size)
          BY <1>4, <2>2, <3>3, <4>1
        <4>4. /\ Taken' = Taken + count /\ Len(device') + Len(buffer') = Taken + count
              /\ Len(device') <= Size
          BY <1>1, <1>2, <1>4, <3>3, <4>3, Taken' = Len(device') + Len(buffer') DEF Taken
        <4> QED
          BY <1>1, <2>2, <3>1, <3>3, <4>1, <4>2, <4>3, <4>4
      <3> QED
        BY <3>2, <3>3
    <2> QED
      BY <1>5, <2>1, <2>2
  <1>8. TypeOK'
    BY <1>5, <1>6, <1>7 DEF IInv, TypeOK
  <1>9. BoundsKept' /\ PositionKept'
    <2>1. /\ pc' \in {"append", "check"}
          /\ pc' = "check" => ret' = "WRITE_ERROR"
          /\ startOffset' = startOffset /\ cancelled' = cancelled
      BY <1>1, <1>5
    <2>2. BoundsKept'
      BY <1>1, <1>6, <1>7, <2>1 DEF BoundsKept
    <2>3. ~cancelled => Taken' <= Size /\ chunk'.first = Taken' + 1
      <3> DEFINE t == Taken
      <3>1. t \in Nat /\ t + 1 + count = t + count + 1
        BY <1>1, <1>2
      <3>2. ~cancelled => /\ Taken' = t + count /\ t + count <= Size
                          /\ chunk'.first = t + 1 + count
        BY <1>4, <1>6, <1>7
      <3> HIDE DEF t
      <3> QED
        BY <3>1, <3>2
    <2> QED
      BY <2>1, <2>2, <2>3 DEF PositionKept, AtTaken
  <1>10. FallbackKept'
    BY <1>1, <1>5 DEF IInv, FallbackKept
  <1>11. InOrder'
    <2>1. device' = Bytes(1, Len(device'))
      BY <1>4, <1>7 DEF IInv, InOrder
    <2>2. ~cancelled => device' \o buffer' = Bytes(1, Len(device') + Len(buffer'))
      BY <1>4, <1>7
    <2>3. cancelled' = cancelled
      BY <1>5
    <2> QED
      BY <2>1, <2>2, <2>3 DEF InOrder
  <1>12. AlignedWrites'
    <2>1. CASE device' = device
      BY <2>1 DEF IInv, AlignedWrites
    <2>2. CASE ~cancelled /\ Full(Len(used)) /\ device' = device \o used
      <3>1. Len(device') = Len(device) + Capacity /\ Len(device') <= Size
        <4>1. Len(device \o used) = Len(device) + Len(used)
          BY <1>1, <1>3, ConcatProperties
        <4>2. Len(used) = Capacity
          BY <2>2 DEF Full
        <4> QED
          BY <1>7, <2>2, <4>1, <4>2
      <3>2. PICK k \in 0..Len(device) : Len(device) = k * Capacity
        BY <1>1, <3>1 DEF IInv, AlignedWrites
      <3>3. k \in Nat /\ k + 1 \in 0..Len(device')
        <4> DEFINE n == Len(device)
        <4>1. n \in Nat /\ Capacity \in Nat \ {0} /\ k \in 0..n
          BY <1>1, <3>2
        <4> HIDE DEF n
        <4>2. k \in Nat /\ k + 1 \in 0..(n + Capacity)
          BY <4>1
        <4> QED
          BY <3>1, <4>2 DEF n
      <3>4. k * Capacity + Capacity = (k + 1) * Capacity
        BY <1>1, <3>3, NextMultiple
      <3>5. Len(device') = (k + 1) * Capacity
        BY <3>1, <3>2, <3>4
      <3> QED
        BY <3>3, <3>5 DEF AlignedWrites
    <2> QED
      BY <1>7, <2>1, <2>2
  <1> QED
    BY <1>8, <1>9, <1>10, <1>11, <1>12 DEF IInv

\* The callback returns, the attempt is judged, the user cancels, and the download
\* asks whether he did.
LEMMA ControlSteps ==
  ASSUME IInv, AppendReturns \/ Retry \/ Finish \/ WriteComplete \/ CancelDownload
  PROVE  IInv'
  <1>1. /\ UNCHANGED <<buffer, device>>
        /\ cancelled => cancelled'
        /\ pc # "complete"
    BY DEF AppendReturns, Retry, Finish, WriteComplete, CancelDownload, sink, Ended
  <1>2. /\ Taken' = Taken
        /\ Taken \in Nat /\ Len(buffer) \in Nat /\ Len(device) \in Nat
        /\ buffer' \in Seq(1..Size) /\ Len(buffer') <= Capacity
        /\ device' \in Seq(1..Size) /\ Len(device') <= Size
        /\ InOrder' /\ AlignedWrites'
    BY <1>1, SinkUntouched
  <1>3. TypeOK /\ BoundsKept /\ PositionKept /\ FallbackKept
    BY DEF IInv
  <1> USE SizesAssumption DEF offsets, protocol, sink
  <1>4. CASE AppendReturns
    <2>1. /\ pc = "append" /\ chunk.first > chunk.last
          /\ chunk.first <= chunk.last + 1 /\ startOffset <= chunk.last
          /\ chunk.first \in Nat /\ chunk.last \in 0..Size /\ startOffset \in 0..Size
          /\ ~cancelled => AtTaken /\ chunk.first = Taken + 1
      BY <1>3, <1>4 DEF AppendReturns, BoundsKept, PositionKept, AtTaken, TypeOK
    <2>2. /\ dlNow' \in 0..Size /\ startOffset + dlNow' = chunk.last
          /\ ~cancelled => startOffset + dlNow' = Taken
      <3> DEFINE first == chunk.first
                 last  == chunk.last
      <3>1. /\ first > last /\ first <= last + 1 /\ startOffset <= last
            /\ first \in Nat /\ last \in 0..Size /\ startOffset \in 0..Size
            /\ ~cancelled => first = Taken + 1
            /\ dlNow' = last - startOffset
        BY <1>4, <2>1 DEF AppendReturns
      <3> HIDE DEF first, last
      <3>2. dlNow' \in 0..Size /\ startOffset + dlNow' = last
        BY <3>1
      <3>3. ~cancelled => last = Taken
        BY <1>2, <3>1
      <3> QED
        BY <3>2, <3>3 DEF last
    <2>3. chunk' \in [first : 1..(Size + 1), last : 0..Size]
      BY <1>4 DEF AppendReturns, NoChunk
    <2>4. TypeOK'
      BY <1>2, <1>3, <1>4, <2>2, <2>3 DEF AppendReturns, TypeOK
    <2>5. pc' = "receive" /\ startOffset' = startOffset /\ cancelled' = cancelled
      BY <1>4 DEF AppendReturns
    <2>6. BoundsKept' /\ PositionKept'
      <3>1. chunk.last <= Size
        BY <2>1
      <3>2. BoundsKept'
        BY <1>2, <2>2, <2>5, <3>1 DEF BoundsKept
      <3>3. PositionKept'
        BY <1>2, <2>1, <2>2, <2>5 DEF PositionKept, AtTaken
      <3> QED
        BY <3>2, <3>3
    <2>7. FallbackKept'
      BY <1>3, <1>4 DEF AppendReturns, FallbackKept
    <2> QED
      BY <1>2, <2>4, <2>6, <2>7 DEF IInv
  <1>5. CASE Retry
    <2>1. /\ pc = "check" /\ ret # "WRITE_ERROR"
          /\ startOffset' = lastDlNow /\ pc' = "perform" /\ cancelled' = cancelled
          /\ ~cancelled => AtTaken /\ lastDlNow = Taken
      BY <1>3, <1>5 DEF Retry, Retried, RetriedWithProgress, PositionKept, AtTaken
    <2>2. /\ http2FailureCount \in 0..MAX_HTTP2_FAILURES /\ http2 \in BOOLEAN
          /\ http2 => http2FailureCount < MAX_HTTP2_FAILURES
          /\ ret = "HTTP2" => http2
      BY <1>3, <2>1 DEF TypeOK, FallbackKept
    <2>3. /\ http2FailureCount' \in 0..MAX_HTTP2_FAILURES
          /\ http2' => http2FailureCount' < MAX_HTTP2_FAILURES
      <3>1. /\ http2FailureCount' = IF ret = "HTTP2" THEN http2FailureCount + 1
                                                    ELSE http2FailureCount
            /\ http2' => http2 /\ http2FailureCount' < MAX_HTTP2_FAILURES
        BY <1>5 DEF Retry
      <3>2. http2FailureCount' \in 0..MAX_HTTP2_FAILURES
        BY <2>2, <3>1 DEF MAX_HTTP2_FAILURES
      <3> QED
        BY <3>1, <3>2
    <2>4. http2' \in BOOLEAN /\ http2SslFallback' \in BOOLEAN
      BY <1>5 DEF Retry
    <2>5. TypeOK'
      BY <1>2, <1>3, <1>5, <2>1, <2>3, <2>4 DEF Retry, TypeOK
    <2>6. BoundsKept' /\ PositionKept'
      BY <1>2, <2>1 DEF BoundsKept, PositionKept, AtTaken
    <2>7. FallbackKept'
      BY <2>1, <2>3 DEF FallbackKept
    <2> QED
      BY <1>2, <2>5, <2>6, <2>7 DEF IInv
  <1>6. CASE Finish
    <2>1. /\ pc = "check" /\ pc' \in {"flush", "aborted", "failed"}
          /\ pc' = "flush" => ret = "OK"
          /\ cancelled' = cancelled
      BY <1>6 DEF Finish
    <2>2. TypeOK'
      BY <1>2, <1>3, <1>6, <2>1 DEF Finish, TypeOK, Ended
    <2>3. BoundsKept' /\ PositionKept'
      BY <1>2, <1>3, <2>1 DEF BoundsKept, PositionKept, AtTaken
    <2>4. FallbackKept'
      BY <1>3, <1>6, <2>1 DEF Finish, FallbackKept
    <2> QED
      BY <1>2, <2>2, <2>3, <2>4 DEF IInv
  <1>7. CASE WriteComplete
    <2>1. /\ pc = "finalise" /\ pc' \in {"aborted", "complete"}
          /\ pc' = "complete" => ~cancelled
          /\ cancelled' = cancelled
      BY <1>7 DEF WriteComplete, MayHaveDropped
    <2>2. TypeOK'
      BY <1>2, <1>3, <1>7, <2>1 DEF WriteComplete, TypeOK, Ended
    <2>3. BoundsKept' /\ PositionKept'
      BY <1>1, <1>2, <1>3, <2>1 DEF BoundsKept, PositionKept, AtTaken
    <2>4. FallbackKept'
      BY <1>3, <1>7, <2>1 DEF WriteComplete, FallbackKept
    <2> QED
      BY <1>2, <2>2, <2>3, <2>4 DEF IInv
  <1>8. CASE CancelDownload
    <2>1. TypeOK'
      BY <1>2, <1>3, <1>8 DEF CancelDownload, TypeOK
    <2>2. BoundsKept' /\ PositionKept' /\ FallbackKept'
      BY <1>1, <1>2, <1>3, <1>8
         DEF CancelDownload, BoundsKept, PositionKept, FallbackKept
    <2> QED
      BY <1>2, <2>1, <2>2 DEF IInv
  <1> QED
    BY <1>4, <1>5, <1>6, <1>7, <1>8

\* The end of the image leaves the buffer.
LEMMA FlushSteps ==
  ASSUME IInv, FlushTail
  PROVE  IInv'
  <1>1. /\ TypeOK /\ BoundsKept /\ PositionKept /\ FallbackKept
        /\ InOrder /\ AlignedWrites
        /\ pc = "flush" /\ cancelled' = cancelled
        /\ ~cancelled => Taken = Size
        /\ UNCHANGED <<http2, http2FailureCount>>
    BY DEF IInv, FlushTail, PositionKept, AtTaken, protocol
  <1>2. /\ device \in Seq(1..Size) /\ buffer \in Seq(1..Size)
        /\ Size \in Nat /\ Len(device) <= Size
    BY <1>1, SizesAssumption DEF TypeOK, BoundsKept
  <1>3. CASE pc' = "failed"
    <2>1. UNCHANGED <<buffer, device>>
      BY <1>3 DEF FlushTail
    <2>2. /\ Taken' = Taken
          /\ buffer' \in Seq(1..Size) /\ Len(buffer') <= Capacity
          /\ device' \in Seq(1..Size) /\ Len(device') <= Size
          /\ InOrder' /\ AlignedWrites'
      BY <1>1, <2>1, SinkUntouched
    <2>3. TypeOK'
      BY <1>1, <1>3, <2>2 DEF FlushTail, TypeOK, Ended, offsets, protocol
    <2>4. BoundsKept' /\ PositionKept' /\ FallbackKept'
      BY <1>1, <1>2, <1>3, <2>2 DEF BoundsKept, PositionKept, AtTaken, FallbackKept
    <2> QED
      BY <2>2, <2>3, <2>4 DEF IInv
  <1>4. CASE pc' = "finalise"
    <2>1. /\ buffer' = <<>>
          /\ device' = IF cancelled THEN device ELSE device \o buffer
      BY <1>4 DEF FlushTail, BufferedTail, Written
    <2>2. <<>> \in Seq(1..Size) /\ Len(<<>>) = 0
      OBVIOUS
    <2>3. /\ device' \in Seq(1..Size) /\ Len(device') <= Size
          /\ device' = Bytes(1, Len(device'))
          /\ AlignedWrites'
          /\ ~cancelled => Len(device') = Size
      <3>1. CASE cancelled
        BY <1>1, <1>2, <2>1, <3>1 DEF InOrder, AlignedWrites
      <3>2. CASE ~cancelled
        <4>1. device \o buffer \in Seq(1..Size) /\ Len(device \o buffer) = Size
          BY <1>1, <1>2, <3>2, ConcatProperties DEF Taken
        <4>2. device \o buffer = Bytes(1, Size)
          BY <1>1, <3>2 DEF InOrder, Taken
        <4> QED
          BY <1>2, <2>1, <3>2, <4>1, <4>2 DEF AlignedWrites
      <3> QED
        BY <3>1, <3>2
    <2>4. TypeOK'
      BY <1>1, <1>4, <2>1, <2>2, <2>3, SizesAssumption
         DEF FlushTail, TypeOK, Ended, offsets, protocol
    <2>5. ~cancelled => Taken' = Size
      BY <1>2, <2>1, <2>2, <2>3, Taken' = Len(device') + Len(buffer') DEF Taken
    <2>6. BoundsKept' /\ PositionKept' /\ FallbackKept'
      BY <1>1, <1>2, <1>4, <2>1, <2>3, <2>5
         DEF BoundsKept, PositionKept, AtTaken, FallbackKept
    <2>7. InOrder'
      <3>1. device' \o buffer' = device'
        BY <2>1, <2>3, ConcatEmptySeq
      <3>2. Len(device') + Len(buffer') = Len(device')
        BY <2>1, <2>2, <2>3
      <3> QED
        BY <2>3, <3>1, <3>2 DEF InOrder
    <2> QED
      BY <2>3, <2>4, <2>6, <2>7 DEF IInv
  <1> QED
    BY <1>3, <1>4 DEF FlushTail

\* Nothing happens.
LEMMA StutterSteps ==
  ASSUME IInv, UNCHANGED vars
  PROVE  IInv'
  <1> USE DEF vars, offsets, protocol, sink
  <1>1. TypeOK'
    BY DEF IInv, TypeOK
  <1>2. BoundsKept' /\ PositionKept'
    BY DEF IInv, BoundsKept, PositionKept, AtTaken, Taken
  <1>3. FallbackKept' /\ InOrder' /\ AlignedWrites'
    BY DEF IInv, FallbackKept, InOrder, AlignedWrites
  <1> QED
    BY <1>1, <1>2, <1>3 DEF IInv

-------------------------------------------------------------------------------
(* What follows.                                                           *)

\* The invariant holds throughout every download.
THEOREM Invariance == Spec => []IInv
  <1>1. Init => IInv
    BY InitInvariant
  <1>2. IInv /\ [Next]_vars => IInv'
    <2> SUFFICES ASSUME IInv, [Next]_vars PROVE IInv'
      OBVIOUS
    <2> QED
      BY AttemptSteps, AppendSteps, ControlSteps, FlushSteps, StutterSteps
         DEF Next, DownloadThread
  <1> QED
    BY <1>1, <1>2, PTL DEF Spec

\* Every variable of the download stays within its type; the buffer never overflows.
THEOREM TypeCorrect == Spec => []TypeOK
  <1>1. IInv => TypeOK
    BY DEF IInv
  <1> QED
    BY <1>1, Invariance, PTL

\* However the connection breaks, the device gets each byte once, in order, and every
\* write but the last starts at a multiple of the buffer's size.
THEOREM DeviceInOrder == Spec => []DeviceFollowsImage
  <1>1. IInv => DeviceFollowsImage
    BY DEF IInv, DeviceFollowsImage
  <1> QED
    BY <1>1, Invariance, PTL

\* A complete download has written all of the image.
THEOREM CompleteDownload == Spec => []CompleteMeansWhole
  <1>1. IInv => CompleteMeansWhole
    <2> SUFFICES ASSUME IInv, pc = "complete" PROVE device = Bytes(1, Size)
      BY DEF CompleteMeansWhole
    <2>1. Len(device) = Size /\ device = Bytes(1, Len(device))
      BY DEF IInv, BoundsKept, InOrder
    <2> QED
      BY <2>1
  <1> QED
    BY <1>1, Invariance, PTL
================================================================================
