-------------------------- MODULE BodySpoolProofs --------------------------
(* Proofs that hold for every alphabet, every body, every capture limit    *)
(* and every buffer size.                                                  *)
EXTENDS BodySpool, SequenceTheorems, TLAPS

(* A prefix of a sequence is a sequence of the length asked for.           *)
LEMMA PrefixFacts ==
    ASSUME NEW S, NEW b \in Seq(S), NEW p \in 0 .. Len(b)
    PROVE  /\ Prefix(b, p) \in Seq(S)
           /\ Len(Prefix(b, p)) = p
<1>1. \A i \in 1 .. p : b[i] \in S
  BY LenProperties
<1> QED
  BY <1>1, SubSeqProperties, LenProperties DEF Prefix

(* One Read of n bytes at p extends the prefix of length p to p + n: what  *)
(* makes the file the body, whatever the sizes of the chunks.              *)
LEMMA ChunkExtendsPrefix ==
    ASSUME NEW S, NEW b \in Seq(S), NEW p \in 0 .. Len(b), NEW n \in 0 .. Len(b) - p
    PROVE  /\ SubSeq(b, p + 1, p + n) \in Seq(S)
           /\ Len(SubSeq(b, p + 1, p + n)) = n
           /\ Prefix(b, p) \o SubSeq(b, p + 1, p + n) = Prefix(b, p + n)
<1>1. Len(b) \in Nat /\ p \in Nat /\ n \in Nat /\ p + n <= Len(b)
  BY LenProperties
<1>2. \A i \in p + 1 .. p + n : b[i] \in S
  BY <1>1, LenProperties
<1>3. /\ SubSeq(b, p + 1, p + n) \in Seq(S)
      /\ Len(SubSeq(b, p + 1, p + n)) = n
  <2>1. p + 1 \in Int /\ p + n \in Int
    BY <1>1
  <2>2. Len(SubSeq(b, p + 1, p + n)) =
          IF p + 1 <= p + n THEN (p + n) - (p + 1) + 1 ELSE 0
    BY <1>2, <2>1, SubSeqProperties
  <2>3. SubSeq(b, p + 1, p + n) \in Seq(S)
    BY <1>2, <2>1, SubSeqProperties
  <2> QED
    BY <1>1, <2>2, <2>3
<1>4. Prefix(b, p) \o SubSeq(b, p + 1, p + n) = Prefix(b, p + n)
  <2>1. /\ 1 \in 1 .. Len(b) + 1
        /\ p \in 1 - 1 .. Len(b)
        /\ p + n \in p .. Len(b)
    BY <1>1
  <2> QED
    BY <2>1, ConcatAdjacentSubSeq DEF Prefix
<1> QED
  BY <1>3, <1>4

(* The first r bytes of a chunk are the r bytes of the body at p.          *)
LEMMA PrefixOfChunk ==
    ASSUME NEW S, NEW b \in Seq(S), NEW p \in 0 .. Len(b), NEW n \in 0 .. Len(b) - p,
           NEW r \in 0 .. n
    PROVE  Prefix(SubSeq(b, p + 1, p + n), r) = SubSeq(b, p + 1, p + r)
<1> DEFINE c == SubSeq(b, p + 1, p + n)
<1>1. Len(b) \in Nat /\ p \in Nat /\ n \in Nat /\ r \in Nat /\ p + n <= Len(b)
  BY LenProperties
<1>2. c \in Seq(S) /\ Len(c) = n
  BY ChunkExtendsPrefix
<1>3. Prefix(c, r) \in Seq(S) /\ Len(Prefix(c, r)) = r
  BY <1>1, <1>2, PrefixFacts
<1>4. r \in 0 .. Len(b) - p
  BY <1>1
<1>5. SubSeq(b, p + 1, p + r) \in Seq(S) /\ Len(SubSeq(b, p + 1, p + r)) = r
  BY <1>4, ChunkExtendsPrefix
<1>6. ASSUME NEW i \in 1 .. r
      PROVE  Prefix(c, r)[i] = SubSeq(b, p + 1, p + r)[i]
  <2>1. Prefix(c, r)[i] = c[i]
    <3>1. \A j \in 1 .. r : c[j] \in S
      BY <1>1, <1>2, LenProperties
    <3>2. i \in 1 .. r - 1 + 1 /\ 1 + i - 1 = i
      BY <1>1
    <3> HIDE DEF c
    <3> QED
      BY <1>1, <3>1, <3>2, SubSeqProperties DEF Prefix
  <2>2. c[i] = b[p + i]
    <3>1. \A j \in p + 1 .. p + n : b[j] \in S
      BY <1>1, LenProperties
    <3>2. i \in 1 .. (p + n) - (p + 1) + 1 /\ (p + 1) + i - 1 = p + i
      BY <1>1
    <3> QED
      BY <1>1, <3>1, <3>2, SubSeqProperties
  <2>3. SubSeq(b, p + 1, p + r)[i] = b[p + i]
    <3>1. \A j \in p + 1 .. p + r : b[j] \in S
      BY <1>1, LenProperties
    <3>2. i \in 1 .. (p + r) - (p + 1) + 1 /\ (p + 1) + i - 1 = p + i
      BY <1>1
    <3> QED
      BY <1>1, <3>1, <3>2, SubSeqProperties
  <2> QED
    BY <2>1, <2>2, <2>3
<1> HIDE DEF c
<1>7. \A i \in 1 .. Len(Prefix(c, r)) : Prefix(c, r)[i] = SubSeq(b, p + 1, p + r)[i]
  BY <1>3, <1>6
<1>8. Prefix(c, r) = SubSeq(b, p + 1, p + r)
  BY <1>3, <1>5, <1>7, SeqEqual
<1> QED
  BY <1>8 DEF c

----------------------------------------------------------------------------
(* The inductive invariant: until an error, file and size are what Read    *)
(* handed out; the end of the loop is the end of the body; the reopened    *)
(* file only exists for a body that was spooled in full.                   *)
SpoolInv ==
    /\ TypeOK
    /\ pc = "create" => pos = 0 /\ captured = << >> /\ ~named
    /\ CapturedIsPrefix
    /\ pc # "error" => disk = Prefix(body, pos) /\ size = pos
    /\ pc \in {"close", "ok", "cleaned"} => pos = Len(body)
    /\ pc \in {"ok", "cleaned"} => truncated = (size > MaxCapture)
    /\ pc \notin {"ok", "cleaned"} => reader = "none"
    /\ Len(delivered) <= Len(body)
    /\ delivered = Prefix(body, Len(delivered))
    /\ NoFileLeftBehind

(* The bytes of the bodies are bytes, so their lengths are numbers.        *)
LEMMA BodyFacts ==
    ASSUME TypeOK
    PROVE  /\ body \in Seq(Byte)
           /\ Len(body) \in Nat
           /\ pos \in Nat
           /\ pos <= Len(body)
BY SpoolAssumption, LenProperties DEF TypeOK

(* What a Read of n bytes may count on.                                    *)
LEMMA ReadableFacts ==
    ASSUME TypeOK, NEW n \in Readable
    PROVE  /\ n \in Nat
           /\ n \in 0 .. Len(body) - pos
           /\ pos + n \in 0 .. Len(body)
BY BodyFacts, SpoolAssumption DEF Readable, Minimum

(* Capturing a chunk keeps the capture the prefix of what was read.        *)
LEMMA CaptureChunkExtends ==
    ASSUME TypeOK, NEW n \in Readable,
           captured = Prefix(body, Minimum(pos, MaxCapture))
    PROVE  CaptureChunk(Chunk(n)) = Prefix(body, Minimum(pos + n, MaxCapture))
<1>1. /\ body \in Seq(Byte) /\ Len(body) \in Nat /\ pos \in Nat /\ pos <= Len(body)
      /\ n \in Nat /\ n \in 0 .. Len(body) - pos /\ pos \in 0 .. Len(body)
  BY BodyFacts, ReadableFacts DEF TypeOK
<1>2. Minimum(pos, MaxCapture) \in 0 .. Len(body)
  BY <1>1, SpoolAssumption DEF Minimum
<1>3. Len(captured) = Minimum(pos, MaxCapture)
  BY <1>1, <1>2, PrefixFacts
<1>4. Len(Chunk(n)) = n
  BY <1>1, ChunkExtendsPrefix DEF Chunk
<1>5. CASE Len(captured) < MaxCapture
  <2> DEFINE k == Minimum(MaxCapture - Len(captured), Len(Chunk(n)))
  <2>1. /\ Len(captured) = pos /\ Minimum(pos, MaxCapture) = pos
        /\ k \in 0 .. n /\ k \in 0 .. Len(body) - pos
        /\ pos + k = Minimum(pos + n, MaxCapture)
    BY <1>1, <1>3, <1>4, <1>5, SpoolAssumption DEF Minimum
  <2>2. CaptureChunk(Chunk(n)) = captured \o Prefix(Chunk(n), k)
    BY <1>5 DEF CaptureChunk
  <2> HIDE DEF k
  <2>3. Prefix(Chunk(n), k) = SubSeq(body, pos + 1, pos + k)
    BY <1>1, <2>1, PrefixOfChunk DEF Chunk
  <2>4. Prefix(body, pos) \o SubSeq(body, pos + 1, pos + k) = Prefix(body, pos + k)
    <3>1. body \in Seq(Byte) /\ pos \in 0 .. Len(body) /\ k \in 0 .. Len(body) - pos
      BY <1>1, <2>1
    <3> QED
      BY <3>1, ChunkExtendsPrefix
  <2> QED
    BY <2>1, <2>2, <2>3, <2>4
<1>6. CASE ~(Len(captured) < MaxCapture)
  <2>1. Minimum(pos, MaxCapture) = Minimum(pos + n, MaxCapture)
    BY <1>1, <1>3, <1>6, SpoolAssumption DEF Minimum
  <2> QED
    BY <1>6, <2>1 DEF CaptureChunk
<1> QED
  BY <1>5, <1>6

(* What every Read that is written in full does to the spooled data.       *)
LEMMA SpoolStep ==
    ASSUME TypeOK, NEW n \in Readable, Spool(n),
           captured = Prefix(body, Minimum(pos, MaxCapture)),
           disk = Prefix(body, pos), size = pos
    PROVE  /\ pos' = pos + n /\ pos' \in 0 .. Len(body)
           /\ size' = pos'
           /\ disk' = Prefix(body, pos') /\ disk' \in Seq(Byte)
           /\ captured' = Prefix(body, Minimum(pos', MaxCapture)) /\ captured' \in Seq(Byte)
<1>1. /\ body \in Seq(Byte) /\ Len(body) \in Nat /\ pos \in 0 .. Len(body)
      /\ n \in Nat /\ n \in 0 .. Len(body) - pos /\ pos + n \in 0 .. Len(body)
  BY BodyFacts, ReadableFacts
<1>2. disk' = Prefix(body, pos + n)
  BY <1>1, ChunkExtendsPrefix DEF Spool, Chunk
<1>3. captured' = Prefix(body, Minimum(pos + n, MaxCapture))
  BY CaptureChunkExtends DEF Spool
<1>4. Minimum(pos + n, MaxCapture) \in 0 .. Len(body)
  BY <1>1, SpoolAssumption DEF Minimum
<1>5. /\ Prefix(body, pos + n) \in Seq(Byte)
      /\ Prefix(body, Minimum(pos + n, MaxCapture)) \in Seq(Byte)
  BY <1>1, <1>4, PrefixFacts
<1> QED
  BY <1>1, <1>2, <1>3, <1>5 DEF Spool

(* The invariant holds initially.                                          *)
LEMMA SpoolInit == Init => SpoolInv
<1> SUFFICES ASSUME Init PROVE SpoolInv
  OBVIOUS
<1>1. body \in Seq(Byte) /\ Len(body) \in Nat
  BY SpoolAssumption, LenProperties DEF Init
<1>2. << >> \in Seq(Byte) /\ Len(<< >>) = 0
  OBVIOUS
<1>3. Prefix(body, 0) = << >>
  BY SubSeqEmpty DEF Prefix
<1>4. 0 \in 0 .. Len(body)
  BY <1>1
<1>5. TypeOK
  BY <1>2, <1>4 DEF Init, TypeOK
<1> QED
  BY <1>1, <1>2, <1>3, <1>5 DEF Init, SpoolInv, CapturedIsPrefix, NoFileLeftBehind

(* Every step preserves it, one action at a time.                          *)
LEMMA SpoolNext == SpoolInv /\ [Next]_vars => SpoolInv'
<1> SUFFICES ASSUME SpoolInv, [Next]_vars PROVE SpoolInv'
  OBVIOUS
<1>0. /\ TypeOK /\ body \in Seq(Byte) /\ Len(body) \in Nat /\ pos \in Nat
      /\ pos <= Len(body)
  BY BodyFacts DEF SpoolInv
<1>1. CASE CreateTemp
  <2>1. Minimum(0, MaxCapture) = 0
    BY SpoolAssumption DEF Minimum
  <2>2. Prefix(body, 0) = << >>
    BY SubSeqEmpty DEF Prefix
  <2> QED
    BY <1>1, <2>1, <2>2
    DEF CreateTemp, SpoolInv, TypeOK, CapturedIsPrefix, NoFileLeftBehind, result, copy
<1>2. CASE CreateTempFails
  BY <1>2
  DEF CreateTempFails, SpoolInv, TypeOK, CapturedIsPrefix, NoFileLeftBehind, result, copy
<1>3. ASSUME NEW n \in Readable, ReadMore(n) PROVE SpoolInv'
  <2>1. /\ pos' = pos + n /\ pos' \in 0 .. Len(body) /\ size' = pos'
        /\ disk' = Prefix(body, pos') /\ disk' \in Seq(Byte)
        /\ captured' = Prefix(body, Minimum(pos', MaxCapture)) /\ captured' \in Seq(Byte)
    BY <1>0, <1>3, SpoolStep DEF ReadMore, SpoolInv, CapturedIsPrefix
  <2> QED
    BY <1>3, <2>1
    DEF ReadMore, SpoolInv, TypeOK, CapturedIsPrefix, NoFileLeftBehind, copy
<1>4. ASSUME NEW n \in Readable, ReadEOF(n) PROVE SpoolInv'
  <2>1. /\ pos' = pos + n /\ pos' \in 0 .. Len(body) /\ size' = pos'
        /\ disk' = Prefix(body, pos') /\ disk' \in Seq(Byte)
        /\ captured' = Prefix(body, Minimum(pos', MaxCapture)) /\ captured' \in Seq(Byte)
    BY <1>0, <1>4, SpoolStep DEF ReadEOF, SpoolInv, CapturedIsPrefix
  <2> QED
    BY <1>4, <2>1
    DEF ReadEOF, SpoolInv, TypeOK, CapturedIsPrefix, NoFileLeftBehind, copy
<1>5. ASSUME NEW n \in Readable, ReadFails(n) PROVE SpoolInv'
  <2>1. /\ pos' = pos + n /\ pos' \in 0 .. Len(body) /\ size' = pos'
        /\ disk' = Prefix(body, pos') /\ disk' \in Seq(Byte)
        /\ captured' = Prefix(body, Minimum(pos', MaxCapture)) /\ captured' \in Seq(Byte)
    BY <1>0, <1>5, SpoolStep DEF ReadFails, SpoolInv, CapturedIsPrefix
  <2> QED
    BY <1>5, <2>1
    DEF ReadFails, RemoveFile, SpoolInv, TypeOK, CapturedIsPrefix, NoFileLeftBehind, copy
<1>6. ASSUME NEW n \in Readable, NEW w \in 0 .. n, WriteFails(n, w) PROVE SpoolInv'
  <2>1. n \in Nat /\ n \in 0 .. Len(body) - pos /\ pos + n \in 0 .. Len(body)
    BY <1>0, ReadableFacts
  <2>2. Chunk(n) \in Seq(Byte) /\ Len(Chunk(n)) = n
    BY <1>0, <2>1, ChunkExtendsPrefix DEF Chunk
  <2>3. Prefix(Chunk(n), w) \in Seq(Byte)
    BY <2>1, <2>2, PrefixFacts
  <2>4. disk' \in Seq(Byte)
    BY <1>6, <1>0, <2>3, ConcatProperties DEF WriteFails, TypeOK
  <2> QED
    BY <1>6, <2>1, <2>4
    DEF WriteFails, RemoveFile, SpoolInv, TypeOK, CapturedIsPrefix, NoFileLeftBehind, result, copy
<1>7. CASE CloseFile
  <2>1. (size > MaxCapture) \in BOOLEAN
    OBVIOUS
  <2> QED
    BY <1>7, <2>1
    DEF CloseFile, SpoolInv, TypeOK, CapturedIsPrefix, NoFileLeftBehind, copy
<1>8. CASE CloseFails
  BY <1>8
  DEF CloseFails, RemoveFile, SpoolInv, TypeOK, CapturedIsPrefix, NoFileLeftBehind, result, copy
<1>9. CASE Open
  BY <1>9
  DEF Open, SpoolInv, TypeOK, CapturedIsPrefix, NoFileLeftBehind, result
<1>10. ASSUME NEW n \in 1 .. Len(disk), Deliver(n) PROVE SpoolInv'
  <2>1. /\ Len(disk) \in Nat /\ Len(delivered) \in Nat
        /\ n \in 1 .. Len(disk) - Len(delivered)
    BY <1>0, <1>10, LenProperties DEF Deliver, TypeOK
  <2>2. disk = body
    BY <1>0, <1>10, SubSeqFull DEF Deliver, SpoolInv, Prefix
  <2>3. /\ Len(delivered) \in 0 .. Len(body)
        /\ n \in 0 .. Len(body) - Len(delivered)
        /\ Len(delivered) + n \in 0 .. Len(body)
    BY <1>0, <2>1, <2>2 DEF SpoolInv
  <2>4. delivered' = Prefix(body, Len(delivered) + n)
    <3> DEFINE d == Len(delivered)
    <3>1. delivered = Prefix(body, d)
      BY DEF SpoolInv
    <3>2. delivered' = delivered \o SubSeq(body, d + 1, d + n)
      BY <1>10, <2>2 DEF Deliver
    <3>3. d \in 0 .. Len(body) /\ n \in 0 .. Len(body) - d
      BY <2>3
    <3> HIDE DEF d
    <3>4. Prefix(body, d) \o SubSeq(body, d + 1, d + n) = Prefix(body, d + n)
      BY <1>0, <3>3, ChunkExtendsPrefix
    <3> QED
      BY <3>1, <3>2, <3>4 DEF d
  <2>5. delivered' \in Seq(Byte) /\ Len(delivered') = Len(delivered) + n
    BY <1>0, <2>3, <2>4, PrefixFacts
  <2>6. delivered' = Prefix(body', Len(delivered')) /\ Len(delivered') <= Len(body')
    <3>1. body' = body
      BY <1>10 DEF Deliver
    <3>2. delivered' = Prefix(body, Len(delivered'))
      BY <2>4, <2>5
    <3> QED
      BY <1>0, <2>3, <2>5, <3>1, <3>2
  <2>7. TypeOK'
    BY <1>0, <1>10, <2>5 DEF Deliver, TypeOK, result
  <2> QED
    BY <1>10, <2>6, <2>7
    DEF Deliver, SpoolInv, CapturedIsPrefix, NoFileLeftBehind, result
<1>11. CASE Cleanup
  BY <1>11
  DEF Cleanup, RemoveFile, SpoolInv, TypeOK, CapturedIsPrefix, NoFileLeftBehind, result, copy
<1>12. CASE UNCHANGED vars
  BY <1>12
  DEF vars, SpoolInv, TypeOK, CapturedIsPrefix, NoFileLeftBehind
<1> QED
  BY <1>1, <1>2, <1>3, <1>4, <1>5, <1>6, <1>7, <1>8, <1>9, <1>10, <1>11, <1>12
  DEF Next, ReadMoreStep, ReadEOFStep, ReadFailsStep, WriteFailsStep, DeliverStep, Finished

(* Every reachable state of spoolBody satisfies the invariant.             *)
THEOREM SpoolInvariant == Spec => []SpoolInv
<1>1. Init => SpoolInv
  BY SpoolInit
<1>2. SpoolInv /\ [Next]_vars => SpoolInv'
  BY SpoolNext
<1> QED
  BY <1>1, <1>2, PTL DEF Spec

(* spoolBody keeps its state well typed: in particular it never counts     *)
(* more bytes than the body has.                                           *)
THEOREM SpoolTypeCorrect == Spec => []TypeOK
<1>1. SpoolInv => TypeOK
  BY DEF SpoolInv
<1> QED
  BY <1>1, SpoolInvariant, PTL

(* The capture is the prefix of what was read, for every chunking.         *)
THEOREM SpoolCapturesPrefix == Spec => []CapturedIsPrefix
<1>1. SpoolInv => CapturedIsPrefix
  BY DEF SpoolInv
<1> QED
  BY <1>1, SpoolInvariant, PTL

(* The truncation flag is exact, for every limit and every body.           *)
THEOREM SpoolTruncationExact == Spec => []TruncatedIsExact
<1>1. SpoolInv => TruncatedIsExact
  <2> SUFFICES ASSUME SpoolInv, pc \in {"ok", "cleaned"}
               PROVE  size = Len(body) /\ (truncated <=> captured # body)
    BY DEF TruncatedIsExact
  <2>1. body \in Seq(Byte) /\ Len(body) \in Nat /\ size = Len(body)
    BY BodyFacts DEF SpoolInv
  <2>2. captured = Prefix(body, Minimum(Len(body), MaxCapture))
    BY DEF SpoolInv, CapturedIsPrefix
  <2>3. truncated = (Len(body) > MaxCapture)
    BY <2>1 DEF SpoolInv
  <2>4. CASE Len(body) > MaxCapture
    <3>1. /\ Minimum(Len(body), MaxCapture) = MaxCapture
          /\ MaxCapture \in 0 .. Len(body)
      BY <2>1, <2>4, SpoolAssumption DEF Minimum
    <3>2. Len(captured) = MaxCapture
      BY <2>1, <2>2, <3>1, PrefixFacts
    <3>3. captured # body
      BY <2>1, <2>4, <3>2, SpoolAssumption
    <3> QED
      BY <2>1, <2>3, <2>4, <3>3
  <2>5. CASE ~(Len(body) > MaxCapture)
    <3>1. Minimum(Len(body), MaxCapture) = Len(body)
      BY <2>1, <2>5, SpoolAssumption DEF Minimum
    <3>2. captured = body
      BY <2>1, <2>2, <3>1, SubSeqFull DEF Prefix
    <3> QED
      BY <2>1, <2>3, <2>5, <3>2
  <2> QED
    BY <2>4, <2>5
<1> QED
  BY <1>1, SpoolInvariant, PTL

(* What is sent on is what was received, for every chunking of both        *)
(* copies, also after Cleanup.                                             *)
THEOREM SpoolCopyFaithful == Spec => []CopyIsFaithful
<1>1. SpoolInv => CopyIsFaithful
  <2> SUFFICES ASSUME SpoolInv PROVE CopyIsFaithful
    OBVIOUS
  <2>1. body \in Seq(Byte) /\ Len(body) \in Nat
    BY BodyFacts DEF SpoolInv
  <2>2. reader = "open" => disk = body /\ size = Len(body)
    BY <2>1, SubSeqFull DEF SpoolInv, Prefix
  <2> QED
    BY <2>2 DEF SpoolInv, CopyIsFaithful
<1> QED
  BY <1>1, SpoolInvariant, PTL

(* No temporary file survives spoolBody and Cleanup unless os.Remove       *)
(* failed.                                                                 *)
THEOREM SpoolLeavesNoFile == Spec => []NoFileLeftBehind
<1>1. SpoolInv => NoFileLeftBehind
  BY DEF SpoolInv
<1> QED
  BY <1>1, SpoolInvariant, PTL
=============================================================================
