------------------------- MODULE H264Reader_proofs -------------------------
(***************************************************************************)
(* Proof that the reader's state keeps its type for every file of bytes   *)
(* and every MAX_BUFFER_SIZE above 4.  The conjunct that matters is       *)
(* Len(buf) < MaxBuffer: ReadOneNalu writes m_buf[index] only after its   *)
(* full-buffer check, so no write ever lands outside the malloc'd buffer, *)
(* whatever the file and however long its NAL units are.                  *)
(***************************************************************************)
EXTENDS H264Reader, SequenceTheorems, TLAPS

USE ReaderAssumption

Bytes == 0..255

\* Every frame and parameter set the reader builds from a byte string is a
\* byte string.
LEMMA UnitIsBytes ==
  ASSUME NEW b \in Seq(Bytes), NEW n \in {3, 4}
  PROVE  /\ UnitBytes(b, n) \in Seq(Bytes)
         /\ StartCode3 \o UnitBytes(b, n) \in Seq(Bytes)
         /\ StartCode4 \o UnitBytes(b, n) \in Seq(Bytes)
<1>1. UnitBytes(b, n) \in Seq(Bytes)
  <2>1. CASE Len(b) - n >= 1
    BY <2>1, SubSeqProperties DEF UnitBytes
  <2>2. CASE Len(b) - n < 1
    BY <2>2, EmptySeq DEF UnitBytes
  <2>. QED  BY <2>1, <2>2
<1>2. StartCode3 \in Seq(Bytes) /\ StartCode4 \in Seq(Bytes)
  BY DEF StartCode3, StartCode4, Bytes
<1>. QED  BY <1>1, <1>2, ConcatProperties

\* What DummyH264Encoder::Encode returns is always one of its four results.
LEMMA EncodeResult ==
  ASSUME NEW cb, NEW buffer
  PROVE  Encode(cb, buffer) \in {"UNINITIALIZED", "ERR_PARAMETER", "key", "delta"}
BY DEF Encode

\* The start-code dispatch keeps every variable it writes in its type.
LEMMA BoundaryType ==
  ASSUME TypeOK, NEW b \in Seq(Bytes), NEW n \in {3, 4}, Boundary(b, n)
  PROVE  /\ buf' = <<>>
         /\ sps' \in Seq(Bytes) /\ pps' \in Seq(Bytes)
         /\ prev' \in Seq(Bytes) /\ last' \in Seq(Bytes)
         /\ thread' \in {"none", "loop", "read", "exited"}
         /\ encoded' \in {"none", "UNINITIALIZED", "ERR_PARAMETER", "key", "delta"}
<1> DEFINE code == IF n = 4 THEN StartCode4 ELSE StartCode3
           unit == UnitBytes(b, n)
           type == NalType(b[1])
<1>1. code \o unit \in Seq(Bytes)
  BY UnitIsBytes
<1>2. sps \o pps \o code \o unit \in Seq(Bytes)
  BY <1>1, ConcatProperties DEF TypeOK, Bytes
<1>3. buf' = <<>>
  BY DEF Boundary
<1>4. CASE type = 1 \/ type = 5
  <2>1. \E d \in {code \o unit, sps \o pps \o code \o unit} :
          Emit(d) /\ thread' = "loop" /\ UNCHANGED <<sps, pps>>
    <3>1. CASE type = 1
      BY <3>1 DEF Boundary
    <3>2. CASE type = 5
      BY <3>2 DEF Boundary
    <3>. QED  BY <1>4, <3>1, <3>2
  <2>1a. /\ prev' = last
         /\ last' \in {code \o unit, sps \o pps \o code \o unit}
         /\ encoded' = Encode(callback, InputFrame(last'))
         /\ thread' = "loop"
    BY <2>1 DEF Emit
  <2>2. encoded' \in {"UNINITIALIZED", "ERR_PARAMETER", "key", "delta"}
    BY <2>1a, EncodeResult
  <2>3. sps' \in Seq(Bytes) /\ pps' \in Seq(Bytes) /\ prev' \in Seq(Bytes)
    BY <2>1, <2>1a DEF TypeOK, Bytes
  <2>4. last' \in Seq(Bytes)
    BY <1>1, <1>2, <2>1a
  <2>. QED  BY <1>3, <2>1a, <2>2, <2>3, <2>4
<1>5. CASE type = 7
  <2>1. sps' = code \o unit /\ UNCHANGED <<pps, prev, last, encoded, thread>>
    BY <1>5 DEF Boundary
  <2>. QED  BY <1>1, <1>3, <2>1 DEF TypeOK, Bytes
<1>6. CASE type = 8
  <2>1. pps' = code \o unit /\ UNCHANGED <<sps, prev, last, encoded, thread>>
    BY <1>6 DEF Boundary
  <2>. QED  BY <1>1, <1>3, <2>1 DEF TypeOK, Bytes
<1>7. CASE type \notin {1, 5, 7, 8}
  <2>1. UNCHANGED <<sps, pps, prev, last, encoded, thread>>
    BY <1>7 DEF Boundary
  <2>. QED  BY <1>3, <2>1 DEF TypeOK, Bytes
<1>. QED  BY <1>4, <1>5, <1>6, <1>7

\* One iteration of ReadOneNalu's loop.
LEMMA ReadStepType ==
  ASSUME TypeOK, ReadStep
  PROVE  TypeOK'
<1>1. file \in Seq(Bytes) /\ buf \in Seq(Bytes) /\ fpos \in 0..Len(file)
  <2>1. file \in Files \cup {<<>>}
    BY DEF TypeOK
  <2>2. file \in Seq(Bytes)
    <3>1. CASE file \in Files
      BY <3>1 DEF Bytes
    <3>2. CASE file = <<>>
      BY <3>2, EmptySeq
    <3>. QED  BY <2>1, <3>1, <3>2
  <2>. QED  BY <2>2 DEF TypeOK, Bytes
<1>2. CASE fpos = Len(file)
  BY <1>2 DEF ReadStep, TypeOK
<1>3. CASE fpos # Len(file)
  <2> DEFINE ch == file[fpos + 1]
             index == Len(buf)
             b == Append(buf, ch)
  <2>1. ch \in Bytes /\ b \in Seq(Bytes) /\ Len(b) = index + 1
    BY <1>1, <1>3
  <2>2. fpos' = fpos + 1 /\ fpos' \in 0..Len(file)
    BY <1>1, <1>3 DEF ReadStep
  <2>3. UNCHANGED <<file, started, stop, callback>>
    BY DEF ReadStep
  <2>4. CASE index >= MaxBuffer - 1
    BY <1>3, <2>2, <2>3, <2>4 DEF ReadStep, TypeOK
  <2>5. CASE /\ ~(index >= MaxBuffer - 1)
             /\ \/ index > 3 /\ ch = 1 /\ b[index] = 0 /\ b[index - 1] = 0
                   /\ b[index - 2] = 0
                \/ index > 3 /\ ch = 1 /\ b[index] = 0 /\ b[index - 1] = 0
    <3>1. \E n \in {3, 4} : Boundary(b, n)
      BY <1>3, <2>5 DEF ReadStep
    <3>2. /\ buf' = <<>>
          /\ sps' \in Seq(Bytes) /\ pps' \in Seq(Bytes)
          /\ prev' \in Seq(Bytes) /\ last' \in Seq(Bytes)
          /\ thread' \in {"none", "loop", "read", "exited"}
          /\ encoded' \in {"none", "UNINITIALIZED", "ERR_PARAMETER", "key", "delta"}
      BY <2>1, <3>1, BoundaryType
    <3>. QED  BY <2>2, <2>3, <3>2 DEF TypeOK, Bytes
  <2>6. CASE /\ ~(index >= MaxBuffer - 1)
             /\ ~(index > 3 /\ ch = 1 /\ b[index] = 0 /\ b[index - 1] = 0)
    <3>1. buf' = b /\ UNCHANGED <<sps, pps, prev, last, encoded, thread>>
      BY <1>3, <2>6 DEF ReadStep
    <3>2. Len(buf') < MaxBuffer
      BY <2>1, <2>6, <3>1
    <3>. QED  BY <2>1, <2>2, <2>3, <3>1, <3>2 DEF TypeOK, Bytes
  <2>. QED  BY <2>4, <2>5, <2>6
<1>. QED  BY <1>2, <1>3

LEMMA InitType == Init => TypeOK
<1> SUFFICES ASSUME Init PROVE TypeOK
  OBVIOUS
<1>1. file \in Files \cup {<<>>} /\ fpos \in 0..Len(file)
  BY DEF Init
<1>2. buf \in Seq(0..255) /\ Len(buf) < MaxBuffer
  BY DEF Init
<1>3. /\ sps \in Seq(0..255) /\ pps \in Seq(0..255)
      /\ prev \in Seq(0..255) /\ last \in Seq(0..255)
  BY DEF Init
<1>. QED  BY <1>1, <1>2, <1>3 DEF Init, TypeOK

LEMMA NextType ==
  ASSUME TypeOK, [Next]_vars
  PROVE  TypeOK'
<1>1. CASE Start
  <2>1. PICK f \in Files, opened \in BOOLEAN :
          file' = f /\ thread' = IF opened THEN "loop" ELSE "none"
    BY <1>1 DEF Start
  <2>2. f \in Seq(0..255) /\ Len(f) \in Nat
    OBVIOUS
  <2>3. fpos' \in 0..Len(file') /\ buf' \in Seq(0..255) /\ Len(buf') < MaxBuffer
    BY <1>1, <2>1, <2>2 DEF Start
  <2>4. prev' \in Seq(0..255) /\ last' \in Seq(0..255)
    BY <1>1 DEF Start
  <2>. QED  BY <1>1, <2>1, <2>3, <2>4 DEF Start, TypeOK
<1>2. CASE StopBegin
  BY <1>2 DEF StopBegin, TypeOK
<1>5. CASE StopJoined
  BY <1>5 DEF StopJoined, TypeOK
<1>6. CASE RunLoop
  <2>1. buf' \in {buf, <<>>}
    BY <1>6 DEF RunLoop
  <2>2. buf' \in Seq(0..255) /\ Len(buf') < MaxBuffer
    <3>1. CASE buf' = buf
      BY <3>1 DEF TypeOK
    <3>2. CASE buf' = <<>>
      <4>1. <<>> \in Seq(0..255) /\ Len(<<>>) = 0
        BY EmptySeq
      <4>. QED  BY <3>2, <4>1
    <3>. QED  BY <2>1, <3>1, <3>2
  <2>. QED  BY <1>6, <2>2 DEF RunLoop, TypeOK
<1>7. CASE RegisterEncodeCompleteCallback
  BY <1>7 DEF RegisterEncodeCompleteCallback, TypeOK
<1>3. CASE ReadStep
  BY <1>3, ReadStepType
<1>4. CASE UNCHANGED vars
  BY <1>4 DEF vars, TypeOK
<1>. QED  BY <1>1, <1>2, <1>3, <1>4, <1>5, <1>6, <1>7 DEF Next

\* Every variable of the reader keeps its type in every reachable state;
\* in particular m_buf always holds fewer than MAX_BUFFER_SIZE bytes, so
\* ReadOneNalu's m_buf[index] = ch never writes past the buffer, for every
\* file and every MAX_BUFFER_SIZE above 4 (TypeOK).
THEOREM ReaderTypeCorrect == Spec => []TypeOK
<1>1. Init => TypeOK
  BY InitType
<1>2. TypeOK /\ [Next]_vars => TypeOK'
  BY NextType
<1>. QED  BY <1>1, <1>2, PTL DEF Spec

-----------------------------------------------------------------------------
(* The bytes of every frame come from the file (FrameFromFile).            *)

\* While the reader thread is inside ReadOneNalu, m_buf[0 .. index-1] holds
\* the bytes fgetc returned last, going round the file.
BufFromFile == thread = "read" => buf = ReadUpTo(file, fpos, Len(buf))

\* FrameFromFile for a given file and frame.
FrameOK(f, fr) ==
  fr # <<>> =>
    \E p \in 1..Len(f), n \in {3, 4}, m \in 1..Len(fr) :
      LET code == IF n = 4 THEN StartCode4 ELSE StartCode3
      IN /\ ReadUpTo(f, p, n) = code
         /\ m + n <= Len(fr)
         /\ SubSeq(fr, Len(fr) - m - n + 1, Len(fr)) = code \o ReadUpTo(f, p - n, m)

FInv == TypeOK /\ BufFromFile /\ FrameFromFile

LEMMA FrameOKDef == FrameFromFile = FrameOK(file, last)
BY DEF FrameFromFile, FrameOK

\* Going round a file of N bytes: position k + N is position k.
LEMMA PosShift ==
  ASSUME NEW f \in Seq(Bytes), Len(f) > 0, NEW k \in Int
  PROVE  FilePos(f, k + Len(f)) = FilePos(f, k)
<1> DEFINE N == Len(f)  a == k - 1
<1>1. N \in Nat \ {0} /\ a \in Int
  OBVIOUS
<1>2. (a + N) \div N = (a \div N) + 1
  BY <1>1, SMTT(30)
<1>3. (a + N) % N = (a + N) - N * ((a + N) \div N)
  BY <1>1, SMTT(30)
<1>4. a % N = a - N * (a \div N)
  BY <1>1, SMTT(30)
<1>5. (a + N) % N = a % N
  BY <1>1, <1>2, <1>3, <1>4
<1>. QED  BY <1>5 DEF FilePos

\* Within the file, FilePos is the identity.
LEMMA PosInFile ==
  ASSUME NEW f \in Seq(Bytes), NEW k \in 1..Len(f)
  PROVE  FilePos(f, k) = k
BY DEF FilePos

\* The rewind at EOF does not change which bytes were read last.
LEMMA ReadRewind ==
  ASSUME NEW f \in Seq(Bytes), NEW m \in Nat
  PROVE  ReadUpTo(f, Len(f), m) = ReadUpTo(f, 0, m)
<1>1. CASE Len(f) = 0
  BY <1>1
<1>2. CASE Len(f) > 0
  <2>1. \A i \in 1..m : FilePos(f, Len(f) - m + i) = FilePos(f, 0 - m + i)
    <3> SUFFICES ASSUME NEW i \in 1..m
                 PROVE  FilePos(f, Len(f) - m + i) = FilePos(f, 0 - m + i)
      OBVIOUS
    <3>1. (0 - m + i) + Len(f) = Len(f) - m + i /\ 0 - m + i \in Int
      OBVIOUS
    <3>. QED  BY <1>2, <3>1, PosShift
  <2>. QED  BY <2>1 DEF ReadUpTo
<1>. QED  BY <1>1, <1>2

\* fgetc returns the byte at the next position and m_buf[index] = ch
\* appends it.
LEMMA ReadAppend ==
  ASSUME NEW f \in Seq(Bytes), NEW q \in 0..(Len(f) - 1),
         NEW b \in Seq(Bytes), b = ReadUpTo(f, q, Len(b))
  PROVE  Append(b, f[q + 1]) = ReadUpTo(f, q + 1, Len(b) + 1)
<1> DEFINE n == Len(b)
<1>1. FilePos(f, q + 1) = q + 1
  BY PosInFile
<1>2. \A i \in 1..n : b[i] = f[FilePos(f, (q + 1) - (n + 1) + i)]
  <2>1. \A i \in 1..n : (q + 1) - (n + 1) + i = q - n + i
    OBVIOUS
  <2>. QED  BY <2>1 DEF ReadUpTo
<1>3. (q + 1) - (n + 1) + (n + 1) = q + 1
  OBVIOUS
<1>4. /\ Append(b, f[q + 1]) \in Seq(Bytes)
      /\ Len(Append(b, f[q + 1])) = n + 1
      /\ \A i \in 1..n : Append(b, f[q + 1])[i] = b[i]
      /\ Append(b, f[q + 1])[n + 1] = f[q + 1]
  OBVIOUS
<1>5. \A i \in 1..(n + 1) :
        Append(b, f[q + 1])[i] = f[FilePos(f, (q + 1) - (n + 1) + i)]
  BY <1>1, <1>2, <1>3, <1>4
<1>. QED  BY <1>4, <1>5 DEF ReadUpTo

\* The last m + n bytes read up to p are the m bytes read up to p - n
\* followed by the n bytes read up to p.
LEMMA ReadSplit ==
  ASSUME NEW f \in Seq(Bytes), NEW p \in Int, NEW m \in Nat, NEW n \in Nat
  PROVE  /\ SubSeq(ReadUpTo(f, p, m + n), 1, m) = ReadUpTo(f, p - n, m)
         /\ SubSeq(ReadUpTo(f, p, m + n), m + 1, m + n) = ReadUpTo(f, p, n)
<1>1. \A i \in 1..m : (p - n) - m + i = p - (m + n) + i
  OBVIOUS
<1>2. \A i \in 1..n : p - n + i = p - (m + n) + (i + m - 1 + 1)
  OBVIOUS
<1>. QED  BY <1>1, <1>2 DEF ReadUpTo

\* The last Len(c) + Len(u) bytes of a frame built as ... \o c \o u.
LEMMA FrameSuffix ==
  ASSUME NEW pre \in Seq(Bytes), NEW c \in Seq(Bytes), NEW u \in Seq(Bytes)
  PROVE  /\ LET x == pre \o c \o u
            IN  SubSeq(x, Len(x) - Len(u) - Len(c) + 1, Len(x)) = c \o u
         /\ LET x == c \o u
            IN  SubSeq(x, Len(x) - Len(u) - Len(c) + 1, Len(x)) = c \o u
OBVIOUS

\* The start code that ends m_buf, as the guards of ReadOneNalu test it.
LEMMA CodeAtEnd ==
  ASSUME NEW b \in Seq(Bytes), NEW k \in Nat, k > 3, Len(b) = k + 1,
         b[k + 1] = 1, b[k] = 0, b[k - 1] = 0
  PROVE  /\ SubSeq(b, Len(b) - 3 + 1, Len(b)) = StartCode3
         /\ b[k - 2] = 0 => SubSeq(b, Len(b) - 4 + 1, Len(b)) = StartCode4
<1>1. SubSeq(b, Len(b) - 3 + 1, Len(b)) = StartCode3
  <2>1. /\ SubSeq(b, Len(b) - 3 + 1, Len(b)) \in Seq(Bytes)
        /\ Len(SubSeq(b, Len(b) - 3 + 1, Len(b))) = 3
        /\ \A i \in 1..3 : SubSeq(b, Len(b) - 3 + 1, Len(b))[i] = b[k - 2 + i]
    BY SubSeqProperties
  <2>2. StartCode3 \in Seq(Bytes) /\ Len(StartCode3) = 3
    BY DEF StartCode3, Bytes
  <2>3. \A i \in 1..3 : SubSeq(b, Len(b) - 3 + 1, Len(b))[i] = StartCode3[i]
    BY <2>1 DEF StartCode3
  <2>. QED  BY <2>1, <2>2, <2>3, SeqEqual
<1>2. ASSUME b[k - 2] = 0 PROVE SubSeq(b, Len(b) - 4 + 1, Len(b)) = StartCode4
  <2>1. /\ SubSeq(b, Len(b) - 4 + 1, Len(b)) \in Seq(Bytes)
        /\ Len(SubSeq(b, Len(b) - 4 + 1, Len(b))) = 4
        /\ \A i \in 1..4 : SubSeq(b, Len(b) - 4 + 1, Len(b))[i] = b[k - 3 + i]
    BY SubSeqProperties
  <2>2. StartCode4 \in Seq(Bytes) /\ Len(StartCode4) = 4
    BY DEF StartCode4, Bytes
  <2>3. \A i \in 1..4 : SubSeq(b, Len(b) - 4 + 1, Len(b))[i] = StartCode4[i]
    BY <1>2, <2>1 DEF StartCode4
  <2>. QED  BY <2>1, <2>2, <2>3, SeqEqual
<1>. QED  BY <1>1, <1>2

\* The unit and the start code at the end of m_buf, when m_buf holds the
\* bytes read up to file position p.
LEMMA UnitRead ==
  ASSUME NEW f \in Seq(Bytes), NEW p \in Int, NEW b \in Seq(Bytes),
         NEW n \in {3, 4}, Len(b) >= 5, b = ReadUpTo(f, p, Len(b))
  PROVE  /\ UnitBytes(b, n) = ReadUpTo(f, p - n, Len(b) - n)
         /\ SubSeq(b, Len(b) - n + 1, Len(b)) = ReadUpTo(f, p, n)
<1>0. PICK m \in Nat : m = Len(b) - n
  OBVIOUS
<1>1. n \in Nat /\ b = ReadUpTo(f, p, m + n) /\ m + 1 = Len(b) - n + 1
      /\ m + n = Len(b)
  BY <1>0
<1>2. /\ SubSeq(b, 1, m) = ReadUpTo(f, p - n, m)
      /\ SubSeq(b, m + 1, m + n) = ReadUpTo(f, p, n)
  <2>1. /\ SubSeq(ReadUpTo(f, p, m + n), 1, m) = ReadUpTo(f, p - n, m)
        /\ SubSeq(ReadUpTo(f, p, m + n), m + 1, m + n) = ReadUpTo(f, p, n)
    BY <1>1, ReadSplit
  <2>. QED  BY <1>1, <2>1
<1>. QED  BY <1>0, <1>1, <1>2 DEF UnitBytes

\* A frame made of a start code read up to p and the unit read before it,
\* with or without a prefix, satisfies FrameFromFile.
LEMMA FrameWitness ==
  ASSUME NEW f \in Seq(Bytes), NEW p \in 1..Len(f), NEW n \in {3, 4},
         NEW u \in Seq(Bytes), Len(u) >= 1, NEW pre \in Seq(Bytes),
         ReadUpTo(f, p, n) = IF n = 4 THEN StartCode4 ELSE StartCode3,
         u = ReadUpTo(f, p - n, Len(u))
  PROVE  LET code == IF n = 4 THEN StartCode4 ELSE StartCode3
         IN  FrameOK(f, code \o u) /\ FrameOK(f, pre \o code \o u)
<1> DEFINE code == IF n = 4 THEN StartCode4 ELSE StartCode3
           m == Len(u)
<1>1. code \in Seq(Bytes) /\ Len(code) = n
  <2>1. CASE n = 4
    BY <2>1 DEF StartCode4, Bytes
  <2>2. CASE n = 3
    BY <2>2 DEF StartCode3, Bytes
  <2>. QED  BY <2>1, <2>2
<1>2. ASSUME NEW fr \in Seq(Bytes), Len(fr) >= m + n,
             SubSeq(fr, Len(fr) - m - n + 1, Len(fr)) = code \o u
      PROVE  FrameOK(f, fr)
  <2>1. m \in 1..Len(fr) /\ m + n <= Len(fr)
    BY <1>1, <1>2
  <2>. QED  BY <1>2, <2>1 DEF FrameOK
<1>3. /\ code \o u \in Seq(Bytes) /\ Len(code \o u) >= m + n
      /\ pre \o code \o u \in Seq(Bytes) /\ Len(pre \o code \o u) >= m + n
  BY <1>1
<1>4. SubSeq(code \o u, Len(code \o u) - m - n + 1, Len(code \o u)) = code \o u
  BY <1>1, FrameSuffix
<1>5. SubSeq(pre \o code \o u, Len(pre \o code \o u) - m - n + 1,
             Len(pre \o code \o u)) = code \o u
  <2>1. LET x == pre \o code \o u
        IN  SubSeq(x, Len(x) - Len(u) - Len(code) + 1, Len(x)) = code \o u
    BY <1>1, FrameSuffix
  <2>. QED  BY <1>1, <2>1
<1>. QED  BY <1>2, <1>3, <1>4, <1>5

\* A step that leaves the file and the last frame alone keeps FrameFromFile.
LEMMA FrameFrame ==
  ASSUME FrameFromFile, file' = file, last' = last
  PROVE  FrameFromFile'
BY DEF FrameFromFile

\* A step that leaves the reader thread's view of the file alone keeps
\* BufFromFile.
LEMMA BufFrame ==
  ASSUME BufFromFile, UNCHANGED <<file, fpos, buf, thread>>
  PROVE  BufFromFile'
BY DEF BufFromFile

\* At a start code of n bytes ending at file position q + 1, the frame
\* handed over (types 1 and 5) ends with the start code and the unit
\* just read; the other types leave the last frame alone.
LEMMA BoundaryFrame ==
  ASSUME TypeOK, FrameFromFile, file \in Seq(Bytes),
         NEW q \in 0..(Len(file) - 1),
         NEW b \in Seq(Bytes), b = ReadUpTo(file, q + 1, Len(b)), Len(b) >= 5,
         NEW n \in {3, 4},
         SubSeq(b, Len(b) - n + 1, Len(b)) = IF n = 4 THEN StartCode4 ELSE StartCode3,
         Boundary(b, n), file' = file
  PROVE  FrameFromFile'
<1> DEFINE code == IF n = 4 THEN StartCode4 ELSE StartCode3
           unit == UnitBytes(b, n)
           type == NalType(b[1])
<1>0. q + 1 \in Int /\ q + 1 \in 1..Len(file)
  OBVIOUS
<1>1. /\ unit = ReadUpTo(file, (q + 1) - n, Len(b) - n)
      /\ ReadUpTo(file, q + 1, n) = code
  <2>1. /\ UnitBytes(b, n) = ReadUpTo(file, (q + 1) - n, Len(b) - n)
        /\ SubSeq(b, Len(b) - n + 1, Len(b)) = ReadUpTo(file, q + 1, n)
    BY <1>0, UnitRead
  <2>. QED  BY <2>1
<1>2. unit \in Seq(Bytes) /\ Len(unit) = Len(b) - n /\ Len(unit) >= 1
  BY UnitIsBytes DEF UnitBytes
<1>3. sps \o pps \in Seq(Bytes)
  BY DEF TypeOK, Bytes
<1>4. FrameOK(file, code \o unit) /\ FrameOK(file, sps \o pps \o code \o unit)
  <2>1. unit = ReadUpTo(file, (q + 1) - n, Len(unit))
    BY <1>1, <1>2
  <2>2. LET c == IF n = 4 THEN StartCode4 ELSE StartCode3
        IN  FrameOK(file, c \o unit) /\ FrameOK(file, (sps \o pps) \o c \o unit)
    BY <1>0, <1>1, <1>2, <1>3, <2>1, FrameWitness
  <2>. QED  BY <2>2
<1>5. FrameFromFile' <=> FrameOK(file', last')
  BY DEF FrameFromFile, FrameOK
<1>6. CASE type = 1 \/ type = 5
  <2>1. last' \in {code \o unit, sps \o pps \o code \o unit}
    <3>1. \E d \in {code \o unit, sps \o pps \o code \o unit} : Emit(d)
      <4>1. CASE type = 1
        BY <4>1 DEF Boundary
      <4>2. CASE type = 5
        BY <4>2 DEF Boundary
      <4>. QED  BY <1>6, <4>1, <4>2
    <3>. QED  BY <3>1 DEF Emit
  <2>. QED  BY <1>4, <1>5, <2>1
<1>8. CASE type \notin {1, 5}
  <2>1. last' = last
    BY <1>8 DEF Boundary
  <2>. QED  BY <2>1, FrameFrame
<1>. QED  BY <1>6, <1>8

\* One iteration of ReadOneNalu's loop keeps both.
LEMMA ReadStepFrame ==
  ASSUME TypeOK, BufFromFile, FrameFromFile, ReadStep
  PROVE  BufFromFile' /\ FrameFromFile'
<1>1. /\ file \in Seq(Bytes) /\ buf \in Seq(Bytes) /\ fpos \in 0..Len(file)
      /\ thread = "read" /\ file' = file
      /\ buf = ReadUpTo(file, fpos, Len(buf))
  <2>1. file \in Seq(Bytes)
    <3>1. CASE file \in Files
      BY <3>1 DEF Bytes
    <3>2. CASE file = <<>>
      BY <3>2, EmptySeq
    <3>. QED  BY <3>1, <3>2 DEF TypeOK
  <2>. QED  BY <2>1 DEF TypeOK, Bytes, ReadStep, BufFromFile
<1>2. CASE fpos = Len(file)
  <2>1. fpos' = 0 /\ UNCHANGED <<buf, last, thread>>
    BY <1>2 DEF ReadStep
  <2>2. buf' = ReadUpTo(file', fpos', Len(buf'))
    BY <1>1, <1>2, <2>1, ReadRewind
  <2>. QED  BY <1>1, <2>1, <2>2, FrameFrame DEF BufFromFile
<1>3. CASE fpos # Len(file)
  <2> DEFINE ch == file[fpos + 1]
             index == Len(buf)
             b == Append(buf, ch)
  <2>0. fpos \in 0..(Len(file) - 1) /\ fpos' = fpos + 1
    BY <1>1, <1>3 DEF ReadStep
  <2>1. b = ReadUpTo(file, fpos + 1, Len(b)) /\ b \in Seq(Bytes) /\ Len(b) = index + 1
    <3>1. ch \in Bytes
      BY <1>1, <2>0
    <3>. QED  BY <1>1, <2>0, <3>1, ReadAppend
  <2>2. CASE index >= MaxBuffer - 1
    <3>1. thread' = "loop" /\ last' = last
      BY <1>3, <2>2 DEF ReadStep
    <3>. QED  BY <1>1, <3>1, FrameFrame DEF BufFromFile
  <2>3. CASE /\ ~(index >= MaxBuffer - 1)
             /\ index > 3 /\ ch = 1 /\ b[index] = 0 /\ b[index - 1] = 0
             /\ b[index - 2] = 0
    <3>1. Boundary(b, 4)
      BY <1>3, <2>3 DEF ReadStep
    <3>2. SubSeq(b, Len(b) - 4 + 1, Len(b)) = StartCode4
      <4>1. b[index + 1] = 1 /\ index \in Nat
        BY <1>1, <2>3
      <4>. QED  BY <2>1, <2>3, <4>1, CodeAtEnd
    <3>3. FrameFromFile'
      <4>1. /\ Len(b) >= 5
            /\ SubSeq(b, Len(b) - 4 + 1, Len(b))
                 = IF 4 = 4 THEN StartCode4 ELSE StartCode3
        BY <2>1, <2>3, <3>2
      <4>. QED  BY <1>1, <2>0, <2>1, <3>1, <4>1, BoundaryFrame
    <3>4. buf' = <<>>
      BY <3>1 DEF Boundary
    <3>. QED  BY <1>1, <3>3, <3>4 DEF BufFromFile, ReadUpTo
  <2>4. CASE /\ ~(index >= MaxBuffer - 1)
             /\ ~(index > 3 /\ ch = 1 /\ b[index] = 0 /\ b[index - 1] = 0
                  /\ b[index - 2] = 0)
             /\ index > 3 /\ ch = 1 /\ b[index] = 0 /\ b[index - 1] = 0
    <3>1. Boundary(b, 3)
      BY <1>3, <2>4 DEF ReadStep
    <3>2. SubSeq(b, Len(b) - 3 + 1, Len(b)) = StartCode3
      <4>1. b[index + 1] = 1 /\ index \in Nat
        BY <1>1, <2>4
      <4>. QED  BY <2>1, <2>4, <4>1, CodeAtEnd
    <3>3. FrameFromFile'
      <4>1. /\ Len(b) >= 5
            /\ SubSeq(b, Len(b) - 3 + 1, Len(b))
                 = IF 3 = 4 THEN StartCode4 ELSE StartCode3
        BY <2>1, <2>4, <3>2
      <4>. QED  BY <1>1, <2>0, <2>1, <3>1, <4>1, BoundaryFrame
    <3>4. buf' = <<>>
      BY <3>1 DEF Boundary
    <3>. QED  BY <1>1, <3>3, <3>4 DEF BufFromFile, ReadUpTo
  <2>5. CASE /\ ~(index >= MaxBuffer - 1)
             /\ ~(index > 3 /\ ch = 1 /\ b[index] = 0 /\ b[index - 1] = 0)
    <3>1. buf' = b /\ UNCHANGED <<last, thread>>
      BY <1>3, <2>5 DEF ReadStep
    <3>. QED  BY <1>1, <2>0, <2>1, <3>1, FrameFrame DEF BufFromFile
  <2>. QED  BY <2>2, <2>3, <2>4, <2>5
<1>. QED  BY <1>2, <1>3

LEMMA InitFInv == Init => FInv
<1> SUFFICES ASSUME Init PROVE FInv
  OBVIOUS
<1>1. BufFromFile /\ FrameFromFile
  BY DEF Init, BufFromFile, FrameFromFile
<1>. QED  BY <1>1, InitType DEF FInv

LEMMA NextFInv ==
  ASSUME FInv, [Next]_vars
  PROVE  FInv'
<1>1. TypeOK'
  BY NextType DEF FInv
<1>2. CASE Start
  <2>1. thread' # "read" /\ last' = <<>>
    BY <1>2 DEF Start
  <2>. QED  BY <1>1, <2>1 DEF FInv, BufFromFile, FrameFromFile
<1>3. CASE StopBegin \/ RegisterEncodeCompleteCallback \/ UNCHANGED vars
  <2>1. UNCHANGED <<file, fpos, buf, thread, last>>
    BY <1>3 DEF StopBegin, RegisterEncodeCompleteCallback, vars
  <2>. QED  BY <1>1, <2>1, BufFrame, FrameFrame DEF FInv
<1>4. CASE StopJoined
  <2>1. thread' = "none" /\ UNCHANGED <<file, last>>
    BY <1>4 DEF StopJoined
  <2>. QED  BY <1>1, <2>1, FrameFrame DEF FInv, BufFromFile
<1>5. CASE RunLoop
  <2>1. /\ thread' = "read" => buf' = <<>>
        /\ UNCHANGED <<file, last>>
    BY <1>5 DEF RunLoop
  <2>2. ASSUME thread' = "read" PROVE buf' = ReadUpTo(file', fpos', Len(buf'))
    <3>1. buf' = <<>> /\ Len(buf') = 0
      BY <2>1, <2>2
    <3>2. ReadUpTo(file', fpos', 0) = <<>>
      BY DEF ReadUpTo
    <3>. QED  BY <3>1, <3>2
  <2>. QED  BY <1>1, <2>1, <2>2, FrameFrame DEF FInv, BufFromFile
<1>6. CASE ReadStep
  BY <1>1, <1>6, ReadStepFrame DEF FInv
<1>. QED  BY <1>2, <1>3, <1>4, <1>5, <1>6 DEF Next

\* The strengthening: FrameFromFile together with BufFromFile and TypeOK
\* holds in every reachable state.
THEOREM FInvInvariant == Spec => []FInv
<1>1. Init => FInv
  BY InitFInv
<1>2. FInv /\ [Next]_vars => FInv'
  BY NextFInv
<1>. QED  BY <1>1, <1>2, PTL DEF Spec

\* For every file and every MAX_BUFFER_SIZE above 4, every frame
\* ReadOneNalu hands to the data callback ends with a start code of the
\* file and, behind it, exactly the bytes the file holds before that start
\* code, going round the file (FrameFromFile).
THEOREM FrameFromFileInvariant == Spec => []FrameFromFile
<1>1. FInv => FrameFromFile
  BY DEF FInv
<1>. QED  BY <1>1, FInvInvariant, PTL
=============================================================================
