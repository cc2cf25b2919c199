----------------------------- MODULE H264Reader -----------------------------
(***************************************************************************)
(* The frame reader of the test pusher (src/test/reader.cpp): Reader's    *)
(* Start/Stop, run by the owner thread, and H264Reader's reader thread,   *)
(* whose RunLoop calls ReadOneNalu.  ReadOneNalu reads the Annex-B file   *)
(* byte by byte (fgetc), rewinding at EOF, keeps the bytes of the current  *)
(* NAL unit in m_buf, and at each start code either stores the unit as    *)
(* SPS / PPS or hands a frame to the data callback (slice types 1 and 5)  *)
(* and returns.  One step of the model is one iteration of the while       *)
(* (!bStop) loop.  Bytes are small integers standing for their values;    *)
(* the NAL type is the low five bits of the unit's first byte.            *)
(***************************************************************************)
EXTENDS Naturals, Sequences, FiniteSetsExt, SequencesExt

CONSTANTS
  Files,       \* the file contents the reader may be started on
  MaxBuffer    \* MAX_BUFFER_SIZE

ASSUME ReaderAssumption ==
  /\ Files \subseteq Seq(0..255)
  /\ MaxBuffer \in Nat /\ MaxBuffer > 4

VARIABLES
  file,      \* contents of the opened file
  fpos,      \* file position of m_fp
  buf,       \* m_buf[0 .. index-1] as a sequence
  sps, pps,  \* m_sps, m_pps
  prev, last,\* the last two frames of this stream handed to the data
             \* callback (<<>>: none)
  started,   \* m_bStart
  thread,    \* the reader thread: "none" | "loop" | "read" | "exited"
  stop,      \* the owner's Stop(): "no" | "joining" | "done"
  callback,  \* DummyH264Encoder's m_encoded_image_callback is set
  encoded    \* what Encode returned for the last frame: "none" (no frame
             \* yet), "UNINITIALIZED", "ERR_PARAMETER", "key" or "delta"

vars == <<file, fpos, buf, sps, pps, prev, last, started, thread, stop,
          callback, encoded>>

StartCode4 == <<0, 0, 0, 1>>
StartCode3 == <<0, 0, 1>>

NalType(b) == b % 32

-----------------------------------------------------------------------------
(* Owner thread                                                             *)

\* Start(): a second call while started returns at once.  Otherwise set
\* m_bStart, open the file, allocate m_buf and create the thread; a failing
\* fopen or malloc returns false with m_bStart left set and no thread.
Start ==
  /\ ~started /\ stop # "joining"
  /\ started' = TRUE
  /\ \E f \in Files, opened \in BOOLEAN :
       /\ file' = f
       /\ thread' = IF opened THEN "loop" ELSE "none"
  /\ fpos' = 0 /\ buf' = <<>>
  /\ stop' = "no"
  /\ prev' = <<>> /\ last' = <<>>   \* a new stream for the callback
  /\ UNCHANGED <<sps, pps, callback, encoded>>

\* Stop(): clear m_bStart, then join the thread.
StopBegin ==
  /\ stop = "no" /\ started
  /\ started' = FALSE /\ stop' = "joining"
  /\ UNCHANGED <<file, fpos, buf, sps, pps, prev, last, encoded, thread,
                 callback>>

\* ... the join returns once RunLoop has exited; fclose and free follow.
StopJoined ==
  /\ stop = "joining" /\ thread \in {"none", "exited"}
  /\ stop' = "done" /\ thread' = "none"
  /\ UNCHANGED <<file, fpos, buf, sps, pps, prev, last, encoded, started,
                 callback>>

-----------------------------------------------------------------------------
(* Reader thread                                                            *)

\* RunLoop: while (m_bStart) ReadOneNalu(); (the frame-rate sleeps only
\* delay the thread).  ReadOneNalu starts with index = 0.
RunLoop ==
  /\ thread = "loop"
  /\ IF started THEN thread' = "read" /\ buf' = <<>>
                ELSE thread' = "exited" /\ UNCHANGED buf
  /\ UNCHANGED <<file, fpos, sps, pps, prev, last, encoded, started, stop,
                 callback>>

\* Mutant: the four-byte case keeps std::string(m_buf, index - 2).
UnitBytesLong(b, n) == SubSeq(b, 1, Len(b) - n + IF n = 4 THEN 1 ELSE 0)

\* Mutant: std::string(m_buf, index - 4), the unit's last byte is dropped.
UnitBytesShort(b, n) == SubSeq(b, 1, Len(b) - n - 1)

\* The frame built at a start code of n bytes ending at m_buf[index]:
\* std::string(m_buf, index - (n - 1)), i.e. the unit without the start code.
UnitBytes(b, n) == SubSeq(b, 1, Len(b) - n)

-----------------------------------------------------------------------------
(* The frame's way to the network: the pusher's data callback calls        *)
(* RtcClient::inputFrame -> MediaController::inputFrame, which hands it to *)
(* DummyVideoSource::InputFrame; webrtc then calls DummyH264Encoder's      *)
(* Encode on it.                                                            *)

kIdr == 5

\* EncodedVideoFrameBuffer wrapping an EncodedVideoI420Buffer: type() is
\* kNative, DataY() the encoded bytes and StrideY() their number.
EncodedBuffer(data) == [type |-> "native", dataY |-> data, strideY |-> Len(data)]

\* DummyVideoSource::InputFrame: copy the bytes into a new
\* EncodedVideoFrameBuffer and pass the frame on (OnFrame); the timestamp
\* and rotation are not modelled.
InputFrame(data) == EncodedBuffer(data)

\* webrtc::H264::FindNaluIndices(data, len): the payload_start_offset of
\* every 00 00 01 start code whose payload begins inside the buffer.
NaluPayloads(data, len) ==
  {i + 3 : i \in {i \in 1..(len - 3) :
                   data[i] = 0 /\ data[i + 1] = 0 /\ data[i + 2] = 1}}

\* Mutant: the buffer-type check is inverted (returns ERR_PARAMETER for a
\* native buffer).
EncodeRejectNative(cb, buffer) ==
  IF ~cb THEN "UNINITIALIZED"
  ELSE IF buffer.type = "native" THEN "ERR_PARAMETER"
  ELSE IF \E i \in NaluPayloads(buffer.dataY, buffer.strideY) :
            NalType(buffer.dataY[i]) = kIdr
         THEN "key"
         ELSE "delta"

\* Mutant: only the first NAL unit of the frame is looked at.
EncodeFirstNalu(cb, buffer) ==
  LET P == NaluPayloads(buffer.dataY, buffer.strideY)
  IN IF ~cb THEN "UNINITIALIZED"
     ELSE IF buffer.type # "native" THEN "ERR_PARAMETER"
     ELSE IF P # {} /\ NalType(buffer.dataY[Min(P)]) = kIdr THEN "key"
     ELSE "delta"

\* DummyH264Encoder::Encode: UNINITIALIZED without a registered callback,
\* ERR_PARAMETER for a buffer that is not native; otherwise the frame is a
\* key frame if any of its NAL units is an IDR slice, a delta frame if
\* not, and goes to OnEncodedImage (a send failure is only logged).
Encode(cb, buffer) ==
  IF ~cb THEN "UNINITIALIZED"
  ELSE IF buffer.type # "native" THEN "ERR_PARAMETER"
  ELSE IF \E i \in NaluPayloads(buffer.dataY, buffer.strideY) :
            NalType(buffer.dataY[i]) = kIdr
         THEN "key"
         ELSE "delta"

\* DummyEncoder::RegisterEncodeCompleteCallback, called by webrtc when the
\* video producer's encoder is set up; Release() leaves it in place.
RegisterEncodeCompleteCallback ==
  /\ ~callback
  /\ callback' = TRUE
  /\ UNCHANGED <<file, fpos, buf, sps, pps, prev, last, started, thread, stop,
                 encoded>>

\* The data callback: hand the frame over (only when data is not empty); it
\* reaches the encoder through the source.
Emit(data) ==
  /\ prev' = last /\ last' = data
  /\ encoded' = Encode(callback, InputFrame(data))

\* Mutant: bStop is not set, so ReadOneNalu keeps reading after a slice.
BoundaryNoStop(b, n) ==
  LET code == IF n = 4 THEN StartCode4 ELSE StartCode3
      unit == UnitBytes(b, n)
      type == NalType(b[1])
  IN /\ buf' = <<>>
     /\ CASE type = 1 -> Emit(code \o unit) /\ UNCHANGED <<sps, pps, thread>>
          [] type = 5 -> Emit(sps \o pps \o code \o unit)
                          /\ UNCHANGED <<sps, pps, thread>>
          [] type = 7 -> sps' = code \o unit /\ UNCHANGED <<pps, prev, last, encoded, thread>>
          [] type = 8 -> pps' = code \o unit /\ UNCHANGED <<sps, prev, last, encoded, thread>>
          [] OTHER    -> UNCHANGED <<sps, pps, prev, last, encoded, thread>>

\* At a start code of n bytes: dispatch on m_buf[0] & 0x1F, then index = 0.
\* Types 1 and 5 set bStop, which ends ReadOneNalu.
Boundary(b, n) ==
  LET code == IF n = 4 THEN StartCode4 ELSE StartCode3
      unit == UnitBytes(b, n)
      type == NalType(b[1])
  IN /\ buf' = <<>>
     /\ CASE type = 1 -> Emit(code \o unit) /\ thread' = "loop"
                          /\ UNCHANGED <<sps, pps>>
          [] type = 5 -> Emit(sps \o pps \o code \o unit) /\ thread' = "loop"
                          /\ UNCHANGED <<sps, pps>>
          [] type = 7 -> sps' = code \o unit /\ UNCHANGED <<pps, prev, last, encoded, thread>>
          [] type = 8 -> pps' = code \o unit /\ UNCHANGED <<sps, prev, last, encoded, thread>>
          [] OTHER    -> UNCHANGED <<sps, pps, prev, last, encoded, thread>>

\* Mutant: no full-buffer check before m_buf[index] = ch.
ReadStepNoBound ==
  /\ thread = "read"
  /\ IF fpos = Len(file)
       THEN fpos' = 0 /\ UNCHANGED <<buf, sps, pps, prev, last, encoded, thread>>
       ELSE
         LET ch == file[fpos + 1]
             index == Len(buf)
             b == Append(buf, ch)
         IN /\ fpos' = fpos + 1
            /\ IF index > 3 /\ ch = 1 /\ b[index] = 0 /\ b[index - 1] = 0
                                 /\ b[index - 2] = 0
                 THEN Boundary(b, 4)
               ELSE IF index > 3 /\ ch = 1 /\ b[index] = 0 /\ b[index - 1] = 0
                 THEN Boundary(b, 3)
               ELSE buf' = b /\ UNCHANGED <<sps, pps, prev, last, encoded, thread>>
  /\ UNCHANGED <<file, started, stop, callback>>

\* One iteration of ReadOneNalu's loop: fgetc; at EOF rewind and continue;
\* a full buffer ends the call (the byte just read is lost); otherwise store
\* the byte and look for a four-, then a three-byte start code ending at it.
ReadStep ==
  /\ thread = "read"
  /\ IF fpos = Len(file)
       THEN fpos' = 0 /\ UNCHANGED <<buf, sps, pps, prev, last, encoded, thread>>
       ELSE
         LET ch == file[fpos + 1]
             index == Len(buf)
             b == Append(buf, ch)
         IN /\ fpos' = fpos + 1
            /\ IF index >= MaxBuffer - 1
                 THEN thread' = "loop" /\ UNCHANGED <<buf, sps, pps, prev, last, encoded>>
               ELSE IF index > 3 /\ ch = 1 /\ b[index] = 0 /\ b[index - 1] = 0
                                 /\ b[index - 2] = 0
                 THEN Boundary(b, 4)
               ELSE IF index > 3 /\ ch = 1 /\ b[index] = 0 /\ b[index - 1] = 0
                 THEN Boundary(b, 3)
               ELSE buf' = b /\ UNCHANGED <<sps, pps, prev, last, encoded, thread>>
  /\ UNCHANGED <<file, started, stop, callback>>

-----------------------------------------------------------------------------
Init ==
  /\ file = <<>> /\ fpos = 0 /\ buf = <<>>
  /\ sps = <<>> /\ pps = <<>>
  /\ prev = <<>> /\ last = <<>>
  /\ started = FALSE /\ thread = "none" /\ stop = "no"
  /\ callback = FALSE /\ encoded = "none"

Next == Start \/ StopBegin \/ StopJoined \/ RunLoop \/ ReadStep
        \/ RegisterEncodeCompleteCallback

\* The reader thread is a std::thread that keeps running its loop.
Spec == Init /\ [][Next]_vars /\ WF_vars(RunLoop) /\ WF_vars(ReadStep)
                              /\ WF_vars(StopJoined)

-----------------------------------------------------------------------------
(* Reference: the NAL units of a cyclic Annex-B file                        *)

\* Positions of the three-byte pattern 00 00 01 (a four-byte start code
\* contains one); a unit's bytes run from after its start code to the byte
\* before the next start code (its leading zero included), or to the end
\* of the file, which is followed by the file's first start code.
Starts == {i \in 1..(Len(file) - 2) :
             file[i] = 0 /\ file[i + 1] = 0 /\ file[i + 2] = 1}

UnitEnd(s) ==
  LET later == {t \in Starts : t > s}
      t == Min(later)
  IN IF later = {} THEN Len(file)
     ELSE IF file[t - 1] = 0 THEN t - 2 ELSE t - 1

Payload(s) == SubSeq(file, s + 3, UnitEnd(s))

VclStarts == {s \in Starts : s + 3 <= Len(file)
                             /\ NalType(file[s + 3]) \in {1, 5}}

\* The slice unit that follows the one at s, going round the file.
NextVcl(s) ==
  LET later == {t \in VclStarts : t > s}
  IN IF later = {} THEN Min(VclStarts) ELSE Min(later)

\* The file position of the k-th byte fgetc returns, counting round the
\* file f: positions 0 and below stand for the bytes before the last rewind.
FilePos(f, k) == ((k - 1) % Len(f)) + 1

\* The m bytes fgetc returned from f, going round it, up to position p.
ReadUpTo(f, p, m) == [i \in 1..m |-> f[FilePos(f, p - m + i)]]

EndsWithUnit(fr, s) ==
  LET p == Payload(s)
  IN /\ Len(fr) >= Len(p) + 3
     /\ SubSeq(fr, Len(fr) - Len(p) - 2, Len(fr)) = StartCode3 \o p

UnitOf(fr) == CHOOSE s \in VclStarts : EndsWithUnit(fr, s)

-----------------------------------------------------------------------------
(* Properties                                                               *)

TypeOK ==
  /\ file \in Files \cup {<<>>} /\ fpos \in 0..Len(file)
  /\ buf \in Seq(0..255)
  /\ Len(buf) < MaxBuffer    \* every m_buf[index] write is inside the buffer
  /\ sps \in Seq(0..255) /\ pps \in Seq(0..255)
  /\ prev \in Seq(0..255) /\ last \in Seq(0..255)
  /\ started \in BOOLEAN
  /\ thread \in {"none", "loop", "read", "exited"}
  /\ stop \in {"no", "joining", "done"}
  /\ callback \in BOOLEAN
  /\ encoded \in {"none", "UNINITIALIZED", "ERR_PARAMETER", "key", "delta"}

\* Every frame handed to the pusher's data callback is a start code followed
\* by one slice unit of the file, and consecutive frames are consecutive
\* slice units of the file, going round it: ReadOneNalu neither splits,
\* merges nor skips slices when it cuts the byte stream at start codes.
FramesFollowFile ==
  last # <<>> =>
    \E s \in VclStarts :
      /\ EndsWithUnit(last, s)
      /\ prev # <<>> => s = NextVcl(UnitOf(prev))

\* The bytes of every frame's slice unit are, byte for byte, the bytes the
\* file holds (going round its end) just before the start code that ended
\* the unit, and that start code is the one the frame carries: whatever the
\* file, the index arithmetic of ReadOneNalu (std::string(m_buf, index - 3)
\* or index - 2 behind a four- or three-byte code) neither drops nor adds a
\* byte, and the rewind at EOF and the full-buffer return do not splice
\* foreign bytes into a unit.
FrameFromFile ==
  last # <<>> =>
    \E p \in 1..Len(file), n \in {3, 4}, m \in 1..Len(last) :
      LET code == IF n = 4 THEN StartCode4 ELSE StartCode3
      IN /\ ReadUpTo(file, p, n) = code
         /\ m + n <= Len(last)
         /\ SubSeq(last, Len(last) - m - n + 1, Len(last))
              = code \o ReadUpTo(file, p - n, m)

\* An IDR frame reaches the encoder with the SPS in front of it (the
\* m_sps + m_pps prefix of case 5), so the receiver can decode from it.
IdrCarriesSps ==
  \A s \in VclStarts :
    (EndsWithUnit(last, s) /\ NalType(file[s + 3]) = 5) =>
      \E c \in {StartCode4, StartCode3} :
        IsPrefix(c, last) /\ Len(last) > Len(c) /\ NalType(last[Len(c) + 1]) = 7

\* DummyH264Encoder::Encode marks a frame from the reader as a key frame
\* exactly when the slice it carries is an IDR slice of the file: the SPS
\* and PPS that ReadOneNalu puts in front of an IDR must not hide it, and
\* no other unit of a frame may make a non-IDR slice a key frame.
KeyFrameIffIdr ==
  encoded \in {"key", "delta"} =>
    \A s \in VclStarts :
      EndsWithUnit(last, s) => (encoded = "key" <=> NalType(file[s + 3]) = kIdr)

\* Liveness: once the encoder has its callback and the reader thread runs,
\* a key frame is eventually sent, unless Stop() is called first.  Encode
\* ignores frame_types, so a receiver's key-frame request cannot force
\* one: it must come from an IDR slice of the file, which ReadOneNalu
\* reaches by going round the file.
KeyFrameSent ==
  (callback /\ started /\ thread # "none") ~> (encoded = "key" \/ ~started)

\* Stop() returns: once the owner has cleared m_bStart, the reader thread
\* leaves RunLoop and the join completes.
StopReturns == (stop = "joining") ~> (stop = "done")
=============================================================================
