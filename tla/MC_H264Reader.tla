--------------------------- MODULE MC_H264Reader ---------------------------
(* Files for the reader: bytes 103, 104, 101 and 65 are NAL headers of    *)
(* types 7 (SPS), 8 (PPS), 5 (IDR slice) and 1 (non-IDR slice); 42 and 43 *)
(* are payload bytes.                                                      *)
EXTENDS H264Reader

\* SPS, PPS, IDR, P with four-byte start codes, the last with a three-byte one.
MCFileStream ==
  <<0, 0, 0, 1, 103, 42, 0, 0, 0, 1, 104, 42, 0, 0, 0, 1, 101, 42, 42,
    0, 0, 1, 65, 42>>

\* Parameter sets repeated in front of every IDR, as some encoders write them.
MCFileRepeated ==
  <<0, 0, 0, 1, 103, 42, 0, 0, 0, 1, 104, 42, 0, 0, 0, 1, 101, 42, 42,
    0, 0, 0, 1, 65, 43, 0, 0, 0, 1, 103, 43, 0, 0, 0, 1, 104, 43,
    0, 0, 1, 101, 43>>

MCFilesGood == {MCFileStream, MCFileRepeated}
MCFilesRepeated == {MCFileRepeated}
\* An empty file, and one holding parameter sets but no slice.
MCFilesNoSlice == {<<>>, <<0, 0, 0, 1, 103, 42, 0, 0, 0, 1, 104, 42>>}
\* A slice unit longer than the buffer the model gives m_buf; in the second
\* file the unit's bytes are 65 (a type-1 header), so the call that starts
\* mid-unit after the full-buffer return hands a frame over.
MCFilesLong ==
  {<<0, 0, 0, 1, 103, 42, 0, 0, 0, 1, 101, 42, 42, 42, 42, 42, 42, 42, 42,
     42, 42, 42>>,
   <<0, 0, 0, 1, 103, 42, 0, 0, 0, 1, 101, 65, 65, 65, 65, 65, 65, 65, 65,
     65, 65, 65, 65, 65, 65>>}

MCFilesAll == MCFilesGood \cup MCFilesLong
=============================================================================
