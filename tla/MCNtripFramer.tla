--------------------------- MODULE MCNtripFramer ---------------------------
(* NtripFramer over three byte values: a header is the preamble and one    *)
(* length byte, the CRC is one byte that must be 0.                        *)
EXTENDS NtripFramer, SequencesExt

MCPayloadLength == [header \in [1 .. HEADER_LENGTH -> Bytes] |-> header[2]]
MCCrcValid == UNION {{raw \in [1 .. n -> Bytes] : raw[n] = 0} : n \in 3 .. 4}
MCChunks == UNION {[1 .. n -> Bytes] : n \in 1 .. 3}

============================================================================
