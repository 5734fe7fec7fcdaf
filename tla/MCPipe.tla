------------------------------- MODULE MCPipe -------------------------------
(* A buffer of three bytes, written in chunks of two: writes of up to      *)
(* three bytes are split by the chunk, by the wrap and by a full buffer.   *)
EXTENDS Pipe
CONSTANTS r1, w1, w2
OneReader == {r1}
OneWriter == {w1}
TwoWriters == {w1, w2}
=============================================================================
