---------------------------- MODULE MCChunkFile ----------------------------
(* Instance of ChunkFile for TLC.                                           *)
EXTENDS ChunkFile

\* Nothing, part of a chunk, and a string that covers, from the last byte of a
\* chunk on, the whole next chunk and reaches into a third.
SomePayloads == {<<>>, <<1>>, <<1, 2>>, <<2, 1, 1, 2, 1>>}

OneByte == {<<1>>}
=============================================================================
