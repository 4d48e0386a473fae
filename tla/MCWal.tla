------------------------------- MODULE MCWal -------------------------------
(* The instance of the write-ahead log for TLC. *)
EXTENDS Wal

\* One operation per frame, two frames, a group led by a checkpoint frame, and
\* a frame of two operations, so that a checkpoint could fall inside one.
MCShapes == {<<1>>, <<1, 1>>, <<0, 1>>, <<2>>}
=============================================================================
