------------------------------ MODULE MCBuffers -------------------------------
(* Rings of 2 slots that double up to 4, five bytes at most, a limit of two. *)
EXTENDS Buffers

\* Of a header's first byte: -1, 0, 1 or 2, and more than ever comes for Junk.
MCBodyLen == [b \in (0..Numbers - 1) \cup {Junk} |->
               CASE b = Junk -> Numbers [] b = 0 -> -1 [] b \in {1, 2} -> b - 1 [] OTHER -> 2]
=============================================================================
