----------------------------- MODULE ByteStream -----------------------------
(***************************************************************************)
(* What the write side of one connection promises: a byte stream.  The     *)
(* bytes of the Write calls that were taken over form one sequence,        *)
(* "accepted"; the peer receives them in that order, with no byte missing, *)
(* doubled or overtaken, up to the point where the stream is cut by a      *)
(* Close or by a network error.                                            *)
(***************************************************************************)
EXTENDS Naturals, Sequences

VARIABLES accepted, \* every byte a Write call took over, in the order of the calls
          delivered \* every byte the peer has received, in order of arrival

bsvars == <<accepted, delivered>>

StreamInit == accepted = << >> /\ delivered = << >>

\* A Write call hands its payload over, behind all earlier ones: accepted grows
\* at its end.  (\E m : accepted' = accepted \o m, with m computed.)
Accept ==
  /\ Len(accepted') >= Len(accepted)
  /\ accepted = SubSeq(accepted', 1, Len(accepted))
  /\ UNCHANGED delivered

\* The next byte of the stream reaches the peer.
Deliver ==
  /\ Len(delivered) < Len(accepted)
  /\ delivered' = Append(delivered, accepted[Len(delivered) + 1])
  /\ UNCHANGED accepted

StreamSpec == StreamInit /\ [][Accept \/ Deliver]_bsvars

\* While nothing cuts the stream, every byte taken over is delivered.
StreamFairSpec == StreamSpec /\ WF_bsvars(Deliver)
=============================================================================
