--------------------------- MODULE MCHybridClock ----------------------------
(***************************************************************************)
(* Instances of HybridClock: a 32-bit counter shrunk to UintMax, a batch   *)
(* of two ticks, a remote timestamp ahead of the local time.               *)
(***************************************************************************)
EXTENDS HybridClock, TLC

CONSTANTS d1, b1, b2

MCDirect == {d1}
MCBatched == {b1, b2}
MCIncoming == {Ts(2, 0, 2)}
Symmetry == Permutations(MCBatched)
MCNone == {}
\* A remote timestamp whose logical counter is already full.
MCFullIncoming == {Ts(2, UintMax, 2)}
=============================================================================
