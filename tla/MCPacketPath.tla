----------------------------- MODULE MCPacketPath -----------------------------
(***************************************************************************)
(* Instances of PacketPath for TLC.                                        *)
(***************************************************************************)
EXTENDS PacketPath, TLC

CONSTANTS a, b, c

\* With two threads of each kind a and c share their network thread and
\* their handle thread, and b has others.
MCFdOf == (a :> 6) @@ (b :> 7) @@ (c :> 8)
=============================================================================
