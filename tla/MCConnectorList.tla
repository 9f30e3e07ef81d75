--------------------------- MODULE MCConnectorList ---------------------------
(***************************************************************************)
(* Instances of ConnectorList for TLC.                                     *)
(***************************************************************************)
EXTENDS ConnectorList, TLC

CONSTANTS k1, k2, k3

\* What the memory of a Connector may hold: zero, or a time that refresh sets
\* in the middle of a behaviour, before which it is a future one.
Memories == {0, 4}

MCExempt == {k2}

Sym == Permutations({k1, k3})
=============================================================================
