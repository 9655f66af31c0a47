--------------------------- MODULE MCSocketsInit ---------------------------
(***************************************************************************)
(* Instances of SocketsInit for TLC: the pools of a configuration.         *)
(***************************************************************************)
EXTENDS SocketsInit

CONSTANTS a, b, any6, any4

\* 127.0.0.1 with a port, a path, a bare port (the same): "::" first, then
\* "0.0.0.0"; and a name for the first and for another address.
Listens == {<<a>>, <<b>>, <<any6, any4>>, <<a, b>>}

\* The three that name one port.
SamePort == {a, any6, any4}
MCOverlaps == {pair \in SamePort \X SamePort : pair[1] # pair[2]}

\* Up to four pools.
MCLayouts == UNION {[1..n -> Listens] : n \in 0..4}

\* Three.
ThreePools == [1..3 -> Listens]
=============================================================================
