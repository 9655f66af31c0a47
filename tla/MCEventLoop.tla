---------------------------- MODULE MCEventLoop -----------------------------
(***************************************************************************)
(* Instances of EventLoop for TLC: numbers of children.                    *)
(***************************************************************************)
EXTENDS EventLoop

\* No pool, small pools, one without children, two whose sum wraps to a
\* negative int, and two whose sum wraps to 1.
MCChildCounts == {<<>>, <<1>>, <<0, 2>>, <<4, 4>>, <<8, 8>>}
=============================================================================
