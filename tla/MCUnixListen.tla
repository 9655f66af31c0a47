---------------------------- MODULE MCUnixListen ----------------------------
(***************************************************************************)
(* Instances of UnixListen for TLC: the circumstances of the runs.         *)
(***************************************************************************)
EXTENDS UnixListen

\* One after the other, with the faults that leave the test of the path and
\* its replacement alone; or in parallel, when any call may fail.
MCRegimes ==
  {[serial |-> TRUE, faults |-> {"socket", "chown", "listen"}],
   [serial |-> FALSE,
    faults |-> {"socket", "test", "unlink", "bind", "chown", "listen"}]}

\* In parallel, and nothing fails.
ParallelStarts == {[serial |-> FALSE, faults |-> {}]}
=============================================================================
