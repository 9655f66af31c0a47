------------------------------ MODULE LogLine -------------------------------
(***************************************************************************)
(* The length of a line of the log, as vplog (pmf_log.c) keeps it: each    *)
(* snprintf adds the length its text would have, which may be more than    *)
(* there is room for.  external_logger is never set.                       *)
(***************************************************************************)
EXTENDS Integers

\* MAX_LINE_LENGTH
BufSize == 1024

\* 2^64, for a size_t.
SizeModulus == 18446744073709551616

\* Room the next snprintf is given, as a size_t holds it.
Room(len) == (BufSize - len) % SizeModulus

\* The time, at most 31 characters, which a child leaves out; then the level
\* and, for the level DEBUG, where the message comes from.
Prefix(time, level) == time + level

PrefixTruncated(prefix) == prefix > BufSize - 1

MessageTruncated(prefix, message) ==
  PrefixTruncated(prefix) \/ prefix + message >= BufSize

\* errno is 0 for a message without PLOG_HAVE_ERRNO.
Truncated(prefix, message, errno) ==
  MessageTruncated(prefix, message) \/ prefix + message + errno >= BufSize

\* What write() is given, the newline included.
Length(prefix, message, errno) ==
  (IF Truncated(prefix, message, errno) THEN BufSize - 1 ELSE prefix + message + errno) + 1
=============================================================================
