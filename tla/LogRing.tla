------------------------------ MODULE LogRing ------------------------------
(***************************************************************************)
(* The bounded log of internal/logs/ring.go, which keeps the last Limit      *)
(* bytes of what an MCP server writes to stderr.  Its mutex makes a Write    *)
(* one step; a write may be empty, or longer than the buffer.                *)
(***************************************************************************)
EXTENDS Integers, Sequences

CONSTANTS
  Bytes,
  RingLimit,   \* r.limit
  MaxWritten   \* bound: how much is written

ASSUME RingAssumption == RingLimit \in Nat \ {0} /\ MaxWritten \in Nat

VARIABLES
  buf,       \* r.buf
  written    \* all that was written so far

ringVars == <<buf, written>>

RingTypeOK == buf \in Seq(Bytes) /\ written \in Seq(Bytes)

RingInit == buf = <<>> /\ written = <<>>

Latest(s, n) == SubSeq(s, Len(s) - n + 1, Len(s))

TrimmedOne(s) == IF Len(s) > RingLimit THEN Tail(s) ELSE s   \* fault: one byte only
Trimmed(s)    == IF Len(s) > RingLimit THEN Latest(s, RingLimit) ELSE s

RingWrite(p) ==
  /\ Len(written) + Len(p) <= MaxWritten
  /\ buf' = Trimmed(buf \o p)
  /\ written' = written \o p

RingNext == \E n \in 0 .. MaxWritten : \E p \in [1..n -> Bytes] : RingWrite(p)

RingSpec == RingInit /\ [][RingNext]_ringVars

-----------------------------------------------------------------------------
(* Ring: "keeps the most recent log output" however it was cut into writes: its *)
(* contents are the end of all that was written.                             *)
KeepsLatest == buf = IF Len(written) > RingLimit THEN Latest(written, RingLimit) ELSE written
=============================================================================
