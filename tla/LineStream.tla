----------------------------- MODULE LineStream -----------------------------
(***************************************************************************)
(* runStream of internal/pyenv: the lines a command prints, handed to the    *)
(* job's events while it runs.  Four parties: the command with what it        *)
(* forks, the copier that os/exec starts, the scanner's goroutine, and the    *)
(* caller that waits for the first three in turn.                            *)
(***************************************************************************)
EXTENDS Naturals, Sequences

CONSTANTS
  MaxPrinted,   \* bound: lines printed
  PipeLines     \* bound: what the operating system's pipe holds

ASSUME StreamAssumption == MaxPrinted \in Nat /\ PipeLines \in Nat \ {0}

VARIABLES
  printed,   \* what the command and its descendants have printed
  exited,    \* the command has ended
  kept,      \* a descendant of it holds the write end of its pipe
  piped,     \* in the operating system's pipe
  copier,    \* "reads", "writes" what it read to the io.Pipe, or "done"
  offered,   \* what it writes there
  scanner,   \* "scans" or "done" (close(done))
  held,      \* what it read there and Scan has not returned
  scanned,   \* the lines Scan has returned
  emitted,   \* the lines handed to emit
  shutPipe,  \* pw.Close()
  caller     \* "wait" in cmd.Wait, "drain" at <-done, "returned"

sinkVars   == <<scanner, held, scanned, emitted>>
streamVars == <<printed, exited, kept, piped, copier, offered, sinkVars, shutPipe, caller>>

\* A line is blank (or a bare \r), longer than the scanner takes, or neither; n tells
\* lines with the same text apart.
Kinds == {"blank", "short", "long"}
Lines == [n : Nat, kind : Kinds]

StreamTypeOK ==
  /\ printed \in Seq(Lines)
  /\ exited \in BOOLEAN
  /\ kept \in BOOLEAN
  /\ piped \in Seq(Lines)
  /\ copier \in {"reads", "writes", "done"}
  /\ offered \in Seq(Lines)
  /\ scanner \in {"scans", "done"}
  /\ held \in Seq(Lines)
  /\ scanned \in Seq(Lines)
  /\ emitted \in Seq(Lines)
  /\ shutPipe \in BOOLEAN
  /\ caller \in {"wait", "drain", "returned"}

StreamInit ==
  /\ printed = <<>> /\ exited = FALSE /\ kept = FALSE /\ piped = <<>>
  /\ copier = "reads" /\ offered = <<>>
  /\ scanner = "scans" /\ held = <<>> /\ scanned = <<>> /\ emitted = <<>>
  /\ shutPipe = FALSE /\ caller = "wait"

-----------------------------------------------------------------------------
(* The command *)

PrintLine(kind) ==
  /\ ~exited \/ kept
  /\ Len(printed) < MaxPrinted /\ Len(piped) < PipeLines
  /\ LET line == [n |-> Len(printed) + 1, kind |-> kind]
     IN  printed' = Append(printed, line) /\ piped' = Append(piped, line)
  /\ UNCHANGED <<exited, kept, copier, offered, sinkVars, shutPipe, caller>>

\* It ends, or the job's context kills it; what it forked may keep its output.
Exit ==
  /\ ~exited
  /\ exited' = TRUE
  /\ kept' \in BOOLEAN
  /\ UNCHANGED <<printed, piped, copier, offered, sinkVars, shutPipe, caller>>

DescendantExits ==
  /\ kept
  /\ kept' = FALSE
  /\ UNCHANGED <<printed, exited, piped, copier, offered, sinkVars, shutPipe, caller>>

-----------------------------------------------------------------------------
(* The copier: stdout and stderr are one writer, so there is one. *)

Copy ==
  /\ copier = "reads" /\ piped # <<>>
  /\ copier' = "writes"
  /\ offered' = piped
  /\ piped' = <<>>
  /\ UNCHANGED <<printed, exited, kept, sinkVars, shutPipe, caller>>

\* io.Pipe holds nothing: the write returns when all of it was read.
Copied ==
  /\ copier = "writes" /\ offered = <<>>
  /\ copier' = "reads"
  /\ UNCHANGED <<printed, exited, kept, piped, offered, sinkVars, shutPipe, caller>>

\* End of file: nobody holds the write end any more.
CopyEnds ==
  /\ copier = "reads" /\ piped = <<>> /\ exited /\ ~kept
  /\ copier' = "done"
  /\ UNCHANGED <<printed, exited, kept, piped, offered, sinkVars, shutPipe, caller>>

-----------------------------------------------------------------------------
(* The scanner *)

\* A read takes some of what is offered; a line longer than the buffer is never taken.
TakeLines ==
  /\ scanner = "scans" /\ held = <<>>
  /\ \E n \in 1..Len(offered) :
       /\ \A i \in 1..n : offered[i].kind # "long"
       /\ held' = SubSeq(offered, 1, n)
       /\ offered' = SubSeq(offered, n + 1, Len(offered))
  /\ UNCHANGED <<printed, exited, kept, piped, copier, scanner, scanned, emitted,
                 shutPipe, caller>>

\* Scan returns a line, and it is emitted unless it is blank.
EmitLine ==
  /\ held # <<>>
  /\ scanned' = Append(scanned, Head(held))
  /\ held' = Tail(held)
  /\ emitted' = IF Head(held).kind = "blank" THEN emitted ELSE Append(emitted, Head(held))
  /\ UNCHANGED <<printed, exited, kept, piped, copier, offered, scanner, shutPipe, caller>>

\* bufio.ErrTooLong: Scan returns false and nobody reads on, or closes, the io.Pipe.  The
\* buffer may have filled at the end of a write, or in the middle of one.
TooLong ==
  /\ scanner = "scans" /\ held = <<>> /\ offered # <<>>
  /\ Head(offered).kind = "long"
  /\ scanner' = "done"
  /\ offered' \in {offered, Tail(offered)}
  /\ UNCHANGED <<printed, exited, kept, piped, copier, held, scanned, emitted, shutPipe,
                 caller>>

ScanEnds ==
  /\ scanner = "scans" /\ held = <<>> /\ offered = <<>> /\ shutPipe
  /\ scanner' = "done"
  /\ UNCHANGED <<printed, exited, kept, piped, copier, offered, held, scanned, emitted,
                 shutPipe, caller>>

-----------------------------------------------------------------------------
(* The caller *)

\* cmd.Wait waits for the copier too; then pw.Close() ends the scanner's input.
ClosesLater == FALSE                           \* fault: pw.Close() after <-done
Closes      == TRUE

WaitReturns ==
  /\ caller = "wait" /\ exited /\ copier = "done"
  /\ caller' = "drain"
  /\ shutPipe' = Closes
  /\ UNCHANGED <<printed, exited, kept, piped, copier, offered, sinkVars>>

DrainedAtOnce == TRUE                          \* fault: does not wait for the scanner
Drained == scanner = "done"

Return ==
  /\ caller = "drain" /\ Drained
  /\ caller' = "returned"
  /\ UNCHANGED <<printed, exited, kept, piped, copier, offered, sinkVars, shutPipe>>

Copying    == Copy \/ Copied \/ CopyEnds
Scanning   == TakeLines \/ EmitLine \/ TooLong \/ ScanEnds
Calling    == WaitReturns \/ Return
StreamNext ==
  \/ (\E kind \in Kinds : PrintLine(kind)) \/ Exit \/ DescendantExits
  \/ Copying \/ Scanning \/ Calling

StreamSpec == StreamInit /\ [][StreamNext]_streamVars

\* The three goroutines run when they can; the command prints and ends as it likes, and
\* so does what it forks.
StreamFairness ==
  WF_streamVars(Copying) /\ WF_streamVars(Scanning) /\ WF_streamVars(Calling)

-----------------------------------------------------------------------------
(* Properties *)

AllFit == \A i \in 1..Len(printed) : printed[i].kind # "long"

Shown(k) == \E i \in 1..Len(emitted) : emitted[i] = printed[k]

\* The events show lines that were printed and are not blank, in order and none twice,
\* with none left out before one that is shown, and all of them when runStream returns:
\* the last lines are still in the pipes when the command ends.
OutputComplete ==
  /\ \A i \in 1..Len(emitted) :
       \E k \in 1..Len(printed) : emitted[i] = printed[k] /\ printed[k].kind # "blank"
  /\ \A i, m \in 1..Len(emitted) : i < m => emitted[i].n < emitted[m].n
  /\ \A k \in 1..Len(printed) :
       /\ printed[k].kind # "blank"
       /\ (caller = "returned" /\ AllFit) \/ \E i \in 1..Len(emitted) : emitted[i].n > k
       => Shown(k)

\* When the command has ended runStream returns, but for two cases, in which no deadline
\* of the job helps.  A line longer than the 1 MiB the scanner takes ends the scanner: then
\* the copier may write for ever, and cmd.Wait waits for the copier.  And a descendant of
\* the command that keeps its output keeps the copier reading.
StreamReturns == <>[](exited /\ ~kept /\ AllFit => caller = "returned")
=============================================================================
