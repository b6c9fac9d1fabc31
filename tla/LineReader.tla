----------------------------- MODULE LineReader -----------------------------
(***************************************************************************)
(* Line reassembly of the supervisor's log watcher, Daemon._handle_log in  *)
(* src/src/sendrcv/tests/sendrcv_tests.py.                                  *)
(*                                                                         *)
(* The daemon's stderr is a byte stream.  It is abstracted to a sequence   *)
(* of write items: a line written in one write ("whole"), or the first     *)
(* part of a line without its newline ("head") followed, in a later write, *)
(* by the rest of it with the newline ("tail").  One call of _handle_log   *)
(* iterates "for line in fd" over everything readable: a head followed in  *)
(* the same read by its tail is one complete line; a head at the end of    *)
(* the read is the partial line kept in pending_line.  A kept partial line *)
(* is prefixed to the next line read, whatever line that is: when the two  *)
(* are not parts of the same line the result is "glued".                   *)
(***************************************************************************)
EXTENDS Sequences, SequencesExt

CONSTANT None   \* Python's None: no pending partial line

\* A write to the daemon's stderr.
Item(part, ln) == [part |-> part, ln |-> ln]

\* A line as _handle_log delivers it: the daemon line it ends with, and
\* whether a partial line of another daemon line was prefixed to it.
Entry(ln, glued) == [ln |-> ln, glued |-> glued]

\* line = self.pending_line + line: the pending partial line p, if any,
\* prefixed to the text of daemon line ln.
Join(p, ln) ==
    IF p = None THEN Entry(ln, FALSE)
    ELSE Entry(ln, p.ln # ln \/ p.glued)

\* Mutant: self.pending_line is not reset once prefixed to a line.
RECURSIVE PumpKeep(_, _)
PumpKeep(p, s) ==
    IF s = <<>> THEN [lines |-> <<>>, pending |-> p]
    ELSE IF Head(s).part = "head" /\ Len(s) = 1
    THEN [lines |-> <<>>, pending |-> Join(p, Head(s).ln)]
    ELSE LET rest == IF Head(s).part = "head" THEN Tail(Tail(s)) ELSE Tail(s)
             r    == PumpKeep(p, rest)
         IN  [lines |-> <<Join(p, Head(s).ln)>> \o r.lines,
              pending |-> r.pending]

\* One call of _handle_log over the readable items s with pending line p:
\* the complete lines it appends to logdata, in order, and the new
\* pending_line.  A head followed by its tail in s is read as one line.
RECURSIVE PumpFrom(_, _)
PumpFrom(p, s) ==
    IF s = <<>> THEN [lines |-> <<>>, pending |-> p]
    ELSE IF Head(s).part = "head" /\ Len(s) = 1
    THEN [lines |-> <<>>, pending |-> Join(p, Head(s).ln)]
    ELSE LET rest == IF Head(s).part = "head" THEN Tail(Tail(s)) ELSE Tail(s)
             r    == PumpFrom(None, rest)
         IN  [lines |-> <<Join(p, Head(s).ln)>> \o r.lines,
              pending |-> r.pending]

Pump(p, s) == PumpFrom(p, s)

\* got_line: whether the call appended at least one complete line.
GotLine(p, s) == Pump(p, s).lines # <<>>

----------------------------------------------------------------------------
(* Reference: the lines a stream holds, read in one piece from its start.   *)

\* The daemon lines completed in stream s, in order.
CompleteLines(s) ==
    [i \in 1..Len(SelectSeq(s, LAMBDA it : it.part # "head")) |->
        Entry(SelectSeq(s, LAMBDA it : it.part # "head")[i].ln, FALSE)]

\* Streams one daemon writes: every head is followed by the tail of the same
\* line, except a head that ends the stream.
WellFormed(s) ==
    \A i \in 1..Len(s) :
        /\ s[i].part = "head" /\ i < Len(s) =>
               s[i+1] = Item("tail", s[i].ln)
        /\ s[i].part = "tail" => i > 1 /\ s[i-1] = Item("head", s[i].ln)
=============================================================================
