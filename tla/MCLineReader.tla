---------------------------- MODULE MCLineReader ----------------------------
(***************************************************************************)
(* Checks LineReader's Pump, the reassembly loop of Daemon._handle_log,    *)
(* against CompleteLines: a stream of one generation is read by           *)
(* successive calls, each over any non-empty prefix of what is unread      *)
(* (what the pipe happened to hold when select() reported it readable).   *)
(***************************************************************************)
EXTENDS LineReader, Naturals, FiniteSets

CONSTANTS Lines,    \* daemon lines (model values)
          MaxLen    \* longest stream enumerated

VARIABLES stream,   \* everything the daemon writes, fixed per behaviour
          unread,   \* the part of it not yet read by _handle_log
          pending,  \* self.pending_line
          logdata   \* self.logdata

vars == <<stream, unread, pending, logdata>>

Items == {Item(p, l) : p \in {"whole", "head", "tail"}, l \in Lines}

Streams == {s \in BoundedSeq(Items, MaxLen) : WellFormed(s)}

Init ==
    /\ stream \in Streams
    /\ unread = stream
    /\ pending = None
    /\ logdata = <<>>

\* One call of _handle_log when the first k unread items are readable.
Read(k) ==
    LET r == Pump(pending, SubSeq(unread, 1, k))
    IN  /\ logdata' = logdata \o r.lines
        /\ pending' = r.pending
        /\ unread' = SubSeq(unread, k + 1, Len(unread))
        /\ UNCHANGED stream

Next == \E k \in 1..Len(unread) : Read(k)

Spec == Init /\ [][Next]_vars

TypeOK ==
    /\ stream \in Streams
    /\ unread \in Seq(Items)
    /\ pending \in {None} \cup [ln : Lines, glued : BOOLEAN]
    /\ logdata \in Seq([ln : Lines, glued : BOOLEAN])

\* Chunk-boundary independence (spec section 8): however the stream is cut
\* into reads by _handle_log, the lines it has delivered followed by those
\* the rest of the stream still yields are exactly the stream's complete
\* lines, none glued, and the partial line kept at the end is the stream's
\* unterminated last line.
ChunkBoundaryIndependence ==
    LET rest == Pump(pending, unread)
    IN  /\ logdata \o rest.lines = CompleteLines(stream)
        /\ rest.pending =
              IF stream # <<>> /\ Last(stream).part = "head"
              THEN Entry(Last(stream).ln, FALSE) ELSE None
=============================================================================
