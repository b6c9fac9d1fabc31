------------------------------- MODULE Runner -------------------------------
(***************************************************************************)
(* The runner scripts that drive one SiLK daemon through its stderr:       *)
(* flowcap-daemon.py, rwflowpack-daemon.py, rwflowappend-daemon.py and     *)
(* rwpollexec-daemon.py, with TimedReadline of tests/daemon_test.py.       *)
(*                                                                         *)
(* Each script starts the daemon with stderr on a pipe and loops on        *)
(* line_reader(1): a complete line, "" after one second of silence, or     *)
(* None at end of file.  The body of the loop counts the lines the test    *)
(* waits for, sends SIGTERM on a daemon timeout or on reaching the limit,  *)
(* notes "Stopped logging", and sends SIGKILL 15 seconds after SIGTERM.    *)
(* rwpollexec-daemon.py runs the daemon as a process group leader, kills   *)
(* the group and leaves the loop, and also leaves it 5 seconds after the   *)
(* daemon has ended: a command the daemon ran (this script in execute      *)
(* mode, "hang") may hold the pipe open after the daemon is gone.          *)
(*                                                                         *)
(* The scripts compare time.time() with their deadlines: a second passes  *)
(* in each select() timeout, and any number of seconds may pass between    *)
(* two steps of the loop (Clock), so a deadline can pass while lines wait  *)
(* in the buffer or the pipe.  Elapsed times are ages in seconds, capped   *)
(* one past the deadline they are compared with.                           *)
(* The daemon is a black box: it writes lines, closes its stderr, exits    *)
(* with any code at any time, ignores SIGTERM if it likes, and dies on     *)
(* SIGKILL.                                                                *)
(***************************************************************************)
EXTENDS LineReader, Integers, FiniteSets

CONSTANTS Scripts,         \* the runner scripts checked
          Limit,           \* options.limit, or the file limit computed
          RecNums,         \* record counts a "Closing file" line may report
          ExitCodes,       \* exit codes the daemon may return by itself
          DAEMON_TIMEOUT,  \* options.daemon_timeout, in loop timeouts
          KILL_AFTER,      \* the 15 seconds between SIGTERM and SIGKILL
          ENDED_GRACE,     \* rwpollexec: the 5 seconds after the daemon ended
          MaxWrites,       \* per script: bound on the lines the daemon writes
          SplitLines       \* whether a line may reach the pipe in two writes

ASSUME Scripts \subseteq {"flowcap", "rwflowpack", "rwflowappend", "rwpollexec"}
\* rwflowappend-daemon.py exits with 1 (lines 117-120) and
\* rwpollexec-daemon.py with 255 (185-187) before starting the daemon when
\* the limit is zero.
ASSUME Scripts \cap {"rwflowappend", "rwpollexec"} # {} => Limit > 0
ASSUME /\ Limit \in Nat /\ RecNums \subseteq Nat /\ ExitCodes \subseteq Nat
       /\ {DAEMON_TIMEOUT, KILL_AFTER, ENDED_GRACE} \subseteq Nat

VARIABLES
    script,   \* the script being run, fixed
    rpc,      \* runner control: "read" (the while loop), "final", "done"
    buf,      \* TimedReadline's self.buf, as write items
    r,        \* the runner's locals
    status,   \* the runner's exit status, once done
    dstat,    \* daemon: "running", "exited" or "killed"
    rc,       \* proc.returncode once the daemon is gone
    wopen,    \* the daemon's stderr is still open
    holder,   \* rwpollexec: a hanging command holds the pipe
    pipe,     \* written and not yet read
    midline,  \* the line whose head is written and tail is not
    nw,       \* writes so far
    wrote     \* history: the complete lines written, in order

vars == <<script, rpc, buf, r, status, dstat, rc, wopen, holder, pipe, midline,
          nw, wrote>>

Pollexec == script = "rwpollexec"

Outcomes == {"success", "nonzero", "killed"}

\* The lines the loop tells apart; any other line changes nothing.
Line(kind, n) == [kind |-> kind, n |-> n]
\* A completion message carries its outcome, never a count.
Complete(o) == [kind |-> "complete", outcome |-> o]
Empty == Line("none", 0)     \* the "" returned after a select() timeout

DaemonLines ==
    CASE script \in {"flowcap", "rwflowpack"} ->
             {Line("recs", n) : n \in RecNums} \cup
             {Line("started", 0), Line("closing", 0)}
      [] script = "rwflowappend" -> {Line("append", 0), Line("closing", 0)}
      [] Pollexec ->
             {Line("running", 0), Line("closing", 0)} \cup
             {Complete(o) : o \in Outcomes}

\* What sys.exit gives: the daemon's code, -signal, or 1 for "not exited".
Statuses == ExitCodes \cup {-9, 1}

----------------------------------------------------------------------------
(* TimedReadline.__call__ (daemon_test.py 51-66).                          *)

\* x = self.buf.find('\n') >= 0: the buffer holds a complete line.
HasLine(b) ==
    /\ b # <<>>
    /\ b[1].part = "whole" \/ (b[1].part = "head" /\ Len(b) >= 2)

\* self.buf = self.buf[x+1:]: what follows the first line.
AfterLine(b) ==
    IF b[1].part = "whole" THEN Tail(b) ELSE SubSeq(b, 3, Len(b))

\* Some process still holds the write end of the pipe: without one,
\* os.read returns b"" and the reader returns None.
Writer == wopen \/ holder

Cap(n, m) == IF n > m THEN m ELSE n

\* One second passes in select(): every elapsed time grows.
Tick(s) ==
    [s EXCEPT !.since = Cap(@ + 1, DAEMON_TIMEOUT + 1),
              !.sdt = IF @ = None THEN None ELSE Cap(@ + 1, KILL_AFTER + 1),
              !.ended = IF @ = None THEN None ELSE Cap(@ + 1, ENDED_GRACE + 1)]

----------------------------------------------------------------------------
(* The steps of the loop body, in the scripts' order.  s is the record of  *)
(* the runner's locals; sig is the signal the step sends ("none", "kill"   *)
(* to proc.pid, "killpg" to its group) and brk a break out of the loop.    *)

\* term = True; shutdowntime = time.time(); os.kill(proc.pid, SIGTERM)
Terminate(s, cond) ==
    IF cond /\ ~s.term THEN [s EXCEPT !.term = TRUE, !.sdt = 0] ELSE s

\* Mutant: the daemon timeout sends SIGTERM but leaves shutdowntime unset.
CheckTimeoutNoDeadline(s) ==
    IF s.since > DAEMON_TIMEOUT /\ ~s.term THEN [s EXCEPT !.term = TRUE] ELSE s

\* "Check for timeout": the daemon has been quiet for daemon_timeout.
CheckTimeout(s) == Terminate(s, s.since > DAEMON_TIMEOUT)

\* flowcap, rwflowpack: a "Closing file" line with num > 0 records adds
\* them and restarts the timer; reaching a non-zero limit sends SIGTERM.
CountRecords(s, l) ==
    IF l.kind = "recs" /\ l.n > 0
    THEN Terminate([s EXCEPT !.count = @ + l.n, !.since = 0],
                   Limit > 0 /\ s.count + l.n >= Limit)
    ELSE s

\* rwflowappend: each "APPEND OK" counts one file.
CountAppends(s, l) ==
    IF l.kind = "append"
    THEN Terminate([s EXCEPT !.count = @ + 1, !.since = 0],
                   s.count + 1 >= Limit)
    ELSE s

\* rwpollexec: "Running [n]:" and the three completion messages.
CountRunComplete(s, l) ==
    LET s1 == IF l.kind = "running"
              THEN [s EXCEPT !.runc = @ + 1, !.since = 0] ELSE s
    IN  IF l.kind = "complete"
        THEN Terminate([s1 EXCEPT !.outc[l.outcome] = @ + 1, !.count = @ + 1,
                                  !.since = 0],
                       s1.count + 1 >= Limit)
        ELSE s1

\* flowcap: the first "Reader thread started" starts the network senders.
StartSenders(s, l) ==
    IF l.kind = "started" /\ s.started
    THEN [s EXCEPT !.sending = TRUE, !.started = FALSE] ELSE s

\* rwflowpack: "Starting flush timer" starts the senders and copies and
\* moves the after-start files.
StartFlowpack(s, l) ==
    IF l.kind = "started" /\ s.started
    THEN [s EXCEPT !.sending = TRUE, !.after = TRUE, !.started = FALSE]
    ELSE s

\* "Check for clean shutdown".
Closing(s, l) == IF l.kind = "closing" THEN [s EXCEPT !.clean = TRUE] ELSE s

\* 15 seconds after SIGTERM: SIGKILL, and shutdowntime = None.
KillLate(s) ==
    IF s.sdt # None /\ s.sdt > KILL_AFTER
    THEN [s EXCEPT !.sdt = None, !.sig = "kill"] ELSE s

\* rwpollexec: os.killpg and break; killpg raises OSError, and the loop
\* goes on, when no process of the group is left (grp).
KillPgLate(s, grp) ==
    IF s.sdt # None /\ s.sdt > KILL_AFTER
    THEN [s EXCEPT !.sdt = None, !.sig = IF grp THEN "killpg" ELSE "none",
                   !.brk = grp]
    ELSE s

\* rwpollexec: proc.poll() notes when the daemon has ended, and the loop
\* is left ENDED_GRACE seconds later.
PollEnded(s, gone) ==
    IF s.ended = None /\ gone THEN [s EXCEPT !.ended = 0] ELSE s
EndedBreak(s) ==
    IF s.ended # None /\ s.ended > ENDED_GRACE
    THEN [s EXCEPT !.brk = TRUE] ELSE s

\* The loop bodies, one per script.
BodyFlowcap(s, l) ==
    KillLate(Closing(StartSenders(CountRecords(CheckTimeout(s), l), l), l))
BodyFlowpack(s, l) ==
    KillLate(Closing(StartFlowpack(CountRecords(CheckTimeout(s), l), l), l))
BodyAppend(s, l) ==
    KillLate(Closing(CountAppends(CheckTimeout(s), l), l))
BodyPollexec(s, l, gone, grp) ==
    LET k == KillPgLate(Closing(CountRunComplete(CheckTimeout(s), l), l), grp)
    IN  IF k.brk THEN k ELSE EndedBreak(PollEnded(k, gone))

Body(s, l) ==
    CASE script = "flowcap"      -> BodyFlowcap(s, l)
      [] script = "rwflowpack"   -> BodyFlowpack(s, l)
      [] script = "rwflowappend" -> BodyAppend(s, l)
      [] Pollexec -> BodyPollexec(s, l, dstat # "running",
                                  holder \/ s.ended = None)

\* SIGKILL to the daemon (and with killpg to the hanging command); a
\* signal to a process already gone has no effect.
Signal(sig) ==
    LET hit == sig # "none" /\ dstat = "running"
    IN  /\ dstat' = IF hit THEN "killed" ELSE dstat
        /\ rc' = IF hit THEN -9 ELSE rc
        /\ wopen' = (wopen /\ ~hit)
        /\ holder' = (holder /\ sig # "killpg")

\* The rest of one iteration once line l is in hand: the body, its
\* signal, and either the next line_reader(1) or the break.
Apply(k) ==
    /\ r' = [k EXCEPT !.sig = "none", !.brk = FALSE]
    /\ rpc' = IF k.brk THEN "final" ELSE "read"
    /\ Signal(k.sig)

----------------------------------------------------------------------------
(* Runner actions.                                                         *)

Init ==
    /\ script \in Scripts
    /\ rpc = "read"
    /\ buf = <<>>
    /\ r = [since |-> 0, sdt |-> None, ended |-> None, term |-> FALSE,
            clean |-> FALSE, count |-> 0, runc |-> 0,
            outc |-> [o \in Outcomes |-> 0], started |-> TRUE,
            sending |-> FALSE, after |-> FALSE, sig |-> "none", brk |-> FALSE,
            eof |-> FALSE]
    /\ status = None
    /\ dstat = "running" /\ rc = None /\ wopen = TRUE /\ holder = FALSE
    /\ pipe = <<>> /\ midline = None /\ nw = 0 /\ wrote = <<>>

\* Mutant: self.buf = more instead of self.buf += more.
FillReplace ==
    /\ rpc = "read" /\ ~HasLine(buf) /\ pipe # <<>>
    /\ \E k \in 1..Len(pipe) :
          /\ buf' = SubSeq(pipe, 1, k)
          /\ pipe' = SubSeq(pipe, k + 1, Len(pipe))
    /\ UNCHANGED <<script, rpc, r, status, dstat, rc, wopen, holder, midline, nw,
                   wrote>>

\* select() reports the pipe readable and os.read takes what it holds,
\* up to LINEBUF bytes: some prefix of the pending writes.
Fill ==
    /\ rpc = "read" /\ ~HasLine(buf) /\ pipe # <<>>
    /\ \E k \in 1..Len(pipe) :
          /\ buf' = buf \o SubSeq(pipe, 1, k)
          /\ pipe' = SubSeq(pipe, k + 1, Len(pipe))
    /\ UNCHANGED <<script, rpc, r, status, dstat, rc, wopen, holder, midline, nw,
                   wrote>>

\* line_reader(1) returns the first line of the buffer, and the body runs.
ReadLine ==
    /\ rpc = "read" /\ HasLine(buf)
    /\ buf' = AfterLine(buf)
    /\ Apply(Body(r, buf[1].ln))
    /\ UNCHANGED <<script, status, pipe, midline, nw, wrote>>

\* select() times out after one second: the body runs on "".
Timeout ==
    /\ rpc = "read" /\ ~HasLine(buf) /\ pipe = <<>> /\ Writer
    /\ Apply(Body(Tick(r), Empty))
    /\ UNCHANGED <<script, buf, status, pipe, midline, nw, wrote>>

\* End of file: line_reader returns None, dropping a partial line, and
\* the while loop ends.
Eof ==
    /\ rpc = "read" /\ ~HasLine(buf) /\ pipe = <<>> /\ ~Writer
    /\ rpc' = "final"
    /\ r' = [r EXCEPT !.eof = TRUE]
    /\ UNCHANGED <<script, buf, status, dstat, rc, wopen, holder, pipe, midline,
                   nw, wrote>>

\* Wall-clock time passes between two steps of the loop: while a read
\* returns, a line is logged and matched, or the runner is not scheduled.
Clock ==
    /\ rpc = "read"
    /\ r' = Tick(r) /\ r' # r
    /\ UNCHANGED <<script, rpc, buf, status, dstat, rc, wopen, holder, pipe,
                   midline, nw, wrote>>

\* The finally block and the exit: stop the senders, sleep, poll, SIGKILL
\* a daemon still running, and exit with its code or 1 if it had none.
Final ==
    /\ rpc = "final" /\ ~Pollexec
    /\ rpc' = "done"
    /\ r' = [r EXCEPT !.sending = FALSE]
    /\ status' = IF dstat = "running" THEN 1 ELSE rc
    /\ Signal(IF dstat = "running" THEN "kill" ELSE "none")
    /\ UNCHANGED <<script, buf, pipe, midline, nw, wrote>>

\* Mutant: sys.exit(proc.returncode) without the None check.
FinalPollexecNoCheck ==
    /\ rpc = "final" /\ Pollexec
    /\ rpc' = "done"
    /\ status' = rc
    /\ Signal("killpg")
    /\ UNCHANGED <<script, buf, r, pipe, midline, nw, wrote>>

\* rwpollexec: the same with killpg, then killpg "for good luck".
FinalPollexec ==
    /\ rpc = "final" /\ Pollexec
    /\ rpc' = "done"
    /\ status' = IF dstat = "running" THEN 1 ELSE rc
    /\ Signal("killpg")
    /\ UNCHANGED <<script, buf, r, pipe, midline, nw, wrote>>

----------------------------------------------------------------------------
(* Daemon actions.                                                         *)

WriteLine(l) ==
    /\ dstat = "running" /\ wopen /\ midline = None /\ nw < MaxWrites[script]
    /\ pipe' = Append(pipe, Item("whole", l))
    /\ wrote' = Append(wrote, l)
    /\ nw' = nw + 1
    /\ UNCHANGED <<script, rpc, buf, r, status, dstat, rc, wopen, holder, midline>>

WriteHead(l) ==
    /\ SplitLines
    /\ dstat = "running" /\ wopen /\ midline = None /\ nw < MaxWrites[script]
    /\ pipe' = Append(pipe, Item("head", l))
    /\ midline' = l
    /\ nw' = nw + 1
    /\ UNCHANGED <<script, rpc, buf, r, status, dstat, rc, wopen, holder, wrote>>

WriteTail ==
    /\ dstat = "running" /\ wopen /\ midline # None
    /\ pipe' = Append(pipe, Item("tail", midline))
    /\ wrote' = Append(wrote, midline)
    /\ midline' = None
    /\ UNCHANGED <<script, rpc, buf, r, status, dstat, rc, wopen, holder, nw>>

\* The daemon exits by itself (after SIGTERM or not) with code c.
Exit(c) ==
    /\ dstat = "running"
    /\ dstat' = "exited" /\ rc' = c /\ wopen' = FALSE
    /\ UNCHANGED <<script, rpc, buf, r, status, holder, pipe, midline, nw, wrote>>

\* The daemon closes its stderr and goes on running.
CloseLog ==
    /\ dstat = "running" /\ wopen
    /\ wopen' = FALSE
    /\ UNCHANGED <<script, rpc, buf, r, status, dstat, rc, holder, pipe, midline, nw,
                   wrote>>

\* rwpollexec runs a command in "hang" mode (execute(), lines 53-72): it
\* ignores every signal it can and keeps the inherited stderr open.
SpawnHolder ==
    /\ Pollexec /\ dstat = "running" /\ wopen /\ ~holder
    /\ holder' = TRUE
    /\ UNCHANGED <<script, rpc, buf, r, status, dstat, rc, wopen, pipe, midline, nw,
                   wrote>>

RunnerStep == Fill \/ ReadLine \/ Timeout \/ Eof \/ Final \/ FinalPollexec

DaemonStep ==
    \/ \E l \in DaemonLines : WriteLine(l) \/ WriteHead(l)
    \/ WriteTail
    \/ \E c \in ExitCodes : Exit(c)
    \/ CloseLog
    \/ SpawnHolder

Next == RunnerStep \/ DaemonStep \/ Clock

\* The runner is one process that always gets to run; the daemon may do
\* anything or nothing.
Spec == Init /\ [][Next]_vars /\ WF_vars(RunnerStep)

----------------------------------------------------------------------------
(* Properties.                                                             *)

TypeOK ==
    /\ script \in Scripts
    /\ rpc \in {"read", "final", "done"}
    /\ buf \in Seq([part : {"whole", "head", "tail"}, ln : DaemonLines])
    /\ r.since \in 0..DAEMON_TIMEOUT + 1
    /\ r.sdt \in {None} \cup 0..KILL_AFTER + 1
    /\ r.ended \in {None} \cup 0..ENDED_GRACE + 1
    /\ {r.term, r.clean, r.started, r.sending, r.after, r.eof} \subseteq BOOLEAN
    /\ r.count \in Nat /\ r.runc \in Nat /\ r.outc \in [Outcomes -> Nat]
    /\ status \in IF rpc = "done" THEN Statuses ELSE {None}
    /\ dstat \in {"running", "exited", "killed"}
    /\ rc \in IF dstat = "running" THEN {None} ELSE Statuses
    /\ wopen \in BOOLEAN /\ holder \in BOOLEAN
    /\ midline \in {None} \cup DaemonLines
    /\ nw \in 0..MaxWrites[script]
    /\ wrote \in Seq(DaemonLines)

\* The lines of kind k the daemon has completed.
Written(k) == SelectSeq(wrote, LAMBDA l : l.kind = k)

\* What the runner reports, and what the lines the daemon completed say.
Reported ==
    [count |-> r.count, clean |-> r.clean, runc |-> r.runc, outc |-> r.outc]
Expected ==
    [count |-> CASE script \in {"flowcap", "rwflowpack"} ->
                        FoldSeq(LAMBDA l, a : l.n + a, 0, Written("recs"))
                 [] script = "rwflowappend" -> Len(Written("append"))
                 [] Pollexec -> Len(Written("complete")),
     clean |-> Written("closing") # <<>>,
     runc  |-> IF Pollexec THEN Len(Written("running")) ELSE 0,
     outc  |-> [o \in Outcomes |->
                  IF Pollexec THEN Len(SelectSeq(wrote, LAMBDA l : l = Complete(o)))
                  ELSE 0]]

\* When the runner finishes, it has counted no line the daemon did not
\* write, and when its loop ended at end of file, the counts and the
\* verdict on a clean shutdown are exactly those of the lines written:
\* TimedReadline hands each line of every read, however the writes were
\* cut, to the loop once.  rwpollexec's breaks (SIGKILL, the grace after
\* the daemon ended) may leave read or unread lines uncounted.
ReportFaithful ==
    rpc = "done" =>
        /\ Reported.count <= Expected.count /\ Reported.runc <= Expected.runc
        /\ Reported.clean => Expected.clean
        /\ \A o \in Outcomes : Reported.outc[o] <= Expected.outc[o]
        /\ r.eof => Reported = Expected

\* The runner always finishes, whatever the daemon does: a silent daemon
\* is sent SIGTERM after daemon_timeout, SIGKILL 15 seconds later, and a
\* pipe held open by a hanging command does not keep rwpollexec-daemon.py
\* in its loop.
RunnerEnds == <>(rpc = "done")
=============================================================================
