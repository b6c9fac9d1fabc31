------------------------------ MODULE Harness ------------------------------
(***************************************************************************)
(* The daemon test-supervision harness of                                  *)
(* src/src/sendrcv/tests/sendrcv_tests.py: class Daemon and trigger().     *)
(*                                                                         *)
(* Four kinds of actor run concurrently:                                   *)
(*  - the test process, calling the Daemon handle methods start, stop,     *)
(*    kill, end, exit and the module function trigger(); each call sends  *)
(*    one request over the daemon's socketpair and blocks for its reply;  *)
(*  - per daemon, the forked supervisor (Daemon._child), a select() loop   *)
(*    over the socketpair and the daemon's stderr; its log watcher         *)
(*    (_handle_log) and trigger state live here;                           *)
(*  - per daemon, the supervised process, a black box that writes lines   *)
(*    to stderr, may exit at any time, exits on SIGKILL;                   *)
(*  - the clock.  Time is kept as the ticks left before each deadline.    *)
(*                                                                         *)
(* The socketpair is modelled as two FIFO sequences of whole messages      *)
(* (framing is the subject of another module).  The supervisor's          *)
(* dump() swallows IOError and the parent's dump() to a closed socket     *)
(* drops the message; load() at end of channel raises RuntimeError.       *)
(***************************************************************************)
EXTENDS Naturals, Integers, Sequences, SequencesExt, FiniteSets, LineReader

CONSTANTS
    Daemons,     \* the Daemon objects of one test (model values)
    Texts,       \* log line texts, also used as trigger patterns
    Timeouts,    \* trigger timeouts t(timeout), in ticks
    KILL_DELAY,  \* grace period of _end, in ticks
    MaxGen,      \* bound: processes started per daemon
    MaxLines,    \* bound: lines written per process
    MaxTrig,     \* bound: value of the global trigger_id
    Ops,         \* handle methods the test calls besides start()
    Scopes,      \* values of trigger()'s pid= argument the test passes
    SplitLines,  \* the daemon may write a line in two writes
    Discipline   \* the test calls the handle as the test suite does

ASSUME KILL_DELAY \in Nat \ {0} /\ MaxGen \in Nat /\ MaxLines \in Nat
ASSUME MaxTrig \in Nat /\ Timeouts \subseteq Nat
ASSUME Ops \subseteq {"stop", "kill", "end", "exit"} /\ Scopes \subseteq BOOLEAN
ASSUME SplitLines \in BOOLEAN /\ Discipline \in BOOLEAN

VARIABLES
    \* test process and handle side
    tpc,         \* "idle", "call" (in expect), "trig" (in trigger), "waitpid"
    tcall,       \* the blocking call: daemon, reply tag awaited, method
    twait,       \* trigger(): daemons whose result is still awaited
    tfirst,      \* trigger(): first=True
    trigger_id,  \* global trigger_id
    hpid,        \* [Daemons -> BOOLEAN]: self.pid is not None (forked)
    hstate,      \* [Daemons -> ...]: the last handle method that returned
    raised,      \* the last call returned by raising an exception
    \* socketpair
    toSup,       \* [Daemons -> Seq(request)]: parent -> supervisor
    toPar,       \* [Daemons -> Seq(reply)]:   supervisor -> parent
    \* supervisor (forked child)
    spc,         \* "unforked", "loop", "endpoll", "endsleep", "endwake",
                 \* "exited" (exit request), "crashed" (exception)
    trig,        \* self.trigger: None or [id, pat, pid]
    tmo,         \* self.timeout: None or ticks left (-1: passed)
    endLeft,     \* _end: ticks left before target
    logdata,     \* self.logdata: Seq(Entry)
    pending,     \* self.pending_line: None or Entry
    watching,    \* self.process.stderr in self.channels
    \* supervised process
    gen,         \* generation (pid) of self.process, 0 before the first
    dstat,       \* "none", "running", "exited"
    rc,          \* exit status: "none", "code" (>= 0), "signal" (< 0)
    midline,     \* line whose head is written and tail is not, or None
    nlines,      \* lines begun by the current process
    stderr,      \* items written and not yet read, current process
    wrote        \* history: every complete line each daemon wrote

test    == <<tpc, tcall, twait, tfirst, trigger_id, hpid, hstate, raised>>
chan    == <<toSup, toPar>>
sup     == <<spc, trig, tmo, endLeft, logdata, pending, watching>>
proc    == <<gen, dstat, rc, midline, nlines, stderr, wrote>>
vars    == <<test, chan, sup, proc>>

Lines   == [gen : 1..MaxGen, n : 1..MaxLines, txt : Texts]
Dead    == {"exited", "crashed"}

Req(tag)      == [tag |-> tag]
TrigReq(i, s, p, t) == [tag |-> "trigger", id |-> i, pid |-> s, match |-> p,
                        timeout |-> t]
Reply(tag)    == [tag |-> tag]
Stopped(r)    == [tag |-> "stopped", rc |-> r]
TrigResult(i, ok) == [tag |-> "trigger", id |-> i, ok |-> ok]

\* self.dump(m) in the supervisor: sendall; the parent never closes.
Dump(d, m) == toPar' = [toPar EXCEPT ![d] = Append(@, m)]

\* self.dump(m) in the parent: an IOError on a closed socket is swallowed.
Send(d, m) ==
    toSup' = IF spc[d] \in Dead THEN toSup
             ELSE [toSup EXCEPT ![d] = Append(@, m)]

\* The trigger's regexp: r"\[pid\].*match" when scoped to the process
\* generation, else match.  A glued line matches by the line it ends with.
Matches(t, e) == e.ln.txt = t.match /\ (t.pid = 0 \/ e.ln.gen = t.pid)

\* Index of the first entry of seq matched by trigger t, 0 if none.
FirstMatch(t, seq) ==
    LET I == {i \in 1..Len(seq) : Matches(t, seq[i])}
    IN  IF I = {} THEN 0 ELSE CHOOSE i \in I : \A j \in I : i <= j

----------------------------------------------------------------------------
(* Log watcher and trigger: Daemon._handle_log (lines 305-337).            *)

\* What reading the items s does: the entries appended to logdata, the new
\* pending_line, and the id of the trigger fired by the first entry it
\* matches (0 if none), after which self.trigger and self.timeout are None.
LogEffect(d, s) ==
    LET r == Pump(pending[d], s)
        k == IF trig[d] = None THEN 0 ELSE FirstMatch(trig[d], r.lines)
    IN  [lines |-> r.lines, pending |-> r.pending,
         fired |-> IF k > 0 THEN trig[d].id ELSE 0]

\* The replies a log effect e dumps.
Fired(e) == IF e.fired > 0 THEN <<TrigResult(e.fired, TRUE)>> ELSE <<>>

\* The supervisor state after the log effect e (replies apart).
ApplyLog(d, e) ==
    /\ logdata' = [logdata EXCEPT ![d] = @ \o e.lines]
    /\ pending' = [pending EXCEPT ![d] = e.pending]
    /\ trig' = IF e.fired > 0 THEN [trig EXCEPT ![d] = None] ELSE trig
    /\ tmo' = IF e.fired > 0 THEN [tmo EXCEPT ![d] = None] ELSE tmo
    /\ stderr' = [stderr EXCEPT ![d] = <<>>]

\* stderr is readable: data, or end of file once the process has exited.
LogReadable(d) == stderr[d] # <<>> \/ dstat[d] = "exited"

\* _child lines 387-390: select() reports stderr; _handle_log drains it and
\* when it returns False (no complete line) stderr leaves self.channels.
SupLog(d) ==
    /\ spc[d] = "loop" /\ watching[d] /\ LogReadable(d)
    /\ LET e == LogEffect(d, stderr[d])
       IN  /\ ApplyLog(d, e)
           /\ toPar' = [toPar EXCEPT ![d] = @ \o Fired(e)]
    /\ watching' = [watching EXCEPT ![d] = GotLine(pending[d], stderr[d])]
    /\ UNCHANGED <<test, toSup, spc, endLeft, gen, dstat, rc, midline,
                   nlines, wrote>>

----------------------------------------------------------------------------
(* Supervisor: Daemon._handle_parent (339-380), _start, _stop, _kill.       *)

\* os.kill(pid, SIGKILL) when self.process.returncode is None: the process
\* dies at once; an already exited (unreaped) process is unaffected.
SigKill(d) ==
    /\ dstat' = [dstat EXCEPT ![d] = "exited"]
    /\ rc' = [rc EXCEPT ![d] = IF dstat[d] = "running" THEN "signal" ELSE @]
    /\ midline' = [midline EXCEPT ![d] = None]

PopReq(d) == toSup' = [toSup EXCEPT ![d] = Tail(@)]

\* An exception ends _child: start() catches it, calls self._kill()
\* (SIGKILL unless reaped, dump ('kill',)), closes the pipe and calls
\* os._exit(0) (lines 437-445).
Crash(d) ==
    /\ SigKill(d) /\ Dump(d, Reply("kill"))
    /\ spc' = [spc EXCEPT ![d] = "crashed"]

\* 'start' while the process runs: raise RuntimeError() (lines 345-349).
SupStartRunning(d) ==
    /\ spc[d] = "loop" /\ toSup[d] # <<>> /\ Head(toSup[d]).tag = "start"
    /\ dstat[d] = "running"
    /\ PopReq(d) /\ Crash(d)
    /\ UNCHANGED <<test, trig, tmo, endLeft, logdata, pending, watching,
                   gen, nlines, stderr, wrote>>

\* _start (447-460): remove the old stderr from channels, spawn the next
\* process, add its stderr, dump ('start',).  pending_line is kept.
SupStart(d) ==
    /\ spc[d] = "loop" /\ toSup[d] # <<>> /\ Head(toSup[d]).tag = "start"
    /\ dstat[d] # "running"
    /\ gen[d] < MaxGen
    /\ PopReq(d) /\ Dump(d, Reply("start"))
    /\ gen' = [gen EXCEPT ![d] = @ + 1]
    /\ dstat' = [dstat EXCEPT ![d] = "running"]
    /\ rc' = [rc EXCEPT ![d] = "none"]
    /\ nlines' = [nlines EXCEPT ![d] = 0]
    /\ stderr' = [stderr EXCEPT ![d] = <<>>]
    /\ watching' = [watching EXCEPT ![d] = TRUE]
    /\ UNCHANGED <<test, spc, trig, tmo, endLeft, logdata, pending,
                   midline, wrote>>

\* _stop (524-531): SIGTERM if running, dump ('stop',).  The process
\* reacts (or not) in its own steps.
SupStop(d) ==
    /\ spc[d] = "loop" /\ toSup[d] # <<>> /\ Head(toSup[d]).tag = "stop"
    /\ PopReq(d) /\ Dump(d, Reply("stop"))
    /\ UNCHANGED <<test, spc, trig, tmo, endLeft, logdata, pending,
                   watching, proc>>

\* _kill (515-522): SIGKILL if not yet reaped, dump ('kill',).
SupKill(d) ==
    /\ spc[d] = "loop" /\ toSup[d] # <<>> /\ Head(toSup[d]).tag = "kill"
    /\ PopReq(d) /\ SigKill(d) /\ Dump(d, Reply("kill"))
    /\ UNCHANGED <<test, spc, trig, tmo, endLeft, logdata, pending,
                   watching, gen, nlines, stderr, wrote>>

\* 'end': enter _end (533-534), target = now + KILL_DELAY.
SupEnd(d) ==
    /\ spc[d] = "loop" /\ toSup[d] # <<>> /\ Head(toSup[d]).tag = "end"
    /\ PopReq(d)
    /\ spc' = [spc EXCEPT ![d] = "endpoll"]
    /\ endLeft' = [endLeft EXCEPT ![d] = KILL_DELAY]
    /\ UNCHANGED <<test, toPar, trig, tmo, logdata, pending, watching, proc>>

\* 'exit' (356-361): close the pipe, os._exit(0).  The process is left.
SupExit(d) ==
    /\ spc[d] = "loop" /\ toSup[d] # <<>> /\ Head(toSup[d]).tag = "exit"
    /\ PopReq(d)
    /\ spc' = [spc EXCEPT ![d] = "exited"]
    /\ UNCHANGED <<test, toPar, trig, tmo, endLeft, logdata, pending,
                   watching, proc>>

\* Mutant: the deadline is one tick late (time.time() + timeout + 1).
SupTriggerLate(d) ==
    /\ spc[d] = "loop" /\ toSup[d] # <<>> /\ Head(toSup[d]).tag = "trigger"
    /\ LET r == Head(toSup[d])
           t == [id |-> r.id, match |-> r.match,
                 pid |-> IF r.pid THEN gen[d] ELSE 0]
       IN  /\ PopReq(d)
           /\ IF FirstMatch(t, logdata[d]) > 0
              THEN /\ Dump(d, TrigResult(t.id, TRUE))
                   /\ trig' = [trig EXCEPT ![d] = None]
                   /\ UNCHANGED tmo
              ELSE /\ trig' = [trig EXCEPT ![d] = t]
                   /\ tmo' = [tmo EXCEPT ![d] = r.timeout + 1]
                   /\ UNCHANGED toPar
    /\ UNCHANGED <<test, spc, endLeft, logdata, pending, watching, proc>>

\* Mutant: the request does not search the captured output.
SupTriggerNoHistory(d) ==
    /\ spc[d] = "loop" /\ toSup[d] # <<>> /\ Head(toSup[d]).tag = "trigger"
    /\ LET r == Head(toSup[d])
       IN  /\ PopReq(d)
           /\ trig' = [trig EXCEPT ![d] = [id |-> r.id, match |-> r.match,
                                           pid |-> IF r.pid THEN gen[d] ELSE 0]]
           /\ tmo' = [tmo EXCEPT ![d] = r.timeout]
    /\ UNCHANGED <<test, toPar, spc, endLeft, logdata, pending, watching, proc>>

\* 'trigger' (362-379): self.trigger = request; search logdata; on a match
\* dump the result and clear self.trigger (self.timeout is left as it
\* was); else compile the regexp and set self.timeout.
SupTrigger(d) ==
    /\ spc[d] = "loop" /\ toSup[d] # <<>> /\ Head(toSup[d]).tag = "trigger"
    /\ LET r == Head(toSup[d])
           t == [id |-> r.id, match |-> r.match,
                 pid |-> IF r.pid THEN gen[d] ELSE 0]
       IN  /\ PopReq(d)
           /\ IF FirstMatch(t, logdata[d]) > 0
              THEN /\ Dump(d, TrigResult(t.id, TRUE))
                   /\ trig' = [trig EXCEPT ![d] = None]
                   /\ UNCHANGED tmo
              ELSE /\ trig' = [trig EXCEPT ![d] = t]
                   /\ tmo' = [tmo EXCEPT ![d] = r.timeout]
                   /\ UNCHANGED toPar
    /\ UNCHANGED <<test, spc, endLeft, logdata, pending, watching, proc>>

\* _child lines 398-404: self.timeout has passed: dump the failed result
\* and clear the trigger.  With self.trigger None the log message raises
\* TypeError, which ends _child like any exception.
SupTimeout(d) ==
    /\ spc[d] = "loop" /\ tmo[d] # None /\ tmo[d] < 0
    /\ IF trig[d] # None
       THEN /\ Dump(d, TrigResult(trig[d].id, FALSE))
            /\ trig' = [trig EXCEPT ![d] = None]
            /\ tmo' = [tmo EXCEPT ![d] = None]
            /\ UNCHANGED <<spc, dstat, rc, midline>>
       ELSE /\ Crash(d)
            /\ UNCHANGED <<trig, tmo>>
    /\ UNCHANGED <<test, toSup, endLeft, logdata, pending, watching, gen,
                   nlines, stderr, wrote>>

----------------------------------------------------------------------------
(* Supervisor: Daemon._end (533-550) and the reply of 'end' (353-355).     *)
(* _end blocks the loop: no request, log line or trigger timeout is        *)
(* handled until it returns.  It polls, sleeps one tick, and decides on   *)
(* the returncode of the poll made before the sleep.                       *)

\* Mutant: the reply is sent without draining what stderr still holds.
EndFinishNoDrain(d, pre) ==
    /\ toPar' = [toPar EXCEPT ![d] = @ \o pre \o <<Stopped(rc'[d])>>]
    /\ spc' = [spc EXCEPT ![d] = "loop"]
    /\ UNCHANGED <<logdata, pending, trig, tmo, stderr>>

\* The process has been reaped: drain stderr with _handle_log (its trigger
\* matches dump results) and dump ('stopped', returncode).
EndFinish(d, pre) ==
    LET e == LogEffect(d, stderr[d])
    IN  /\ ApplyLog(d, e)
        /\ toPar' = [toPar EXCEPT ![d] = @ \o pre \o Fired(e)
                                           \o <<Stopped(rc'[d])>>]
        /\ spc' = [spc EXCEPT ![d] = "loop"]

\* The poll before a sleep (lines 535-537).  endpoll is entered with
\* endLeft > 0 only (KILL_DELAY >= 1), so the loop body always runs.
SupEndPoll(d) ==
    /\ spc[d] = "endpoll"
    /\ \/ /\ dstat[d] = "exited"
          /\ UNCHANGED <<dstat, rc, midline>>
          /\ EndFinish(d, <<>>)
       \/ /\ dstat[d] = "running"
          /\ spc' = [spc EXCEPT ![d] = "endsleep"]
          /\ UNCHANGED <<toPar, trig, tmo, logdata, pending, stderr, dstat,
                         rc, midline>>
    /\ UNCHANGED <<test, toSup, endLeft, watching, gen, nlines, wrote>>

\* Mutant: target is recomputed on every poll, so the grace period never
\* ends while the process runs.
SupEndWakeRearm(d) ==
    /\ spc[d] = "endwake"
    /\ spc' = [spc EXCEPT ![d] = "endpoll"]
    /\ endLeft' = [endLeft EXCEPT ![d] = IF @ <= 0 THEN KILL_DELAY ELSE @]
    /\ UNCHANGED <<test, chan, trig, tmo, logdata, pending, watching, proc>>

\* After a sleep: the poll made before it saw the process running.  Past
\* the target, escalate (lines 543-550): _kill (SIGKILL unless reaped,
\* dump ('kill',)), wait for the exit, drain, reply.  Else poll again.
SupEndWake(d) ==
    /\ spc[d] = "endwake"
    /\ \/ /\ endLeft[d] <= 0
          /\ SigKill(d)
          /\ EndFinish(d, <<Reply("kill")>>)
       \/ /\ endLeft[d] > 0
          /\ spc' = [spc EXCEPT ![d] = "endpoll"]
          /\ UNCHANGED <<toPar, trig, tmo, logdata, pending, stderr, dstat,
                         rc, midline>>
    /\ UNCHANGED <<test, toSup, endLeft, watching, gen, nlines, wrote>>

----------------------------------------------------------------------------
(* Test process: the handle methods (406-513) and trigger() (146-180).     *)

Call(d, tag, op) ==
    /\ tpc' = "call"
    /\ tcall' = [d |-> d, tag |-> tag, op |-> op]

\* Daemon.start (419-431): fork the supervisor on first use (its channels
\* are the pipe alone), then dump ('start',) and expect('start').
Start(d) ==
    /\ tpc = "idle"
    /\ gen[d] < MaxGen
    /\ Discipline => hstate[d] \in {"new", "end"}
    /\ hpid' = [hpid EXCEPT ![d] = TRUE]
    /\ spc' = IF hpid[d] THEN spc ELSE [spc EXCEPT ![d] = "loop"]
    /\ Send(d, Req("start"))
    /\ Call(d, "start", "start")
    /\ UNCHANGED <<twait, tfirst, trigger_id, hstate, raised, toPar, trig,
                   tmo, endLeft, logdata, pending, watching, proc>>

\* Daemon.stop, kill, end and exit (481-513) once the supervisor exists.
\* exit() first calls end() and sends ('exit',) when end() returns.
Request(d, op) ==
    /\ tpc = "idle" /\ hpid[d]
    /\ Discipline => hstate[d] \notin {"new", "exit"}
    /\ Send(d, Req(IF op = "exit" THEN "end" ELSE op))
    /\ Call(d, IF op \in {"end", "exit"} THEN "stopped" ELSE op, op)
    /\ UNCHANGED <<twait, tfirst, trigger_id, hpid, hstate, raised, toPar,
                   sup, proc>>

\* trigger(*specs, pid=, first=) (146-159): a new trigger_id, one request
\* per daemon of S with its own pattern and timeout.  In the test suite
\* every call follows start().
Trigger(S, first, scope, spec) ==
    /\ tpc = "idle" /\ trigger_id < MaxTrig
    /\ \A d \in S : hpid[d] /\ (Discipline => hstate[d] \in {"start", "stop", "kill"})
    /\ trigger_id' = trigger_id + 1
    /\ toSup' = [d \in Daemons |->
                   IF d \in S /\ spc[d] \notin Dead
                   THEN Append(toSup[d], TrigReq(trigger_id + 1, scope,
                                                 spec[d][1], spec[d][2]))
                   ELSE toSup[d]]
    /\ tpc' = "trig" /\ twait' = S /\ tfirst' = first
    /\ UNCHANGED <<tcall, hpid, hstate, raised, toPar, sup, proc>>

PopReply(d) == toPar' = [toPar EXCEPT ![d] = Tail(@)]

\* Return from a call normally, or by an exception.
Return(exc) ==
    /\ tpc' = "idle"
    /\ raised' = exc

\* expect(cmd) (406-413): load() replies, discarding other tags.  The
\* awaited reply ends the call; for exit() it is followed by dump
\* (('exit',)) and os.waitpid on the supervisor.
RecvExpect(d) ==
    /\ tpc = "call" /\ tcall.d = d /\ toPar[d] # <<>>
    /\ PopReply(d)
    /\ IF Head(toPar[d]).tag # tcall.tag
       THEN UNCHANGED <<tpc, raised, hstate, toSup>>
       ELSE IF tcall.op = "exit"
       THEN /\ Send(d, Req("exit"))
            /\ tpc' = "waitpid"
            /\ UNCHANGED <<raised, hstate>>
       ELSE /\ Return(FALSE)
            /\ hstate' = [hstate EXCEPT ![d] = tcall.op]
            /\ UNCHANGED toSup
    /\ UNCHANGED <<tcall, twait, tfirst, trigger_id, hpid, sup, proc>>

\* load() on a closed, drained socket: recv returns b'', len != slen,
\* raise RuntimeError (470-473).  expect() only catches EOFError.
EofExpect(d) ==
    /\ tpc = "call" /\ tcall.d = d /\ toPar[d] = <<>> /\ spc[d] \in Dead
    /\ Return(TRUE)
    /\ UNCHANGED <<tcall, twait, tfirst, trigger_id, hpid, hstate, chan,
                   sup, proc>>

\* os.waitpid(self.pid, 0) in exit() (510-513).
WaitPid(d) ==
    /\ tpc = "waitpid" /\ tcall.d = d /\ spc[d] \in Dead
    /\ Return(FALSE)
    /\ hstate' = [hstate EXCEPT ![d] = "exit"]
    /\ UNCHANGED <<tcall, twait, tfirst, trigger_id, hpid, chan, sup, proc>>

\* trigger() lines 160-179: a reply from daemon d of S.  Another tag or a
\* failed result raises TriggerError; another id is skipped; a success
\* removes d and returns when all (or, with first, one) succeeded.
RecvTrig(d) ==
    /\ tpc = "trig" /\ d \in twait /\ toPar[d] # <<>>
    /\ PopReply(d)
    /\ LET m == Head(toPar[d]) IN
       \/ /\ m.tag # "trigger" \/ (m.id = trigger_id /\ ~m.ok)
          /\ Return(TRUE)
          /\ UNCHANGED twait
       \/ /\ m.tag = "trigger" /\ m.id # trigger_id
          /\ UNCHANGED <<tpc, raised, twait>>
       \/ /\ m.tag = "trigger" /\ m.id = trigger_id /\ m.ok
          /\ twait' = twait \ {d}
          /\ IF tfirst \/ twait' = {} THEN Return(FALSE)
             ELSE UNCHANGED <<tpc, raised>>
    /\ UNCHANGED <<tcall, tfirst, trigger_id, hpid, hstate, toSup, sup,
                   proc>>

\* load() raising RuntimeError inside trigger(): only EOFError is caught.
EofTrig(d) ==
    /\ tpc = "trig" /\ d \in twait /\ toPar[d] = <<>> /\ spc[d] \in Dead
    /\ Return(TRUE)
    /\ UNCHANGED <<tcall, twait, tfirst, trigger_id, hpid, hstate, chan,
                   sup, proc>>

----------------------------------------------------------------------------
(* The supervised process: a black box writing lines to its stderr.        *)

NewLine(d, t) == [gen |-> gen[d], n |-> nlines[d] + 1, txt |-> t]

CanWrite(d) ==
    /\ dstat[d] = "running" /\ midline[d] = None /\ nlines[d] < MaxLines
    /\ nlines' = [nlines EXCEPT ![d] = @ + 1]

\* A line written with one write().
WriteLine(d, t) ==
    /\ CanWrite(d)
    /\ stderr' = [stderr EXCEPT ![d] = Append(@, Item("whole", NewLine(d, t)))]
    /\ wrote' = [wrote EXCEPT ![d] = Append(@, NewLine(d, t))]
    /\ UNCHANGED <<test, chan, sup, gen, dstat, rc, midline>>

\* The first part of a line, without its newline.
WriteHead(d, t) ==
    /\ SplitLines /\ CanWrite(d)
    /\ stderr' = [stderr EXCEPT ![d] = Append(@, Item("head", NewLine(d, t)))]
    /\ midline' = [midline EXCEPT ![d] = NewLine(d, t)]
    /\ UNCHANGED <<test, chan, sup, gen, dstat, rc, wrote>>

\* The rest of the line, with its newline.
WriteTail(d) ==
    /\ dstat[d] = "running" /\ midline[d] # None
    /\ stderr' = [stderr EXCEPT ![d] = Append(@, Item("tail", midline[d]))]
    /\ wrote' = [wrote EXCEPT ![d] = Append(@, midline[d])]
    /\ midline' = [midline EXCEPT ![d] = None]
    /\ UNCHANGED <<test, chan, sup, gen, dstat, rc, nlines>>

\* The process exits on its own (after SIGTERM, or dying unexpectedly),
\* with an exit code or killed by a signal.
ProcExit(d) ==
    /\ dstat[d] = "running"
    /\ dstat' = [dstat EXCEPT ![d] = "exited"]
    /\ \E r \in {"code", "signal"} : rc' = [rc EXCEPT ![d] = r]
    /\ midline' = [midline EXCEPT ![d] = None]
    /\ UNCHANGED <<test, chan, sup, gen, nlines, stderr, wrote>>

----------------------------------------------------------------------------
(* The clock.  A tick passes while every supervisor is blocked: in select()*)
(* with nothing to read and no passed deadline, or sleeping in _end.  The  *)
(* supervisor is assumed to keep up with its inputs within a tick.          *)

Blocked(d) ==
    /\ spc[d] \notin {"endpoll", "endwake"}
    /\ spc[d] = "loop" =>
          /\ toSup[d] = <<>>
          /\ ~(watching[d] /\ LogReadable(d))
          /\ ~(tmo[d] # None /\ tmo[d] < 0)

Timing(d) == (tmo[d] # None /\ tmo[d] >= 0) \/ spc[d] = "endsleep"

Tick ==
    /\ \A d \in Daemons : Blocked(d)
    /\ \E d \in Daemons : Timing(d)
    /\ tmo' = [d \in Daemons |->
                 IF tmo[d] = None \/ tmo[d] < 0 THEN tmo[d] ELSE tmo[d] - 1]
    /\ spc' = [d \in Daemons |->
                 IF spc[d] = "endsleep" THEN "endwake" ELSE spc[d]]
    /\ endLeft' = [d \in Daemons |->
                     IF spc[d] = "endsleep" THEN endLeft[d] - 1
                     ELSE endLeft[d]]
    /\ UNCHANGED <<test, chan, trig, logdata, pending, watching, proc>>

----------------------------------------------------------------------------
Init ==
    /\ tpc = "idle" /\ tcall = None /\ twait = {} /\ tfirst = FALSE
    /\ trigger_id = 0
    /\ hpid = [d \in Daemons |-> FALSE]
    /\ hstate = [d \in Daemons |-> "new"]
    /\ raised = FALSE
    /\ toSup = [d \in Daemons |-> <<>>]
    /\ toPar = [d \in Daemons |-> <<>>]
    /\ spc = [d \in Daemons |-> "unforked"]
    /\ trig = [d \in Daemons |-> None]
    /\ tmo = [d \in Daemons |-> None]
    /\ endLeft = [d \in Daemons |-> 0]
    /\ logdata = [d \in Daemons |-> <<>>]
    /\ pending = [d \in Daemons |-> None]
    /\ watching = [d \in Daemons |-> FALSE]
    /\ gen = [d \in Daemons |-> 0]
    /\ dstat = [d \in Daemons |-> "none"]
    /\ rc = [d \in Daemons |-> "none"]
    /\ midline = [d \in Daemons |-> None]
    /\ nlines = [d \in Daemons |-> 0]
    /\ stderr = [d \in Daemons |-> <<>>]
    /\ wrote = [d \in Daemons |-> <<>>]

\* A trigger spec per daemon: (match, timeout).
TrigSpecs(S) == [S -> Texts \X Timeouts]

TestNext ==
    \/ \E d \in Daemons : Start(d)
    \/ \E d \in Daemons, op \in Ops : Request(d, op)
    \/ \E S \in SUBSET Daemons \ {{}}, first \in BOOLEAN, scope \in Scopes :
          \E spec \in TrigSpecs(S) : Trigger(S, first, scope, spec)
    \/ \E d \in Daemons :
          RecvExpect(d) \/ EofExpect(d) \/ WaitPid(d) \/ RecvTrig(d)
          \/ EofTrig(d)

SupNext(d) ==
    \/ SupLog(d) \/ SupStartRunning(d) \/ SupStart(d) \/ SupStop(d)
    \/ SupKill(d) \/ SupEnd(d) \/ SupExit(d) \/ SupTrigger(d)
    \/ SupTimeout(d) \/ SupEndPoll(d) \/ SupEndWake(d)

ProcNext(d) ==
    \/ \E t \in Texts : WriteLine(d, t) \/ WriteHead(d, t)
    \/ WriteTail(d) \/ ProcExit(d)

\* The test has exited every daemon: the harness has stopped.
Terminated ==
    /\ tpc = "idle" /\ \A d \in Daemons : spc[d] \in Dead
    /\ UNCHANGED vars

Next ==
    \/ TestNext
    \/ \E d \in Daemons : SupNext(d) \/ ProcNext(d)
    \/ Tick
    \/ Terminated

\* The supervisor and the parent run whenever they can (each is a process
\* of its own), and time passes.  The test process and the daemon are not
\* assumed to do anything.
Fairness ==
    /\ \A d \in Daemons : WF_vars(SupNext(d))
    /\ \A d \in Daemons :
          WF_vars(RecvExpect(d) \/ EofExpect(d) \/ WaitPid(d)
                  \/ RecvTrig(d) \/ EofTrig(d))
    /\ WF_vars(Tick)

Spec == Init /\ [][Next]_vars /\ Fairness

----------------------------------------------------------------------------
(* Properties.                                                             *)

TypeOK ==
    /\ tpc \in {"idle", "call", "trig", "waitpid"}
    /\ trigger_id \in 0..MaxTrig /\ twait \subseteq Daemons
    /\ hpid \in [Daemons -> BOOLEAN] /\ raised \in BOOLEAN
    /\ spc \in [Daemons -> {"unforked", "loop", "endpoll", "endsleep",
                            "endwake", "exited", "crashed"}]
    /\ trig \in [Daemons -> {None} \cup
                   [id : 1..MaxTrig, match : Texts, pid : 0..MaxGen]]
    /\ tmo \in [Daemons -> {None} \cup -1..(IF Timeouts = {} THEN 0
                                           ELSE CHOOSE m \in Timeouts :
                                                  \A t \in Timeouts : t <= m)]
    /\ \A d \in Daemons :
          /\ logdata[d] \in Seq([ln : Lines, glued : BOOLEAN])
          /\ pending[d] \in {None} \cup [ln : Lines, glued : BOOLEAN]
          /\ stderr[d] \in Seq([part : {"whole", "head", "tail"}, ln : Lines])
          /\ wrote[d] \in Seq(Lines)
    /\ gen \in [Daemons -> 0..MaxGen] /\ nlines \in [Daemons -> 0..MaxLines]
    /\ dstat \in [Daemons -> {"none", "running", "exited"}]
    /\ rc \in [Daemons -> {"none", "code", "signal"}]

\* The lines of the supervisor's log, in the order it holds them.
Logged(d) == [i \in 1..Len(logdata[d]) |-> logdata[d][i].ln]

\* Once end() has returned and no call is in progress, the supervisor's
\* log holds exactly the lines the daemon wrote, in order, over every
\* process it ran: _handle_log reads what select() reports, and _end
\* drains what is left before it replies, so no line is lost, repeated
\* or reordered across restarts.
LogComplete ==
    \A d \in Daemons : tpc = "idle" /\ hstate[d] = "end" => Logged(d) = wrote[d]

\* A trigger's deadline passes in the select() loop only when no line the
\* daemon has written matches it: _handle_log and the history search of
\* 'trigger' never leave a written, matching line unseen (spec 4.2-4.3).
NoTimeoutPastMatch ==
    \A d \in Daemons :
         (spc[d] = "loop" /\ trig[d] # None /\ tmo[d] = 0 /\ tmo'[d] = -1)
            => \A i \in 1..Len(wrote[d]) :
                  ~Matches(trig[d], Entry(wrote[d][i], FALSE))

NoMissedMatch == [][NoTimeoutPastMatch]_vars

\* Every blocking call of the test (start/stop/kill/end/exit, trigger)
\* eventually returns, by a reply, a timeout result or an exception: the
\* supervisor's _end escalates to SIGKILL and its loop polices deadlines.
CallsReturn == (tpc # "idle") ~> (tpc = "idle")

\* No log line handed to trigger matching is made of the output of two
\* different daemon lines (spec 3: a line is matched only once its own
\* terminator has been seen).
LogFaithful ==
    \A d \in Daemons : \A i \in 1..Len(logdata[d]) : ~logdata[d][i].glued

\* The supervisor loop never dies of an exception (spec 7: it logs and
\* continues); it ends only on an 'exit' request.
NoSupervisorCrash == \A d \in Daemons : spc[d] # "crashed"
=============================================================================
