------------------------------- MODULE FGlob -------------------------------
(***************************************************************************)
(* silk.fglob.FGlob, src/src/pysilk/python/fglob.py: the constructor that  *)
(* turns a file selection into an rwfglob command line, and the generator  *)
(* that runs rwfglob and yields the file names it prints, one per line.    *)
(*                                                                         *)
(* rwfglob is the environment: it prints names, and exits with status 0   *)
(* or, after printing some of them, with an error status.  The generator   *)
(* reads rwfglob's stdout; Popen.returncode is only set by poll(), wait() *)
(* or communicate(), which fglob.py never calls, so it stays None.         *)
(*                                                                         *)
(* An argument is abstracted to its Python type and whether it is empty:  *)
(* "" and "str" are strings, "list" and "emptylist" lists, "date",        *)
(* "datetime" and "time" the datetime module's objects, "int" a number.    *)
(***************************************************************************)
EXTENDS Integers, Sequences

CONSTANTS ArgValues,  \* [parameter -> the values tried for it]
          MaxNames,   \* names rwfglob prints at most
          Statuses,   \* exit statuses of rwfglob
          Errnos,     \* errno of Popen's OSError when rwfglob cannot run
          None

Params == <<"classname", "type", "sensors", "start_date", "end_date",
            "data_rootdir", "site_config_file">>
Options == <<"class", "type", "sensors", "start-date", "end-date",
             "data-rootdir", "site-config-file">>

VARIABLES fg,         \* the FGlob made: its args, or the exception raised
          proc,       \* rwfglob: "none", "running" or "exited"
          pipe,       \* names printed and not yet read
          printed,    \* names printed so far
          status,     \* rwfglob's exit status, once it has exited
          returncode, \* the Popen object's returncode attribute
          gen,        \* the generator: "idle", "iterating", "done" or the exception
          yielded     \* names yielded so far

fgvars == <<fg, proc, pipe, printed, status, returncode, gen, yielded>>

Truthy(v) == v \notin {None, "", "emptylist"}

\* Lines 46-70: lists joined with ",", strings kept, dates formatted.
Conv(p, v) ==
    CASE p \in {"sensors", "type"} /\ v = "list" -> "str"
      [] p \in {"sensors", "type"} /\ v = "emptylist" -> ""
      [] p \in {"start_date", "end_date"} /\ v \in {"date", "datetime", "time"} -> "str"
      [] OTHER -> v

\* FGlob.__init__ with the arguments a: the command line, or ValueError.
\* Each truthy argument must be a string after the conversions.
Make(a) ==
    LET c == [p \in DOMAIN a |-> Conv(p, a[p])]
        given == SelectSeq([i \in 1..Len(Params) |-> i], LAMBDA i : Truthy(c[Params[i]]))
    IN  CASE ~\E p \in {"classname", "type", "sensors", "start_date", "end_date"} : Truthy(a[p])
               -> [args |-> <<>>, exc |-> "ValueError"]
          [] Truthy(a.end_date) /\ ~Truthy(a.start_date) -> [args |-> <<>>, exc |-> "ValueError"]
          [] \E i \in DOMAIN given : c[Params[given[i]]] # "str"
               -> [args |-> <<>>, exc |-> "ValueError"]
          [] OTHER -> [args |-> [i \in DOMAIN given |-> Options[given[i]]], exc |-> None]

Init ==
    /\ fg = [args |-> <<>>, exc |-> "unmade"]
    /\ proc = "none" /\ pipe = 0 /\ printed = 0 /\ status = None
    /\ returncode = None
    /\ gen = "idle" /\ yielded = 0

Construct(a) ==
    /\ fg.exc = "unmade"
    /\ fg' = Make(a)
    /\ UNCHANGED <<proc, pipe, printed, status, returncode, gen, yielded>>

\* The first next() of iter(FGlob): Popen(self.args).  When rwfglob cannot
\* be run, ENOENT becomes RuntimeError and any other errno is re-raised.
Spawn(ok, e) ==
    /\ fg.exc = None /\ gen = "idle"
    /\ IF ok THEN proc' = "running" /\ gen' = "iterating"
       ELSE UNCHANGED proc /\ gen' = IF e = "ENOENT" THEN "RuntimeError" ELSE "OSError"
    /\ UNCHANGED <<fg, pipe, printed, status, returncode, yielded>>

\* Mutant: a read that yields without consuming the line.
YieldKeep ==
    /\ gen = "iterating" /\ pipe > 0
    /\ yielded' = yielded + 1
    /\ UNCHANGED <<fg, proc, pipe, printed, status, returncode, gen>>

\* rwfglob prints a name.
PrintName ==
    /\ proc = "running" /\ printed < MaxNames
    /\ pipe' = pipe + 1 /\ printed' = printed + 1
    /\ UNCHANGED <<fg, proc, status, returncode, gen, yielded>>

\* rwfglob exits with status s.
Exit(s) ==
    /\ proc = "running"
    /\ proc' = "exited" /\ status' = s
    /\ UNCHANGED <<fg, pipe, printed, returncode, gen, yielded>>

\* One iteration of `for line in rwfglob.stdout`: the returncode test,
\* then the name is yielded with its line end stripped.
Yield ==
    /\ gen = "iterating" /\ pipe > 0
    /\ IF returncode \notin {None, 0} THEN gen' = "RuntimeError" /\ UNCHANGED <<pipe, yielded>>
       ELSE pipe' = pipe - 1 /\ yielded' = yielded + 1 /\ UNCHANGED gen
    /\ UNCHANGED <<fg, proc, printed, status, returncode>>

\* End of file on the pipe: the loop, and the generator, end.
Eof ==
    /\ gen = "iterating" /\ pipe = 0 /\ proc = "exited"
    /\ gen' = "done"
    /\ UNCHANGED <<fg, proc, pipe, printed, status, returncode, yielded>>

\* The argument lists tried: each parameter takes one of its values.
ArgChoices ==
    [classname : ArgValues["classname"], type : ArgValues["type"],
     sensors : ArgValues["sensors"], start_date : ArgValues["start_date"],
     end_date : ArgValues["end_date"], data_rootdir : ArgValues["data_rootdir"],
     site_config_file : ArgValues["site_config_file"]]

FGNext ==
    \/ \E a \in ArgChoices : Construct(a)
    \/ \E ok \in BOOLEAN, e \in Errnos : Spawn(ok, e)
    \/ PrintName
    \/ \E s \in Statuses : Exit(s)
    \/ Yield
    \/ Eof

FGSpec == Init /\ [][FGNext]_fgvars

----------------------------------------------------------------------------
FGTypeOK ==
    /\ fg.exc \in {"unmade", "ValueError", None}
    /\ \A i \in DOMAIN fg.args : fg.args[i] \in {Options[j] : j \in 1..Len(Options)}
    /\ proc \in {"none", "running", "exited"} /\ status \in Statuses \cup {None}
    /\ 0 <= yielded /\ yielded + pipe = printed /\ printed <= MaxNames
    /\ gen \in {"idle", "iterating", "done", "RuntimeError", "OSError"}

\* Lines 99-100 test rwfglob's returncode on every line so that a failing
\* rwfglob raises RuntimeError("rwfglob failed"): an iteration that ends
\* without an exception saw rwfglob succeed.
FailureReported == gen = "done" => status = 0
====
