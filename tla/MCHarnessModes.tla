-------------------------- MODULE MCHarnessModes --------------------------
(***************************************************************************)
(* The two passing questions asked of Harness, in one model: `mode`       *)
(* "suite" is one daemon over two generations, writing whole lines, called *)
(* as the test suite calls it, with a grace period _end polls twice;      *)
(* "any" lets the daemon split a line over two writes and the test call   *)
(* the handle's methods in any order.  The two share no behaviour.        *)
(***************************************************************************)
EXTENDS Naturals

CONSTANTS None, d1, a, b

VARIABLES mode,
    tpc, tcall, twait, tfirst, trigger_id, hpid, hstate, raised,
    toSup, toPar, spc, trig, tmo, endLeft, logdata, pending, watching,
    gen, dstat, rc, midline, nlines, stderr, wrote

hvars == <<tpc, tcall, twait, tfirst, trigger_id, hpid, hstate, raised,
           toSup, toPar, spc, trig, tmo, endLeft, logdata, pending, watching,
           gen, dstat, rc, midline, nlines, stderr, wrote>>
allvars == <<mode, hvars>>

Suite == INSTANCE Harness WITH Daemons <- {d1}, Texts <- {a, b}, Timeouts <- {1},
           KILL_DELAY <- 2, MaxGen <- 2, MaxLines <- 1, MaxTrig <- 2,
           Ops <- {"stop", "kill", "end", "exit"}, Scopes <- {TRUE, FALSE},
           SplitLines <- FALSE, Discipline <- TRUE

Any == INSTANCE Harness WITH Daemons <- {d1}, Texts <- {a, b}, Timeouts <- {1},
         KILL_DELAY <- 1, MaxGen <- 2, MaxLines <- 1, MaxTrig <- 2,
         Ops <- {"stop", "end", "exit"}, Scopes <- {FALSE},
         SplitLines <- TRUE, Discipline <- FALSE

MCInit == mode \in {"suite", "any"} /\ Suite!Init

MCNext ==
    \/ mode = "suite" /\ Suite!Next /\ UNCHANGED mode
    \/ mode = "any" /\ Any!Next /\ UNCHANGED mode

\* Harness's Fairness, for the mode a behaviour runs in.
MCSpec ==
    /\ MCInit /\ [][MCNext]_allvars
    /\ WF_allvars(mode = "suite" /\ Suite!SupNext(d1) /\ UNCHANGED mode)
    /\ WF_allvars(mode = "any" /\ Any!SupNext(d1) /\ UNCHANGED mode)
    /\ WF_allvars(mode = "suite" /\ UNCHANGED mode /\
                  (Suite!RecvExpect(d1) \/ Suite!EofExpect(d1) \/ Suite!WaitPid(d1)
                   \/ Suite!RecvTrig(d1) \/ Suite!EofTrig(d1)))
    /\ WF_allvars(mode = "any" /\ UNCHANGED mode /\
                  (Any!RecvExpect(d1) \/ Any!EofExpect(d1) \/ Any!WaitPid(d1)
                   \/ Any!RecvTrig(d1) \/ Any!EofTrig(d1)))
    /\ WF_allvars(mode = "suite" /\ Suite!Tick /\ UNCHANGED mode)
    /\ WF_allvars(mode = "any" /\ Any!Tick /\ UNCHANGED mode)

\* The types of Harness's variables.
TypeOK == IF mode = "suite" THEN Suite!TypeOK ELSE Any!TypeOK

\* Under the test suite's discipline (end() before every restart), the log
\* holds every line written once end() has returned (Harness!LogComplete).
\* Without it, _start drops the unread output of the old process.
LogComplete == mode = "suite" => Suite!LogComplete

\* Under the test suite's discipline, no trigger times out while a line
\* that matches it has been written (Harness!NoMissedMatch).
NoMissedMatch == [][mode = "suite" => Suite!NoTimeoutPastMatch]_allvars

\* Every blocking call of the test process returns (Harness!CallsReturn).
CallsReturn == Suite!CallsReturn
=============================================================================
