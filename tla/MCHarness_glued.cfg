\* A partial last line of one process is prefixed to the next process's first line.
CONSTANTS
    None = None
    Daemons = {d1}
    Texts = {a, b}
    Timeouts = {1}
    KILL_DELAY = 1
    MaxGen = 2
    MaxLines = 2
    MaxTrig = 2
    Ops = {"stop", "kill", "end", "exit"}
    Scopes = {TRUE, FALSE}
    SplitLines = TRUE
    Discipline = TRUE

SPECIFICATION Spec

INVARIANT LogFaithful
