\* The TCP and UDP senders against stop_network_data: a stop() called
\* before the thread has run its first statement.
CONSTANTS
    None = None
    Scripts = {"flowcap", "rwflowpack", "rwflowappend", "rwpollexec"}
    Limit = 2
    RecNums = {0, 1}
    ExitCodes = {0, 1}
    DAEMON_TIMEOUT = 1
    KILL_AFTER = 2
    ENDED_GRACE = 1
    MaxWrites <- MCMaxWrites
    SplitLines = TRUE
    Lines = {l1, l2}
    MaxLen = 4
    Parts = {"senders"}

SPECIFICATION MCSpec

PROPERTY StopHonoured

CHECK_DEADLOCK FALSE
