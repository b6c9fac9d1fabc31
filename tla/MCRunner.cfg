\* The four runner scripts, each against a daemon that may write, split a
\* line, exit with any code, close its stderr or ignore SIGTERM, with a
\* limit of 2 reached by "Closing file" lines of 0 or 1 records, "APPEND
\* OK" lines or completion messages; and _handle_log over every stream of
\* up to four items of two lines, cut into reads in every way; and the TCP
\* and UDP senders over their files, stopped at any point.
CONSTANTS
    None = None
    Scripts = {"flowcap", "rwflowpack", "rwflowappend", "rwpollexec"}
    Limit = 2
    RecNums = {0, 1}
    ExitCodes = {0, 1}
    DAEMON_TIMEOUT = 1
    KILL_AFTER = 2
    ENDED_GRACE = 1
    MaxWrites <- MCMaxWrites
    SplitLines = TRUE
    Lines = {l1, l2}
    MaxLen = 4
    Parts = {"runner", "handle_log", "senders"}

SPECIFICATION MCSpec

INVARIANT TypeOK
INVARIANT ReportFaithful
INVARIANT ChunkBoundaryIndependence
INVARIANT SendersTypeOK
INVARIANT TcpStreamFaithful
INVARIANT UdpSeqNumbers
INVARIANT UdpForwardsAll
PROPERTY MCRunnerEnds

CHECK_DEADLOCK FALSE
