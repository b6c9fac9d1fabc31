------------------------------ MODULE MCRunner ------------------------------
(***************************************************************************)
(* The parts of the Python code that run a daemon for a test:             *)
(*  - "runner": the runner scripts (Runner), with three daemon writes for  *)
(*    the record and file counting scripts and two for rwpollexec-        *)
(*    daemon.py, whose hanging command and process group multiply the     *)
(*    interleavings;                                                       *)
(*  - "handle_log": Daemon._handle_log's reassembly (MCLineReader), over   *)
(*    every stream of up to MaxLen items;                                  *)
(*  - "senders": the TcpSender and UdpSender threads the runner starts,   *)
(*    against stop_network_data (Senders).                                 *)
(* The parts share no state, so a behaviour exercises one of them, chosen  *)
(* by `part`.                                                              *)
(***************************************************************************)
EXTENDS Runner

CONSTANTS Lines,   \* daemon lines for the reassembly (model values)
          MaxLen,  \* longest stream enumerated
          Parts    \* the parts exercised

VARIABLES part, stream, unread, pending, logdata,
          stopped, udp, urun, uin, ufile, upos, umsg, reccount, usent, uend,
          tcp, trun, tfile, tpos, tpdu, trcvd, teof

lrvars == <<stream, unread, pending, logdata>>
svars == <<stopped, udp, urun, uin, ufile, upos, umsg, reccount, usent, uend,
           tcp, trun, tfile, tpos, tpdu, trcvd, teof>>
allvars == <<part, vars, lrvars, svars>>

MCMaxWrites == [s \in Scripts |-> IF s = "rwpollexec" THEN 2 ELSE 3]

LR == INSTANCE MCLineReader

\* UDP inputs, with a set header one unit and a message header two: sets
\* of a known template (256: records of 1 unit, 257: of 2), of a template
\* set id (2) and of an unknown template (300); a set exactly the MTU long
\* and one longer; a set of bad length, a message of a bad version and a
\* truncated last message.  The first input counts past SeqLimit records:
\* the count field is scaled from 32 bits to 2, so that the struct.pack
\* failure past it is reached.
USet(id, n) == [id |-> id, sz |-> 1 + n, n |-> n]
M1 == [vers |-> 10, sets |-> <<USet(256, 2), USet(2, 1)>>]
M2 == [vers |-> 10, sets |-> <<USet(257, 3), USet(300, 1)>>]
M3 == [vers |-> 10, sets |-> <<USet(257, 2)>>]
BadSet == [vers |-> 10, sets |-> <<[id |-> 256, sz |-> 0, n |-> 0], USet(256, 1)>>]
BadVers == [vers |-> 9, sets |-> <<USet(256, 1)>>]
MCUdpInputs == {[msgs |-> <<M1, M3, M1>>, cut |-> 0],
                [msgs |-> <<M2, BadSet, M1>>, cut |-> 1],
                [msgs |-> <<BadVers, M1>>, cut |-> 0]}

SN == INSTANCE Senders WITH UdpInputs <- MCUdpInputs, TcpFiles <- {<<1, 2, 3>>},
        TCPBUF <- 2, HDRLEN <- 2, SETLEN <- 1, MTU <- 5,
        TidToLength <- [t \in {256, 257} |-> IF t = 256 THEN 1 ELSE 2],
        SeqLimit <- 4

MCInit ==
    /\ part \in Parts
    /\ IF part = "runner" THEN Init ELSE Init /\ script = "flowcap"
    /\ IF part = "handle_log" THEN LR!Init ELSE LR!Init /\ stream = <<>>
    /\ IF part = "senders" THEN SN!Init
       ELSE SN!Init /\ uin = CHOOSE u \in MCUdpInputs : TRUE

MCNext ==
    \/ part = "runner" /\ Next /\ UNCHANGED <<part, lrvars, svars>>
    \/ part = "handle_log" /\ LR!Next /\ UNCHANGED <<part, vars, svars>>
    \/ part = "senders" /\ SN!SendersNext /\ UNCHANGED <<part, vars, lrvars>>

\* The runner process is weakly fair (Spec); the reassembly and the sender
\* threads have no fairness.
MCSpec == MCInit /\ [][MCNext]_allvars
          /\ WF_allvars(part = "runner" /\ RunnerStep /\ UNCHANGED <<part, lrvars, svars>>)

\* The runner script ends, whatever the daemon does (RunnerEnds).
MCRunnerEnds == part = "runner" => RunnerEnds

\* _handle_log delivers exactly the stream's complete lines, however the
\* stream is cut into reads (spec section 8).
ChunkBoundaryIndependence == LR!ChunkBoundaryIndependence

\* The senders' types, and no packet beyond the MTU (Senders).
SendersTypeOK == SN!SendersTypeOK

\* TcpSender delivers its file in order and whole (Senders).
TcpStreamFaithful == SN!TcpStreamFaithful

\* UdpSender's sequence numbers count the records sent before (Senders).
UdpSeqNumbers == SN!UdpSeqNumbers

\* UdpSender forwards every good set once, in order (Senders).
UdpForwardsAll == SN!UdpForwardsAll

\* Once stop() is called on a sender, it sends nothing more (Senders).
StopHonoured == [][part = "senders" => SN!StopHonouredStep]_allvars
=============================================================================
