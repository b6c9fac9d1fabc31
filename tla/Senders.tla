------------------------------ MODULE Senders ------------------------------
(***************************************************************************)
(* The network data senders of src/tests/daemon_test.py that the runner    *)
(* scripts start when the daemon is ready and stop in their finally block  *)
(* (stop_network_data): TcpSender and UdpSender, each a thread running     *)
(* go() over a file while the runner may call stop() at any time.         *)
(*                                                                         *)
(* Bytes are scaled: HDRLEN and SETLEN are the sizes of an IPFIX message   *)
(* header and set header in units, and a file is a sequence of units.  A   *)
(* header is one unit carrying its fields followed by zero units; data     *)
(* units are zeros, so a set header read from data unpacks as (0, 0).     *)
(* A UDP input is given as messages of sets, and encoded into its file.   *)
(***************************************************************************)
EXTENDS Integers, Sequences, SequencesExt

CONSTANTS UdpInputs,   \* [msgs : Seq([vers, sets : Seq([id, sz, n])]), cut]
          TcpFiles,    \* files TcpSender sends (sequences of bytes)
          TCPBUF,      \* bytes per file read of TcpSender
          HDRLEN,      \* IPFIX message header, in units
          SETLEN,      \* IPFIX set header, in units
          MTU,         \* largest packet UdpSender sends
          TidToLength, \* tidtolength: template id -> record length
          SeqLimit     \* 2^32: struct "!I" packs 0 .. SeqLimit - 1

VARIABLES stopped,  \* senders stop_network_data has stopped: 0, 1 (TCP), 2
          udp,      \* UdpSender thread: "unstarted", "connect", "readhdr",
                    \* "sets", "closed", "exited" (sys.exit), "crashed"
          urun,     \* UdpSender._running
          uin,      \* the UDP input
          ufile,    \* its encoding, the file UdpSender reads
          upos,     \* file position
          umsg,     \* msg: the rest of the current message
          reccount, \* records sent so far, the next sequence number
          usent,    \* packets sent: [octets, seq, data, ok]
          uend,     \* why go() stopped reading by itself, or "none"
          tcp,      \* TcpSender thread: "unstarted", "connect", "read",
                    \* "send", "closed", "exited"
          trun,     \* TcpSender._running
          tfile,    \* the file TcpSender reads
          tpos,     \* file position
          tpdu,     \* pdu: the part of the last read not yet sent
          trcvd,    \* the bytes the peer has received
          teof      \* a read returned no data

uvars == <<udp, urun, uin, ufile, upos, umsg, reccount, usent, uend>>
tvars == <<tcp, trun, tfile, tpos, tpdu, trcvd, teof>>
svars == <<stopped, uvars, tvars>>

Least(x, y) == IF x < y THEN x ELSE y

Unit(k, a, b) == [k |-> k, a |-> a, b |-> b]
Zeros(n) == [i \in 1..n |-> Unit("z", 0, 0)]
Drop(s, n) == SubSeq(s, n + 1, Len(s))

EncodeSet(s) == <<Unit("set", s.id, s.sz)>> \o Zeros(SETLEN - 1 + s.n)
MsgLen(m) == FoldLeft(LAMBDA acc, s : acc + SETLEN + s.n, HDRLEN, m.sets)
EncodeMsg(m) ==
    <<Unit("hdr", m.vers, MsgLen(m))>> \o Zeros(HDRLEN - 1)
        \o FlattenSeq([i \in DOMAIN m.sets |-> EncodeSet(m.sets[i])])
Encode(in) ==
    LET f == FlattenSeq([i \in DOMAIN in.msgs |-> EncodeMsg(in.msgs[i])])
    IN  SubSeq(f, 1, Len(f) - in.cut)

\* hdrstruct.unpack and setstruct.unpack of the unit starting the bytes.
HdrFields(u) == IF u.k = "hdr" THEN <<u.a, u.b>> ELSE <<0, 0>>
SetFields(u) == IF u.k = "set" THEN <<u.a, u.b>> ELSE <<0, 0>>

\* The records a set of template id and size sz adds to reccount.
Records(id, sz) ==
    IF id >= 256 /\ id \in DOMAIN TidToLength THEN (sz - SETLEN) \div TidToLength[id] ELSE 0

Init ==
    /\ stopped = 0
    /\ udp = "unstarted" /\ urun = FALSE /\ uin \in UdpInputs /\ ufile = Encode(uin)
    /\ upos = 0 /\ umsg = <<>> /\ reccount = 0 /\ usent = <<>> /\ uend = "none"
    /\ tcp = "unstarted" /\ trun = FALSE /\ tfile \in TcpFiles /\ tpos = 0
    /\ tpdu = <<>> /\ trcvd = <<>> /\ teof = FALSE

\* stop_network_data(): stop() on the TcpSender, then on the UdpSender.
Stop ==
    /\ stopped < 2
    /\ stopped' = stopped + 1
    /\ IF stopped = 0 THEN trun' = FALSE /\ UNCHANGED <<uvars, tcp, tfile, tpos, tpdu, trcvd, teof>>
       ELSE urun' = FALSE /\ UNCHANGED <<tvars, udp, uin, ufile, upos, umsg, reccount, usent, uend>>

----------------------------------------------------------------------------
(* UdpSender.go                                                           *)

\* The thread's first statement: self._running = True.
UStart ==
    /\ udp = "unstarted"
    /\ udp' = "connect" /\ urun' = TRUE
    /\ UNCHANGED <<stopped, tvars, uin, ufile, upos, umsg, reccount, usent, uend>>

\* getaddrinfo() and connect(); with no address connected, sys.exit(1).
UConnect(ok) ==
    /\ udp = "connect"
    /\ udp' = IF ok THEN "readhdr" ELSE "exited"
    /\ UNCHANGED <<stopped, tvars, urun, uin, ufile, upos, umsg, reccount, usent, uend>>

\* One turn of the outer loop: read a message header, check it, and read
\* the message; a short read or a bad header ends the loop.
UReadHdr ==
    /\ udp = "readhdr" /\ urun
    /\ LET rest == Len(ufile) - upos
           h == HdrFields(ufile[upos + 1])
           body == SubSeq(ufile, upos + HDRLEN + 1, upos + h[2])
       IN  CASE rest < HDRLEN ->
                  urun' = FALSE /\ uend' = "eof" /\ upos' = Len(ufile) /\ UNCHANGED <<udp, umsg>>
             [] h[1] # 10 \/ h[2] < HDRLEN ->
                  urun' = FALSE /\ uend' = "bad" /\ upos' = upos + HDRLEN /\ UNCHANGED <<udp, umsg>>
             [] rest < h[2] ->
                  urun' = FALSE /\ uend' = "short" /\ upos' = Len(ufile) /\ UNCHANGED <<udp, umsg>>
             [] OTHER ->
                  udp' = "sets" /\ umsg' = body /\ upos' = upos + h[2] /\ UNCHANGED <<urun, uend>>
    /\ UNCHANGED <<stopped, tvars, uin, ufile, reccount, usent>>

\* Mutant: the record count updated before the header is packed.
USetCountFirst(ok) ==
    /\ udp = "sets" /\ urun /\ Len(umsg) > SETLEN
    /\ LET f == SetFields(umsg[1])
           c == reccount + Records(f[1], f[2])
       IN  CASE f[2] < SETLEN -> umsg' = <<>> /\ UNCHANGED <<udp, reccount, usent>>
             [] HDRLEN + f[2] > MTU -> umsg' = Drop(umsg, f[2]) /\ UNCHANGED <<udp, reccount, usent>>
             [] OTHER ->
                  /\ usent' = Append(usent, [octets |-> HDRLEN + f[2], seq |-> c,
                                             data |-> SubSeq(umsg, 1, Least(f[2], Len(umsg))), ok |-> ok])
                  /\ reccount' = c /\ umsg' = Drop(umsg, f[2]) /\ UNCHANGED udp
    /\ UNCHANGED <<stopped, tvars, urun, uin, ufile, upos, uend>>

\* Mutant: a set exactly the MTU long is taken as too large.
USetMtuEdge(ok) ==
    /\ udp = "sets" /\ urun /\ Len(umsg) > SETLEN
    /\ LET f == SetFields(umsg[1])
       IN  CASE f[2] < SETLEN -> umsg' = <<>> /\ UNCHANGED <<udp, reccount, usent>>
             [] HDRLEN + f[2] >= MTU -> umsg' = Drop(umsg, f[2]) /\ UNCHANGED <<udp, reccount, usent>>
             [] OTHER ->
                  /\ usent' = Append(usent, [octets |-> HDRLEN + f[2], seq |-> reccount,
                                             data |-> SubSeq(umsg, 1, Least(f[2], Len(umsg))), ok |-> ok])
                  /\ reccount' = reccount + Records(f[1], f[2])
                  /\ umsg' = Drop(umsg, f[2]) /\ UNCHANGED udp
    /\ UNCHANGED <<stopped, tvars, urun, uin, ufile, upos, uend>>

\* Mutant: no MTU check.
USetNoMtu(ok) ==
    /\ udp = "sets" /\ urun /\ Len(umsg) > SETLEN
    /\ LET f == SetFields(umsg[1])
       IN  CASE f[2] < SETLEN -> umsg' = <<>> /\ UNCHANGED <<udp, reccount, usent>>
             [] OTHER ->
                  /\ usent' = Append(usent, [octets |-> HDRLEN + f[2], seq |-> reccount,
                                             data |-> SubSeq(umsg, 1, Least(f[2], Len(umsg))), ok |-> ok])
                  /\ reccount' = reccount + Records(f[1], f[2])
                  /\ umsg' = Drop(umsg, f[2]) /\ UNCHANGED udp
    /\ UNCHANGED <<stopped, tvars, urun, uin, ufile, upos, uend>>

\* One turn of the inner loop: the next set of the message, dropped when
\* its length is bad (with the rest of the message) or the packet would
\* exceed the MTU; otherwise sent alone under a header carrying reccount,
\* which struct.pack refuses past 2^32 - 1.  A send error (ok = FALSE) is
\* logged and the loop goes on.
USet(ok) ==
    /\ udp = "sets" /\ urun /\ Len(umsg) > SETLEN
    /\ LET f == SetFields(umsg[1])
       IN  CASE f[2] < SETLEN -> umsg' = <<>> /\ UNCHANGED <<udp, reccount, usent>>
             [] HDRLEN + f[2] > MTU -> umsg' = Drop(umsg, f[2]) /\ UNCHANGED <<udp, reccount, usent>>
             [] reccount >= SeqLimit -> udp' = "crashed" /\ UNCHANGED <<umsg, reccount, usent>>
             [] OTHER ->
                  /\ usent' = Append(usent, [octets |-> HDRLEN + f[2], seq |-> reccount,
                                             data |-> SubSeq(umsg, 1, Least(f[2], Len(umsg))), ok |-> ok])
                  /\ reccount' = reccount + Records(f[1], f[2])
                  /\ umsg' = Drop(umsg, f[2]) /\ UNCHANGED udp
    /\ UNCHANGED <<stopped, tvars, urun, uin, ufile, upos, uend>>

\* The inner loop ends: stopped, or at most a set header's length left.
USetsEnd ==
    /\ udp = "sets" /\ ~(urun /\ Len(umsg) > SETLEN)
    /\ udp' = "readhdr"
    /\ UNCHANGED <<stopped, tvars, urun, uin, ufile, upos, umsg, reccount, usent, uend>>

\* The outer loop ends and the socket is closed.
UClose ==
    /\ udp = "readhdr" /\ ~urun
    /\ udp' = "closed"
    /\ UNCHANGED <<stopped, tvars, urun, uin, ufile, upos, umsg, reccount, usent, uend>>

----------------------------------------------------------------------------
(* TcpSender.go                                                           *)

TStart ==
    /\ tcp = "unstarted"
    /\ tcp' = "connect" /\ trun' = TRUE
    /\ UNCHANGED <<stopped, uvars, tfile, tpos, tpdu, trcvd, teof>>

TConnect(ok) ==
    /\ tcp = "connect"
    /\ tcp' = IF ok THEN "read" ELSE "exited"
    /\ UNCHANGED <<stopped, uvars, trun, tfile, tpos, tpdu, trcvd, teof>>

\* pdu = self._file.read(TCPBUF); no data ends the loop.
TRead ==
    /\ tcp = "read" /\ trun
    /\ LET pdu == SubSeq(tfile, tpos + 1, Least(tpos + TCPBUF, Len(tfile)))
       IN  IF pdu = <<>> THEN trun' = FALSE /\ teof' = TRUE /\ UNCHANGED <<tcp, tpos, tpdu>>
           ELSE tcp' = "send" /\ tpdu' = pdu /\ tpos' = tpos + Len(pdu) /\ UNCHANGED <<trun, teof>>
    /\ UNCHANGED <<stopped, uvars, tfile, trcvd>>

\* Mutant: the bytes sent are not cut from pdu.
TSendNoSlice(k) ==
    /\ tcp = "send" /\ trun /\ k <= Len(tpdu)
    /\ trcvd' = trcvd \o SubSeq(tpdu, 1, k)
    /\ tpdu' = IF k = Len(tpdu) THEN <<>> ELSE tpdu
    /\ UNCHANGED <<stopped, uvars, tcp, trun, tfile, tpos, teof>>

\* num_sent = sock.send(pdu) sends the first k bytes; pdu = pdu[num_sent:].
\* A socket.timeout sends nothing and the same call is retried: a step
\* that changes nothing.
TSend(k) ==
    /\ tcp = "send" /\ trun /\ k <= Len(tpdu)
    /\ trcvd' = trcvd \o SubSeq(tpdu, 1, k)
    /\ tpdu' = Drop(tpdu, k)
    /\ UNCHANGED <<stopped, uvars, tcp, trun, tfile, tpos, teof>>

\* socket.error: logged, and self._running = False.
TSendError ==
    /\ tcp = "send" /\ trun /\ tpdu # <<>>
    /\ trun' = FALSE
    /\ UNCHANGED <<stopped, uvars, tcp, tfile, tpos, tpdu, trcvd, teof>>

TSendEnd ==
    /\ tcp = "send" /\ ~(trun /\ tpdu # <<>>)
    /\ tcp' = "read"
    /\ UNCHANGED <<stopped, uvars, trun, tfile, tpos, tpdu, trcvd, teof>>

TClose ==
    /\ tcp = "read" /\ ~trun
    /\ tcp' = "closed"
    /\ UNCHANGED <<stopped, uvars, trun, tfile, tpos, tpdu, trcvd, teof>>

SendersNext ==
    \/ Stop
    \/ UStart \/ \E ok \in BOOLEAN : UConnect(ok)
    \/ UReadHdr \/ \E ok \in BOOLEAN : USet(ok)
    \/ USetsEnd \/ UClose
    \/ TStart \/ \E ok \in BOOLEAN : TConnect(ok)
    \/ TRead \/ \E k \in 1..TCPBUF : TSend(k)
    \/ TSendError \/ TSendEnd \/ TClose

----------------------------------------------------------------------------
(* What a single-set forwarder sends for an input: the sets of the        *)
(* messages before the first bad or truncated one, each up to the first   *)
(* set of bad length, and of those the ones that fit the MTU, each as a   *)
(* packet of its own.                                                      *)

GoodMsgs(in) ==
    LET ms == IF in.cut > 0 THEN SubSeq(in.msgs, 1, Len(in.msgs) - 1) ELSE in.msgs
        bad == {i \in DOMAIN ms : ms[i].vers # 10}
    IN  IF bad = {} THEN ms ELSE SubSeq(ms, 1, Min(bad) - 1)

GoodSets(m) ==
    LET bad == {i \in DOMAIN m.sets : m.sets[i].sz < SETLEN}
        ss == IF bad = {} THEN m.sets ELSE SubSeq(m.sets, 1, Min(bad) - 1)
    IN  SelectSeq(ss, LAMBDA s : HDRLEN + s.sz <= MTU)

RefPackets(in) ==
    LET sets == FlattenSeq([i \in DOMAIN GoodMsgs(in) |-> GoodSets(GoodMsgs(in)[i])])
    IN  [i \in DOMAIN sets |-> [octets |-> HDRLEN + sets[i].sz, data |-> EncodeSet(sets[i])]]

Packets(s) == [i \in DOMAIN s |-> [octets |-> s[i].octets, data |-> s[i].data]]

\* The data records a sent packet carries.
PacketRecords(p) == Records(SetFields(p.data[1])[1], p.octets - HDRLEN)

----------------------------------------------------------------------------
SendersTypeOK ==
    /\ stopped \in 0..2 /\ urun \in BOOLEAN /\ trun \in BOOLEAN
    /\ upos \in 0..Len(ufile) /\ tpos \in 0..Len(tfile)
    /\ \A i \in DOMAIN usent : usent[i].octets <= MTU /\ usent[i].seq \in 0..SeqLimit - 1

\* TcpSender's partial sends and retries deliver the file in order, without
\* loss or repetition, and all of it when go() ends at end of file.
TcpStreamFaithful ==
    /\ IsPrefix(trcvd, tfile)
    /\ tcp = "closed" /\ teof => trcvd = tfile

\* Each packet's IPFIX sequence number counts the data records of the
\* packets UdpSender sent before it (RFC 7011), sets dropped for their size
\* and sets of unknown or template ids excepted.
UdpSeqNumbers ==
    \A i \in DOMAIN usent :
        usent[i].seq = FoldLeft(LAMBDA acc, p : acc + PacketRecords(p), 0, SubSeq(usent, 1, i - 1))

\* When UdpSender stops reading by itself (end of file, a bad header or a
\* short read), it has sent each set of the file's good messages that fits
\* the MTU, once, in order, as a message of its own.
UdpForwardsAll == uend # "none" => Packets(usent) = RefPackets(uin)

\* stop() stops the sender: once stop_network_data has called it, the
\* sender sends nothing more.
StopHonouredStep ==
    /\ stopped >= 1 => trcvd' = trcvd
    /\ stopped = 2 => usent' = usent

StopHonoured == [][StopHonouredStep]_svars
=============================================================================
