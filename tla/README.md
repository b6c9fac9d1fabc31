# TLA+ models of the SiLK Python test harness and PySiLK containers

The Python in this repository is mostly test infrastructure around the SiLK
daemons (written in C, not part of these sources). Its concurrent part is the
daemon supervision harness of `src/src/sendrcv/tests/sendrcv_tests.py`. The
rest is the runner scripts that drive one daemon through its stderr, the
network data senders of `src/tests/daemon_test.py`, the PySiLK plugin
codecs, the Python layer of the PySiLK `Bag` and `IPSet` classes
(`src/src/pysilk/python/__init__.py`), the `silk.site` module (`site.py`)
and `silk.fglob.FGlob` (`fglob.py`). This directory models the harness,
the runner scripts, the TCP and UDP network senders, the plugin codecs, the two container classes, the site
module and FGlob, and checks them with TLC.

## The system

### Inventory

| Part | Source | State | Operations | Concurrency |
|---|---|---|---|---|
| Test process and `Daemon` handle | `sendrcv_tests.py` 146-180, 406-513 | `pid`, `pipe`, the global `trigger_id` | `start`, `stop`, `kill`, `end`, `exit`, `expect`, `trigger()` | one thread; each call blocks on replies from the socketpair |
| Supervisor (`Daemon._child`, forked) | 305-404, 447-550 | `process`, `logdata`, `pending_line`, `trigger`, `timeout`, `channels` | select loop: requests (`_handle_parent`), log lines (`_handle_log`), trigger deadline; `_start`, `_stop`, `_kill`, `_end` | one process per daemon, against the test and its daemon |
| Socketpair framing | 462-479 | byte stream | `dump` (struct `L` header + JSON), `load` | two directions per daemon |
| Supervised daemon | (C program) | running or exited, stderr pipe | writes log lines, exits by itself or on a signal | black box |
| Orchestration (`System`, `_test*`) | 553-1443 | daemons, directories, files | calls on the handles | sequential |
| Runner scripts | `flowcap-daemon.py`, `rwflowpack-daemon.py`, `rwflowappend-daemon.py`, `rwpollexec-daemon.py`, `daemon_test.py` `TimedReadline` | `count`, `term`, `starttime`, `shutdowntime`, `clean` | line loop with daemon timeout, record limit, SIGTERM, SIGKILL after 15 s | the runner against its daemon |
| Network senders | `daemon_test.py` 107-336 | `_running`, the file position, `reccount` | `TcpSender.go`, `UdpSender.go`, `stop` | a thread per sender |
| Plugin codecs | `pysilk/python/plugin.py` 238-503 | `struct_map`; `enum_conv`'s `map`, `list`, `nextindex`; the bins the tools hold | `int_to_bin`, `bin_to_int`, `bytes_for_val`, `int_conv`, `enum_conv`, `int_agg_conv` | none |
| `silk.Bag` | `__init__.py` 714-1193 | the C `BagBase` counters, one bag per Python variable | item set/delete, `incr`, `decr`, `add`, `remove`, `update`, `+=`, `-=`, `*=`, `/`, `min`, `max`, `intersect`, `complement_intersect`, `constrain_*`, `inversion`, `copy`, `==`, `group_iterator` | none (generators are run to the end in one step) |
| `silk.IPSet` | `__init__.py` 270-604 | the C `IPSetBase` address set | `add`, `add_range`, `discard`, `remove`, `pop`, `update`, `*_update`, `union`, `intersection`, `difference`, `symmetric_difference`, `issubset`, `issuperset`, `isdisjoint`, `==`, truth value | none |
| `silk.site` | `site.py` | `_initialized`, the name maps, `_default_class`; the C site configuration and data root directory | the query functions, `init_site`, `set_data_rootdir`, `SiteRepoIter` | none |
| `silk.fglob.FGlob` | `fglob.py` | `self.args`; the rwfglob child and its stdout pipe | `__init__`, the generator `__iter__` | the generator against the rwfglob process |
| Records, files, prefix maps, gencerts, silk-python-info | other files and the rest of `__init__.py` | - | delegation to C, external tools | none |

### How the parts interact

A test creates `Daemon` handles. The first `start()` forks a supervisor,
which from then on owns the daemon process. Every later call is a request
over the socketpair followed by a wait for its reply:
- `start` is answered `('start',)`;
- `stop` and `kill` are answered `('stop',)` and `('kill',)`;
- `end` is answered `('stopped', rc)`, after `_end`'s grace period of
  KILL_DELAY = 20 s and a SIGKILL if the grace period runs out;
- `exit` first runs `end`, then tells the supervisor to `os._exit`.

`trigger(*specs, first=, pid=)` sends one request per daemon. Each
supervisor first searches its past log. If nothing matches, it arms a
deadline and matches each new line as `_handle_log` reads it. It replies
`('trigger', id, ok, ...)` when a line matches or the deadline passes. The
caller skips results of other ids. It raises TriggerError on a failure or on
a reply that is not a trigger result.

### Hard behaviours

- The daemon's writes interleave with the supervisor's non-blocking reads:
  partial lines, and a line split across two reads.
- Restarts of the daemon under one supervisor, which keeps its log and its
  pending partial line.
- Triggers abandoned by `first=True` or by an exception. Their results and
  deadlines outlive the call.
- The grace period of `_end`, during which the loop is blocked, and
  escalation to SIGKILL.
- Calls on a handle whose supervisor has crashed or exited.

## Modules

| Module | Models | Variables / operators ↔ code |
|---|---|---|
| `LineReader` | `_handle_log`'s reassembly (305-337) | `Pump(p, s)` is one call over readable items `s` with `pending_line` `p`. `Join` is `line = self.pending_line + line`. `GotLine` is the return value. `CompleteLines` is the reference: the lines of a stream read in one piece. |
| `MCLineReader` | one process's stream read in arbitrary chunks | `stream`, `unread`, `pending`, `logdata`; `Read(k)` is one `_handle_log` call over `k` readable items (`_child` 386-390) |
| `Harness` | handle, `trigger()`, supervisor, daemon black box, clock | see below |
| `MCHarness` | instantiates `Harness` for TLC | defines `DaemonSymmetry` |
| `Senders` | `TcpSender`, `UdpSender` and `stop_network_data` (`daemon_test.py` 136-336, `flowcap-daemon.py` 50-72) | see below |
| `MCHarnessModes` | two instances of `Harness` in one model | `mode` picks, once, the suite's calling discipline with whole-line writes (`Suite`) or any calls with split writes (`Any`) |
| `MCRunner` | instantiates `Runner`, `MCLineReader` and `Senders` for TLC | the write bound per script, the UDP inputs; `part` picks the runner scripts, the senders or `_handle_log`'s reassembly for a behaviour |
| `Runner` | the four runner scripts and `TimedReadline` | see below |
| `PluginCodec` | `plugin.py` 235-503: `struct_map`, `Int2String`/`String2Int`, `int_to_bin`/`bin_to_int`, `bytes_for_val`, `int_conv`, `enum_conv`, `int_agg_conv` | one operator per function; a result is `Ok(v)` or `Raise(e)` for a Python exception |
| `PluginFields` | the calls rwuniq, rwstats and rwsort make on a registered field | see below |
| `MCPluginFields` | instantiates `PluginFields` | the enum ordering and the int field ranges |
| `Bag` | `silk.Bag` over `BagBase` | `bag[x]` is the bag held by variable x, a function from key to its nonzero counter; `err` the exception of the last call; `last` the call and its arguments. One operator per method; `GroupIterator` runs the generator step by step (`GIStep`, `RECURSIVE GIRun`) |
| `BagSpec` | what the docstrings promise | each method as an operation of the standard `Bags` module (`(+)`, `(-)`, `SetToBag`, `ToBag`) |
| `IPSet` | `silk.IPSet` over `IPSetBase` | `ipset[x]` the address set of variable x, `ipres` the result or exception of the last call, `iplast` the call and its arguments |
| `IPSetSpec` | what the docstrings promise | each method as set algebra on the members of its argument |
| `Site` | `site.py` | `loaded` and `rootdir` are the C side (a configuration loaded, `get_data_rootdir()`); `maps` the module globals; `sres` the last query, its argument and result; `siter` the last `SiteRepoIter` |
| `FGlob` | `fglob.py` | `fg` the object (its args or the `ValueError`); `proc`, `pipe`, `printed`, `status`, `returncode` the rwfglob child and the `Popen` object; `gen`, `yielded` the generator |
| `MCBag` | composes `Bag` and instances of `IPSet`, `Site` and `FGlob` | `scope` picks the part a behaviour exercises; `AbsBag` and `AbsIP` instantiate the two specs for the refinement properties; `ST` and `FG` give `Site` a two-sensor, two-class, three-flowtype configuration and `FGlob` its argument values |

### `Harness`: state

| Group | Variables | Code |
|---|---|---|
| Test side | `tpc`, `tcall`, `twait`, `tfirst`, `trigger_id`, `hpid`, `hstate`, `raised` | the blocked call, `trigger()`'s `count`/`pipes`, the global `trigger_id`, `self.pid` |
| Channel | `toSup`, `toPar` | the two directions of the socketpair, as whole messages |
| Supervisor | `spc`, `trig`, `tmo`, `endLeft`, `logdata`, `pending`, `watching` | `_child`'s control point, `self.trigger`, `self.timeout` (ticks left), `target` of `_end`, `self.logdata`, `self.pending_line`, stderr in `self.channels` |
| Daemon | `gen`, `dstat`, `rc`, `midline`, `nlines`, `stderr`, `wrote` | process generation (its pid), its status and exit code, pipe contents; `wrote` is a history variable |

### `Harness`: actions

Supervisor actions, one per handler:
- `SupLog` (lines 387-390);
- `SupStart` and `SupStartRunning` (345-350, 447-460);
- `SupStop`, `SupKill`, `SupEnd`, `SupExit`, `SupTrigger` (343-380);
- `SupTimeout` (398-404);
- `SupEndPoll` and `SupEndWake` (the loop of `_end`, 533-550);
- `Crash`, the exception path of `start()`, 437-445, used by
  `SupStartRunning` and `SupTimeout`.

Test actions:
- `Start`, `Request` (stop, kill, end, exit), `Trigger`;
- `RecvExpect`, `EofExpect` and `WaitPid` (`expect`, `load`, `exit`);
- `RecvTrig` and `EofTrig` (the loop of `trigger()`).

Daemon actions: `WriteLine`, `WriteHead`, `WriteTail` and `ProcExit`.

Clock: `Tick`.

Data is abstracted:
- A log line is a record (generation, index, text), with text drawn from
  `Texts`.
- A pattern is a text. A pid-scoped pattern matches only lines of the
  current generation.
- Framing is left to a later module.

### `Runner`

One module covers the four scripts. The variable `script`, fixed after
`Init`, says which one runs. Their
loops share `TimedReadline` and the timeout and SIGKILL steps, and differ in
what they count and in rwpollexec's process-group handling.

State:
- `rpc` is the runner's position: the `while` loop, the `finally` block, or
  exited.
- `buf` is `TimedReadline.buf`, made of the write items of `LineReader`.
- `r` holds the locals: `count`, `run_count`, the completion counts, `clean`,
  `term` and `started`/`send_list`. It also holds the three elapsed times
  `starttime`, `shutdowntime` and `endedtime`, as ages capped one past their
  deadline.
- `status` is the exit status.
- The daemon is `dstat`, `rc`, `wopen` (its stderr is open), `holder` (a
  command in execute mode "hang" holds the pipe), `pipe`, `midline` and `nw`.
- `wrote` is the history of complete lines.

Actions:
- `Fill`, `ReadLine`, `Timeout` and `Eof` are the four outcomes of
  `line_reader(1)`. `ReadLine` and `Timeout` run the loop body.
- The body is a composition of one operator per block of the script:
  `CheckTimeout`, `CountRecords` / `CountAppends` / `CountRunComplete`,
  `StartSenders` / `StartFlowpack`, `Closing`, `KillLate` / `KillPgLate`,
  `PollEnded`, `EndedBreak`.
- `Final` and `FinalPollexec` are the `finally` block and the exit.

Daemon actions: `WriteLine`, `WriteHead`, `WriteTail`, `Exit`, `CloseLog`,
`SpawnHolder`.

The script compares `time.time()` with its deadlines (lines 216, 261, 278
of rwpollexec-daemon.py). A select() timeout is one second (`Timeout` ages
every deadline by one), and `Clock` lets any number of seconds pass while
the runner is in its loop, between any two steps: a deadline may expire
while a complete line waits in `buf` or the pipe. `r.eof` records that
the loop ended at end of file, the only ending after which every written
line has been read.

A line is `Line(kind, n)`, with `n` the record count of flowcap and
rwflowpack lines, or `Complete(o)` for an rwpollexec completion message of
outcome `o`.

### `Senders`

flowcap's runner starts a `TcpSender` and a `UdpSender` thread
(`send_network_data`) and stops them from its `finally` block
(`stop_network_data`, which calls `stop()` on each in turn: `Stop`).

State: `trun`/`urun` are the two `_running` flags; `tcp`/`udp` the threads'
positions; `tfile`/`ufile` the files and `tpos`/`upos` the read offsets;
`tpdu` the unsent rest of the PDU; `umsg` the unsplit rest of the IPFIX
message; `reccount`; `trcvd` what the TCP peer received and `usent` the UDP
packets sent; `uend` why the UDP loop ended (end of file, bad header,
short read).

A UDP input is a list of messages of sets, encoded into a sequence of
units (`Encode`): a message header carries version and length, a set
header id and length, and each further unit stands for one octet. The cut
drops the last units of the file, to give a short read.

Actions:
- `TStart`/`UStart`: the thread's first statement, `self._running = True`.
- `TConnect(ok)`/`UConnect(ok)`: the connect loop, or `sys.exit(1)`.
- `TRead`, `TSend(k)` (a `sock.send` of the first `k` octets),
  `TSendError`, `TSendEnd`, `TClose`. A `socket.timeout` sends nothing
  and changes nothing.
- `UReadHdr` reads and checks a message header and reads the message;
  `USet(ok)` handles one set (bad length, over the MTU, the struct.pack
  failure of the sequence number, or a send that may fail);
  `USetsEnd` and `UClose`.

The IPFIX widths are scaled: a message header is 2 units, a set header 1,
the MTU 5, the sequence number field 2 bits (`SeqLimit = 4`).

### `PluginCodec` and `PluginFields`

A byte string is a sequence of digits in base `B`. The code's base is 256.
The runs use `B = 2`, so every width the code treats differently can be
enumerated within TLC's integers:
- 1, 2, 4 and 8 bytes are `Struct`s;
- 3, 5, 6 and 7 are `convert_from_larger` over the next format;
- 16 is `convert_128`;
- 9 to 15 and 17 up are built byte by byte by `Int2String`.

`PY3` selects the interpreter. Under Python 3 `Int2String` and `String2Int`
raise TypeError as soon as they have a nonzero byte to handle.
`EnumRecToBin` returns the new `enum_conv` state with the bin.

`PluginFields` holds the field one plug-in registers (`reg`):
- `agg`: an aggregator (`kind`, `maxval`) with two partial bins `part` and
  the values fed into each (`vals`, a history variable). `AddRec` is
  `add_rec_to_bin`; `Merge` is `bin_merge`. A bin that raised takes no more
  records, because the exception ends the tool.
- `enum`: `est` is the `enum_conv` object; `EnumRec(key)` is `rec_to_bin`.
  `ebins` keeps every bin handed out.
- `int`: `field` is `<<min, max>>`; `IntRec(v)` is `rec_to_bin`. `ibins`
  keeps every bin handed out.

The conv objects of different fields share nothing, so one behaviour
exercises one field.

### `Bag`, `IPSet` and their specifications

`BagBase` and `IPSetBase` are C types that are not in this repository.
They are modelled as the environment the Python methods call:
- `BagBase` as a map from key to counter with `__getitem__`, `__setitem__`
  (a 0 counter deletes the key), iteration over keys in ascending order and
  `iteritems`;
- `IPSetBase` as a set of integer addresses with `add`, `discard`,
  `update`, `intersection_update`, `difference_update` and `isdisjoint`
  taking an IPSet or an IPWildcard, and iteration in ascending order.

Every Python method is one action: the loop, the early `raise` and the
calls on the C object it makes, in their order. For example, `remove(*items)`
decrements item by item and stops at the first missing key with
ValueError, leaving the earlier decrements done; `-=` deletes a key whose
counter would fall below 1. A method that returns a new bag stores it in
the receiver variable (`x = y + z` as one step).

An iterable argument is a list, which can be iterated again, or a
generator, which yields its items once (`Used(g)` empties it). The
`ipset_generator` run gives IPSet methods generators; the other runs only
lists.

Refinement: `BagSpec` and `IPSetSpec` state each method by what its
docstring says, over the standard `Bags` module and plain sets. Both the
detailed and the abstract state record `<<method, receiver, arguments>>`
of the last call, so a detailed step is matched only by the abstract step
of the same call with the same arguments. The refinement mapping is the
identity on the bags and sets. `MCBag` checks
`AbsBag!Init /\ [][UNCHANGED v \/ AbsBag!Next]_v`, the abstract
specification as a property, with the stuttering case first so that
TLC decides most steps without enumerating abstract calls.

`group_iterator` is checked as a pure algorithm: `GroupIterator(a, b)`
runs `GIStep` for at most `Fuel` steps and reports whether it reached the
end (`pc = "done"`) and what it yielded. `GroupIterValues` and
`GroupIterComplete` compare this with the reference: the keys of both bags,
sorted, each with its counter or None.

### `Site` and `FGlob`

The C side of `silk.site` is not in this repository. It is modelled as
what `site.py` relies on: `init_site()` loads the `silk.conf` of the
current data root directory if it has one (`ConfDirs`) and never replaces
a loaded one; `sensor_info()`, `class_info()` and `flowtype_info()` are
empty while nothing is loaded.

`InitMaps` is `_init_maps()`: nothing once `_initialized`, `False` (and no
change) when no configuration is or can be loaded, otherwise the maps
`BuiltMaps` builds from the three info dicts, keyed by name. Every query
function is `Query(q, a)`: `_init_maps()` and then the answer `Answer`,
with `sensor_from_id`, `classtype_id` and `classtype_from_id` raising
`KeyError` when `_init_maps()` fails, and `classtypes()` reading the C
info directly. `NewIter(a)` is `SiteRepoIter.__init__`, whose
`default_class()` and `default_types()` calls may load the configuration
midway; `IterStart` is `__iter__`'s root directory check.

The references are written the other way round: `RefAnswer` reads each
relation from the C info from the other end (a class's sensors are those
whose class list names it, a class's types those of the flowtypes naming
it), and `RefSelection` is the selection `repository_iter`'s docstring
describes.

`FGlob` models `__init__` by what it does to each argument: `Conv` (lists
joined, dates formatted, strings kept), the two `ValueError`s of missing
or inconsistent selections, and the check that every truthy converted
value is a `str`. `__iter__` is `Spawn` (`Popen`, ENOENT as RuntimeError,
other errnos re-raised), `Yield` (the returncode test and one line) and
`Eof`. rwfglob prints names (`PrintName`) and exits with any status
(`Exit`); `returncode` stays `None` because `poll()`, `wait()` and
`communicate()` are never called.

## Runs

| Run | Cfg | Expect | What it shows |
|---|---|---|---|
| `harness` | `MCHarnessModes.cfg` | pass | Two instances. `Suite`: one daemon, two generations, whole-line writes, calls made as the suite makes them, and a grace period that `_end` polls twice; `NoMissedMatch` holds. `Any`: split writes, and the handle methods in any order (start while running, calls after exit). In `Suite`, `LogComplete`: once `end()` has returned and no call is in progress, each supervisor's log holds exactly the lines its daemon wrote, over every restart (`_end` drains stderr before replying; `_start` would drop what is unread). In both, every blocking call returns (`CallsReturn`). |
| `runner` | `MCRunner.cfg` | pass | For each of the four scripts: `ReportFaithful` (the counts and the clean verdict never exceed what the complete lines written support, and match them exactly when the loop ended at end of file; a SIGKILL or grace-period `break` may leave lines unread, since the clock moves freely between steps) and `MCRunnerEnds` (the runner ends). The daemon may split lines, exit with any code, close its stderr or ignore SIGTERM. In the same run, `ChunkBoundaryIndependence`: for every chunking of every stream of up to 4 writes, `_handle_log` delivers exactly the stream's lines. And for the senders: `TcpStreamFaithful` (the TCP peer receives a prefix of the file, all of it once the sender reached end of file and closed, whatever the partial sends), `UdpSeqNumbers` (each packet's sequence number counts the records of the packets before it), `UdpForwardsAll` (a UDP sender that ends has sent, or tried to send, exactly the sets of the well-formed messages that fit the MTU, in order) and `SendersTypeOK` (no packet over the MTU, no sequence number past its field). |
| `sender_stop` | `MCRunner_stop.cfg` | violation | `StopHonoured` fails: a stop that comes before a sender thread's first statement is undone, and the sender sends after it (finding 8). |
| `containers` | `MCBag.cfg` | pass | Every Bag and IPSet method on two variables: `EqIsEquality` (`==` is equality of the bags however they were built), `GroupIterValues` (each yielded item carries the right counters), `BagRefinement` and `IPSetRefinement` (each method does what `BagSpec`/`IPSetSpec` say). For `silk.site`, `QueriesAgreeWithSite` (every query answers what the loaded C configuration says, whatever queries, `init_site()` and `set_data_rootdir()` calls came before) and `IterSelection` (a `SiteRepoIter` selects the pairs its arguments and the default class say). FGlob's methods are actions of the same run, checked by `FGTypeOK`. And the four type invariants; `SiteTypeOK` includes that the maps are built only from a loaded configuration. |
| `fglob_failure` | `MCBag_fglob.cfg` | violation | `FailureReported` fails: an rwfglob that exits with status 1 ends the iteration normally (finding 7). |
| `group_iter` | `MCBag_group.cfg` | violation | `GroupIterComplete` fails: `group_iterator` never ends when the other bag runs out first on a smaller key (finding 5). |
| `ipset_generator` | `MCBag_gen.cfg` | violation | `IPSetRefinement` fails: `symmetric_difference` given a generator drops its items (finding 6). |
| `plugin_fields` | `MCPluginFields.cfg` | pass | Under Python 2: `IntRoundTrip` (int_to_bin/bin_to_int invert each other at widths 1-17), `AggFaithful` (bins decode to the sum, max or min of their records, `bin_compare` orders them, and the only exception is the sum's OverflowError past `max`), `EnumFaithful` (old bins keep decoding to their keys up to the 2^32 limit), `IntFieldOrder` (bins sort in value order). |
| `int_field_text` | `MCPluginFields_text.cfg` | violation | `IntFieldText` fails: `bin_to_text` prints the value minus `min` (finding 4). |
| `missed_match` | `MCHarness_missed.cfg` | violation | `NoMissedMatch` fails with split writes (finding 1). |
| `glued_line` | `MCHarness_glued.cfg` | violation | `LogFaithful` fails: `pending_line` survives `_start` (finding 2). |
| `stale_timeout` | `MCHarness_stale.cfg` | violation | `NoSupervisorCrash` fails: a stale `self.timeout` with `self.trigger = None` raises TypeError (finding 3). |

### Findings

1. `_handle_log` (line 335) reports "no line" after a partial read. `_child`
   then stops watching the stderr of a live daemon. A trigger on a later line
   times out although the line was written.
2. `_start` (447) keeps `pending_line`, so text from two processes is glued
   into one line.
3. A trigger answered from history (376) leaves the deadline of an abandoned
   trigger armed. When it passes, line 401 indexes `None`, and the
   supervisor SIGKILLs its daemon and exits.
4. `int_conv.bin_to_text` (plugin.py 368) prints `bin_to_int(bin)`, but
   `rec_to_bin` stored `fn(rec) - min`. rwuniq and rwstats print an int
   field with `min = -3` as 0 for the value -3.
5. `Bag.group_iterator` (`__init__.py` 1076): in the `elif bk < ak`
   branch, when `next(b)` raises StopIteration the code yields
   `(ak, av, None)` and drains `a`, but does not `return` as the other
   branches do. The loop then calls `next(b)` again forever.
   `Bag.integer({2: 1}).group_iterator(Bag.integer({1: 1}))` never ends.
6. `IPSet.symmetric_difference(_update)` (`__init__.py` 433-448) iterates
   its argument twice: once in `self.intersection(arg)` and once in
   `update(arg)`. A generator is exhausted by the first, so its items
   outside the intersection are lost. For a set {1} and a generator of
   1 and 2, the result is {} instead of {2}.
7. `FGlob.__iter__` (`fglob.py` 99) tests `rwfglob.returncode` to raise
   `RuntimeError("rwfglob failed")`, but `returncode` is only set by
   `poll()`, `wait()` or `communicate()`, none of which is called. An
   rwfglob that fails ends the iteration as a success, with whatever it
   printed, possibly nothing.
8. `TcpSender.go` and `UdpSender.go` (`daemon_test.py` 150, 220) set
   `self._running = True` as their first statement, in the new thread.
   A `stop_network_data()` that runs before the thread does is overwritten:
   the sender connects and sends its whole file after it was stopped.

Two divergences from the spec are documented here but not checked as a
run of their own:
- `expect()`'s end-of-channel branch (sendrcv_tests.py 414-416) is dead
  code, because `load()` raises RuntimeError (473).
- `_handle_parent` (364) overwrites a pending trigger, where spec sections
  3, 4.3 and 7 make a second registration a `DuplicateTriggerError`. The
  trigger left pending by `first=True` is silently replaced. This is how
  finding 3's stale deadline comes to outlive its trigger.

The spec contradicts itself on `start()` of a running daemon: section 2
calls it idempotent, section 7 a fatal `ProcessStillRunningError`. The code
(349) follows section 7: the supervisor raises, SIGKILLs the daemon and
exits. The `Any` instance of the `harness` run checks that the caller still gets an answer
(`CallsReturn`).

`SiteRepoIter` (`site.py` 210-221) takes a classtypes string of length 2,
such as `"in"`, as the pair `('i', 'n')`; the runs abstract classtypes
arguments to pairs and non-pairs, so this is listed as a hazard only.

Under Python 3, `Int2String` (286) and `String2Int` (298) raise TypeError,
so a field whose width is not 1-8 or 16 bytes fails. This was confirmed
with python3; the runs check Python 2 (`PY3 = FALSE`).

### Bounds

| Run | Daemons | Texts | Generations | Lines per process | Trigger ids | KILL_DELAY | Timeout | Other |
|---|---|---|---|---|---|---|---|---|
| `harness` (`Suite`) | 1 | a, b | 2 | 1 | 2 | 2 | 1 | |
| `harness` (`Any`) | 1 | a, b | 2 | 1 | 2 | 1 | 1 | `Ops = {stop, end, exit}`, unscoped triggers only |
| `stale_timeout` | 2 | a, b | 1 | 1 | 2 | 1 | 1 | |

`runner` checks all four scripts in one run: `script` is chosen in `Init`
and then fixed. Its `handle_log` part enumerates every stream of up to 4
items over two lines and line ends, cut into reads of every size.

Its `senders` part has a TCP file of 3 octets sent through a 2-octet
buffer (`TCPBUF`), so a PDU can be sent in one or two parts, and three UDP
inputs: sets of a template of 1-unit and of 2-unit records, of a template
set and of an unknown template; a set exactly at the MTU and one over it;
a set of bad length, a message of a bad version, a truncated last
message; and, in the first input, more than `SeqLimit` records, so that
the struct.pack failure is reached.

| Script | Limit | Writes | Record counts | Exit codes | Timeouts (daemon, SIGKILL, ended) |
|---|---|---|---|---|---|
| flowcap, rwflowpack | 2 | 3 | 0, 1 | 0, 1 | 1, 2, 1 |
| rwflowappend | 2 | 3 | - | 0, 1 | 1, 2, 1 |
| rwpollexec | 2 | 2 | - | 0, 1 | 1, 2, 1 |

`plugin_fields` uses `B = 2` and:
- aggregators `sum`, `max`, `min` with `max` in {3, 5, 300}, giving widths
  2, 3 (padded) and 9 (byte by byte), and two records per partial bin,
  enough for 3 + 1 to overflow;
- an enum field whose ordering leaves two free indexes below the limit of
  the 4-byte bin (16 with `B = 2`), and four keys, so that the third new
  key raises "Too many items";
- int fields whose ranges give widths 1, 3, 4, 9 and 16, with `min` below,
  at and above zero, fed both ends of the range, their neighbours and zero.
  Values outside `[min, max]` are not fed, because the register call
  declares that they do not occur.

The scripts compare each elapsed time with its deadline (`> 15`, `> 5`,
`> daemon_timeout`) only once per iteration. Which deadline passes first is
all that matters, so 15 s and 5 s are scaled to 2 and 1 with their order kept.
A limit of 2 can be reached by two lines, or by one line and a timeout.
Three writes give a limit, a closing line and a split line. rwpollexec
gets two writes, because its hanging command and process group multiply
the interleavings. Its limit is then reached only by two completion
messages, or not at all.

Why these bounds are enough:
- Two texts give a matching and a non-matching pattern.
- Two generations give a restart, and make pid-scoped and unscoped patterns
  differ.
- Two trigger ids give a stale result.
- One line per process still lets a line come before or after the trigger
  that waits for it.
- KILL_DELAY = 2 makes `_end` poll more than once.

The container runs use two bag variables and two IPSet variables, so that
every binary method has an argument that is another variable, itself, or
a fresh iterable:
- keys {1, 2} and counters kept at most 2 (`BagBound`): two keys give the
  three cases of `group_iterator` (key only in a, only in b, in both) and
  both orders; counters 1 and 2 make `-=` delete or keep a key and `/`
  round;
- values {0, 2} for `bag[k] = v`, factors {0, 2} for `*=`, bounds
  {None, 1, 2} for `intersect` and `constrain_*` (both ends, open and
  closed, and the ValueError of no bound);
- iterables `<<1>>`, `<<1, 2>>`, `<<2, 2>>` for `add`/`remove` (a repeated
  key, and `remove` failing half way), and two pair lists for `update`
  and `Bag(pairs)`, one with a 0 counter and one with a key set twice;
- `InvCap = 2`. Under `BagBound` no counter exceeds 2, so `inversion`'s
  cap is never applied: the capping branch is not exercised; `Fuel = 8`, more than
  the 2 + 2 + 1 steps `group_iterator` needs on two keys;
- addresses {1, 2}, one wildcard {2} and one list `<<1, 2>>`: enough for
  a set, its complement and overlap in each binary method;
- for `Site`, two data root directories of which one has a `silk.conf`:
  queries before and after a configuration can be loaded. The
  configuration has a sensor in one class and a sensor in two, a default
  class whose default types are fewer than its types, and two flowtypes
  with the same type name in different classes, so that every reverse
  relation of `RefAnswer` can differ from a wrong map. Each query takes
  every name of its kind and one unknown name (`NoSuch`);
- for `FGlob`, each argument takes None and one or two values, empty or
  of the types that pass or fail the string check; rwfglob prints up to 2 names and exits with 0 or 1, and
  `Popen` may fail with ENOENT or EACCES.
- A bound of 0 for `intersect` and `constrain_*` is left out. The code
  tests bounds by truth value, so it reads 0 as absent, while `BagSpec`
  reads it as a bound: with 0 among the bounds `BagRefinement` fails.

### Fairness

Fairness is assumed only where the code justifies it:
- Each supervisor is a process of its own in a select() loop with a
  1-second timeout, so `SupNext(d)` is weakly fair.
- The test process, blocked in `load()`, is weakly fair in receiving.
- Time passes, so `Tick` is weakly fair.

In `Runner`, the runner process is weakly fair as a whole (`RunnerStep`):
its select() returns at least once a second. The daemon has no fairness.
`Clock` has no fairness either: the one second each `Timeout` adds is
enough for the deadlines, and so for `MCRunnerEnds`.
The sender threads have none either: nothing in the code makes the
scheduler run them before the runner stops them, and no liveness property
is stated of them.

`Bag`, `IPSet`, `Site` and `FGlob` have no fairness and no liveness
property either: the program may stop calling methods, or stop iterating,
at any point, so the containers runs do not check for deadlock. Whether `group_iterator`
ends is checked on the generator itself (`GroupIterComplete`).

`PluginFields` has no fairness and no liveness property. A tool stops
calling a field once its records are read, so the run does not check for
deadlock.

The daemon is not assumed to write, exit or obey SIGTERM. It dies only on
SIGKILL. The test is not assumed to call anything. Under this fairness,
`CallsReturn` says that every blocking call returns whatever the daemon
does.

## Not modelled, and the plan

Modules still to come, in order:
1. `FramedChannel`: the byte stream of `dump`/`load`, with its short and
   coalesced reads (hazard at 477). Refines the whole-message channel used
   here.
2. `TriggerSpec`: an abstract trigger service (a call returns ok iff a
   matching line exists before the deadline), with `Harness` shown to
   implement it under the whole-line discipline.

Not planned:
- The C daemons are the environment, modelled only as a black box.
- The `System` orchestration, certificates and test scenarios are sequences
  of the calls modelled here.
- The rest of the PySiLK bindings (records, files, prefix maps, TCP
  flags, the `netsa_silk` aliases) delegate to C, which is not in this
  repository, with little Python logic of their own.
- Of `site.py`: `sensor_description` (a dict lookup like
  `sensor_classes`), the `repository_*iter` wrappers (generators over
  `SiteRepoIter`) and the C `RepoIter` walk.
- `PduSender` only starts the Perl script `make-data.pl` and SIGTERMs it
  at `stop()`; what it sends is outside the Python code.
- Of the senders: the sleep between UDP packets, and a set longer than
  the rest of its message (line 301), which `USet` handles as the code
  does but which the inputs, like the IPFIX files the tests replay, do
  not contain.
- Of `fglob.py`: the zombie rwfglob left unreaped, which the model cannot
  tell apart from a reaped one.
- Of the containers:
  - `Bag.load`/`save` are file I/O;
  - the key types (IPv4/IPv6 addresses, the `Bag.ipset()` and
    `bag[ipset]` conversions) are left out, so keys are integers and
    the two classes are not composed through them;
  - operator aliases (`__and__`, `__or__`, ...) call the methods modelled;
  - 64-bit counter overflow is C behaviour;
  - the C iterators' behaviour under mutation during iteration is
    unspecified.
