# Verification of mdelay

mdelay measures the network delay between two hosts, in nanoseconds, from the
timestamps that the NICs take of packets (`SO_TIMESTAMPING`).  This directory
holds TLA+ models of its programs, the TLC runs that check them on small
instances, and TLAPS proofs for every instance.  Paths such as `util.c:129` are
relative to the repository; a definition carries the name of the function or
variable that it models wherever TLA+ allows it, and `PROJECT.json` maps every
one to its lines.

1. [The system](#1-the-system)
2. [What is hard, and what should hold](#2-what-is-hard-and-what-should-hold)
3. [The modules](#3-the-modules)
4. [The runs](#4-the-runs)
5. [Where the code disagrees with itself](#5-where-the-code-disagrees-with-itself)
6. [The proofs](#6-the-proofs)
7. [What is not modelled](#7-what-is-not-modelled)
8. [Plan](#8-plan)
9. [How to run it](#9-how-to-run-it)

## 1. The system

| component | source | state | operations | status |
|---|---|---|---|---|
| timestamped send | `util.c:44-168`, `mdelayhdr.h` | locals of the call; the socket's error queue | `send_udp_packets_timestamp`, `retrieve_timestamp` | modelled, proved about |
| master | `master.c` | `p2pdelay_measurements`, `total_measurements`, `echo`, result file | `main`, `do_recv`, `send_packets` (a thread) | modelled, proved about |
| slave | `slave.c` | the same, `got`, `remote_ip`/`remote_port` | `main`, `do_recv` | modelled, proved about |
| TCP mode (the default) | branches of `master.c`, `slave.c` | two byte streams, resets | `connect`, `accept`, `recvmsg` on a stream | modelled, proved about |
| result files | `util.c:170-177` | two files | `store_results_to_file` | modelled |
| echo sender | `ref/sender.c` | `latency_numbers`, `i` of either thread, previous echo | `main`, `send_packets` (a thread) | modelled, proved about |
| echo receiver | `ref/rx_timestamping.c` | three latency tables, `total_received`, `pkt_num` | `main`, `do_recv`, `print_time`, `broadcast` | modelled over UDP, proved about |
| clock check | `tool/check_clock.c` | readings of three clocks; requests and answers on ptp4l's management socket | `check_local_clock`, `check_ptp_offset`, `get_*` | modelled, proved about |
| TAI offset | `tool/set_tai_offset.c` | `struct timex`, the kernel's offset | `main` | modelled |
| byte order | `util.c:7-23` | none | `hton64`, `ntoh64` | modelled, proved about |
| plots, debug server | `summarize.py`, `bar_plot.py`, `tool/debug_server.c` | none of their own | plots; one loop of I/O | not modelled |

**How they interact.**  The user starts a slave and then a master.  The
master's thread `send_packets` makes one call of `send_udp_packets_timestamp`
for all `-n` sequence numbers.  For each number this routine sends a
`DELAY_REQ`, waits until the kernel has looped the packet's transmit stamps to
the error queue of the socket, and sends a `DELAY_REQ_FOLLOW_UP` that carries
the NIC's stamp.  The slave files the reception stamp of the first packet and
the transmission stamp in the second in row `pktseq` of its table; on the
follow-up it counts a measurement and answers, with a call of the same routine
for one sequence number, `DELAY_RESP` and `DELAY_RESP_FOLLOW_UP`.  The master's
main thread files those in the same way.  Either program ends when it has
counted its `-n`, and writes its rows to a file.

The two threads of the master share the socket and the process: `exit(1)` in
one ends both.  The error queue is filled by the kernel, asynchronously, and
read by the sending routine alone.

The tools in `ref/` are the older, one-way variant: a sender broadcasts frames
from a thread; every receiver files three latencies of each frame and
broadcasts its payload back to another port, where the sender's main thread
files the echo's age.

`check_clock` is run before a measurement: it compares three local clocks, and asks
ptp4l over a datagram socket whether its port is in a sane state and near its
master.  `set_tai_offset` is to prepare the kernel's TAI clock for that.

## 2. What is hard, and what should hold

No program has a timeout, a retry or an identification of the peer's run: all of
what follows rests on counting and on sequence numbers.  `hazards` in
`PROJECT.json` lists each place with the properties that cover it.

* **Stamps and packets are matched by counting reads.**  Nothing in a message of
  the error queue is compared with the packet it belongs to: one read too few,
  or one stamp too few, and every later follow-up carries another packet's time.
  *Between two packets the error queue is empty and stays so* (`FreshErrqueue`);
  *every follow-up carries the stamp of the packet just before it*
  (`FollowUpCarriesOwnStamp`); the routine *implements* "a packet, then its
  follow-up" (`ImplementsPairedSend`); *a call returns* (`CallReturns`).
* **Loss, reordering, duplication.**  The two halves of a measurement arrive
  separately, into a row that the sequence number alone selects.  *Whatever
  row has both stamps has them of the same datagram* (`SamplesMatched`); *what a
  master has filed in row k comes from a slave that had counted k before*
  (`Provenance`); *each number is counted at most once on either side, and by
  the slave first* (`ImplementsDelayMeasurement`); *what is stored on a reliable
  network are delays, one per packet* (`StoredDelaysAreReal`).
* **Tables indexed by what the network says.**  `rows[pktseq]` is written without
  a bound.  *No table is accessed out of bounds, if the tables have as many rows
  as the master has numbers* (`InBounds`); what happens otherwise is a finding.
* **A byte stream read as messages.**  Over TCP, which is the default, the slave
  writes messages of 890 bytes and both ends read up to 900 at a time, take one message
  from what they have read and drop the rest.  *The slave's reads stay on the master's
  messages unless one was cut* (`RequestsStayAligned`); *what a master stores is real, and
  what a slave stores never too short, although the other end may go in the middle of a
  measurement, unless `recvmsg` failed* (`StoredUnlessReset`); *when one end has ended, the other does not wait for it for
  ever* (`EndsWithPeer`), *and neither waits for what the other will not send*
  (`CompletesUnlessOneFails`).  That the master's reads do not stay on the slave's
  messages is a finding.
* **One stamp for many segments.**  `recvmsg` reports the stamp of the last segment it
  took bytes from, and the kernel may have merged that one with segments behind it.  A
  slave that reads late stores a later message's time of reception: a finding; it
  keeps its place in the stream and its rows apart (`StoredUnlessReset`).
* **Two masters at once.**  The slave keeps the address of the first follow-up it
  counts: *only one address ever gets replies* (`OneClient`), and whoever gets them,
  they are answers (`Provenance`).
* **Restarts.**  The slave keeps its table, its count and the first master's
  address until it has counted its own `-n`; a second run of the master, after
  the first ended or crashed, meets the state the first has left
  (`Provenance`, `InBounds`, on the run `mdelay_restart`).
* **Termination.**  A lost datagram, a lost stamp, a crashed peer each leave a
  thread blocked for ever.  *With a reliable network both programs take as many
  measurements as they were asked for, and end* (`StopsAfterThisMany`), *and so
  do the echo tools* (`BothStop`).
* **Uninitialised reads and order of evaluation.**  `echo` (`master.c:187`) and
  `got` (`slave.c:182`) are read before their first assignment;
  `rx_timestamping.c:304-315` increments an index in the middle of three stores
  (`StoredAreLatencies`, a finding); from the second row on *every row is full and
  in the order of sending, whatever is lost* (`LatenciesInOrder`).
* **Many echoes.**  Every receiver on the segment echoes every frame, and the sender
  gives up at an echo that repeats the one before.  *With one receiver a file has one
  latency of each frame* (`OneLatencyPerFrame`), *and what is lost or overtaken never
  makes the sender give up* (`RepeatsAreDuplicates`).
* **A check that is interrupted, and answers that come late.**  The three clocks are
  read one after the other, and the program may be held up between two readings:
  *a PHC too far from TAI passes only by the time that passed*
  (`PassedClocksAreClose`), *an exact one is reported only if the readings took 50
  microseconds or more* (`ExactClocksPass`).  After a timeout the request is repeated
  on the same socket, and nothing matches an answer with a request: *no port that is
  not sane passes* (`PassedPortIsSane`), although `port_state` may be uninitialised;
  *a slave far from its master passes only in the one way that is a finding*
  (`PassedOffsetIsSmall`); *a sound port passes unless something went wrong*
  (`SoundPortPasses`); *the check ends* (`CheckEnds`).

## 3. The modules

```
TimestampedSend   the sending routine            PairedSend        what it promises
   |        \                                        ^
   |     SendService  its callers, abstractly  ------+  (refinement)
   |
 Mdelay           master, slave, network         DelayMeasurement  what they promise
   |   |                                             ^
   |   +---------------------------------------------+  (refinement)
   |
 MdelayStream     master and slave over TCP

 LocalClocks  <-  ClockCheck      tool/check_clock.c
 EchoLatency      the tools in ref/
 TaiOffset        tool/set_tai_offset.c
 ByteOrder        hton64, ntoh64

 TimestampedSendProofs  <-  SendServiceProofs,  MdelayProofs
 QueueFacts             <-  MdelayProofs,  EchoLatencyProofs
 MdelayProofs, MdelayStream  <-  OrderProofs
 ClockCheckProofs,  ByteOrder (with its own proofs)
 MCSendService, MCMdelay, MCMdelayStream, MCEchoLatency, MCClockCheck    constants for TLC
```

### Times

No property needs the value of an instant; all of them need to know *which
datagram a stamp was taken from*.  A timestamp is therefore the identity
`<<p, k>>` of the k-th datagram that p has sent, or `Zero` for a field that still
holds what `memset` or `calloc` put there.  `recv_tt - sent_tt` is a delay
exactly when both fields hold the same identity.  A message of the error queue
has a kind, `"sw"` or `"hw"`; `ts[2]` of a `"sw"` message is zero.

### TimestampedSend

`frame[p]` is the call that process p is in: the arguments, `i`, and a program
point.  One iteration of the loop is five actions, because the kernel may act
between any two of them:

| action | code |
|---|---|
| `Call` | entry, and the first test of the `for` |
| `SendPacket` | `sendto` of the request or response |
| `ReadKernelStamp` | the first `do { recvmsg } while (EAGAIN)`; the result is only printed |
| `SendFollowUp` | the second one, and the follow-up built from `ts[2]` |
| `DrainKernelStamp`, `EndIteration` | the two reads "which are not used", then the next test |
| `SendError` | `TRY(sendto(...))` fails: `exit(1)` |
| `LoopStamp` | the kernel: one owed stamp arrives in the error queue |

The kernel and NIC owe stamps from the moment of `sendto`; which, and in which
order, is a choice from `StampOrders`.  The busy waiting is an action that is
not enabled while the queue is empty.

`SendService` composes it with callers that call any number of times
(`Invoke`), and with a network that takes nothing away, so that `wire[p]` is a
log.  `PairedSend` is the promise of the comment at `util.c:69`: for each number a
packet and at once its follow-up, with the packet's own stamp.  Error queue,
kernel and reads do not exist there.  In the refinement mapping `jobBar` the
abstract pair is complete once the follow-up is on the wire; the two consuming
reads are stuttering steps.

### Mdelay

`Masters` and `Slaves` are *runs* of the programs; `host[p]` is the address that the
run binds, chosen from `Hosts` at the start, and a restart is another run at the same
one.  `frame[p]` is the master's sender thread, or the slave's call
from `do_recv`.  `main[p]` is the main thread:

`down` → `recv` → (`reply` → `recv`)* → `store` → `done`, or `failed`, or
`undefined`.

| action | code |
|---|---|
| `StartMaster`, `StartSlave` | `main` up to the loop; the master's also creates the thread, which makes its one `Call` |
| `RecvResp`, `RecvRespFollowUp` | the master's `do_recv`, one case each, and the loop's test |
| `RecvReq`, `RecvReqFollowUp` | the slave's `do_recv`: the address it replies to, the case, and either the test or the reply's `Call` |
| `RecvUnknown` | the `default` of either `switch`: `exit(1)` |
| `EndReply` | the slave's routine has returned: the loop's test |
| `Store` | `pthread_join` (enabled when the thread has ended), `store_results_to_file` |
| `Thread`, `Kernel`, `ThreadFails` | the steps of `TimestampedSend`, in a live process |
| `Unread`, `Lose`, `Duplicate`, `Swap`, `Crash` | the network; the end of a process at any point |

Choices worth knowing:

* `LoopTest` evaluates `echo > 0` in the master and `got > 0` in the slave before
  their first assignment; until then (`~assigned[p]`) the value is any of
  `Indeterminate`.  A build with gcc at the repository's settings folds it to TRUE;
  `mdelay_lossy` checks both.
* `"undefined"` is an access outside of a table.  Nothing is modelled after it,
  and no property but `InBounds` and the liveness properties speaks of it.
* A packet without a timestamp makes `retrieve_timestamp` return NULL, which is
  read all the same (`slave.c:150`, `master.c:158`): `"failed"`.
* `wire[p]` is one queue per sending process.  Datagrams of different senders
  are unordered with respect to each other; those of one sender arrive in order
  unless `Swap` acts.
* A datagram to an address at which no process reads is dropped (`Unread`); one
  that arrives while the slave is in `reply` waits in the socket's buffer.

`DelayMeasurement` is what the pair promises without duplication: a sequence
number is counted at most once on each side, by the slave before the master; a
side *completes* only when it has counted all of them.  In the mapping,
`counted` is the set of rows with a transmission stamp; a program that ends with
a smaller count than it was asked for (the indeterminate read) has `"ended"`.

### MdelayStream

The threads, the sending routine and the handling of a message are the actions of
`Mdelay`; what is replaced is the network, and how the two programs start
(`Listen`, `Connect`: `accept` before `connect`, and both in their loops at once).
A stream is three counts of bytes: sent (the datagrams counted by `TimestampedSend`
times the length of a message), `arrived`, and `got` by the reader.  `wire[p]` holds
the messages that have not begun to be read, so that the reader is `Aligned` when
`got` is the first byte of the next.

| action | code |
|---|---|
| `ReadMessage` | `recvmsg` at the first byte of a message: the handler of `Mdelay` |
| `ReadSkewed` | `recvmsg` anywhere else: no known message type there, `exit(1)` |
| `ReadEof` | `recvmsg` returns 0: out of the loop |
| `ReadErrorAnything`, `ReadErrorAgain` | `recvmsg` returns -1, which is not tested: the buffer is parsed, with what it holds from before or anything else |
| `Killed` | `sendto` after a reset: `exit(1)`, or SIGPIPE |
| `Deliver`, `Cut`, `Reset` | TCP |

A segment's stamp is named after the message that it holds the end, or the last part,
of, and `SegmentStamps` are those that a read may come with: from the one that its last
byte arrived with to the last one in the receive buffer, since the kernel merges segments
there and keeps the last stamp.  Receive offload, which merges them below TCP, is
taken to be off.

`Deliver` ends at the end of a message.  A segment may end within one (`Cut`), which is
counted as a fault: then the reader gets one part and finds itself in the padding.

### LocalClocks and ClockCheck

`LocalClocks` is `check_local_clock`: three readings with any delay from `Delays` before
each, then the four tests.  Instants are microseconds; the PHC is `phcError` away from
TAI.  `ClockCheck` adds `check_ptp_offset` and `main`, which combines the two with `|`,
so that the compiler chooses which is called first; one call is not interleaved
with the other.

ptp4l is external.  `answers` are the values of the message field that distinguishes
the two profiles (`gptp_profile`) for which it answers: none, one, or both.  It
may take any time for each request (`Ptp4l`), longer than the second after which
`Timeout` repeats the first one.  Its state does not change during the check.
An answer may be an error, shorter than what the program wants
(`ReadShortAnswer`): "Incomplete response received", and the request is treated as one
that failed.  `buf` is the kind of content that the receive buffer holds, which is zeros
at first, is overwritten by a short answer, and stays what it was when `read` fails
(`ReadAnswerFails`: -1 compares as a large number); the kinds have their consequences in
`IsSlave` and `MasterOffset`.

### TaiOffset and ByteOrder

`TaiOffset` is two calls of `adjtimex` and what the kernel does with the structure.
In `ByteOrder` a number is the function from the places of its bytes to the bytes, and
`Memory` its representation on a machine of either order; shifts, masks and
`htonl` become what they do to bytes.

### EchoLatency

A frame and its echo are the frame's number.  `main` and `sent` are the sender's
two threads; that the thread runs from `created`, before the socket for echoes
is bound, is the code's order (`ref/sender.c:208`).  `RecvFrame` is one `do_recv`
of a receiver: file, echo, count.  `RowOf` is the order of `print_time`'s
stores.  malloc may leave a spare word behind a table (`SpareWord`); a write
there is harmless, any other write behind a table is `"undefined"`.  What has
been printed reaches `end_to_end_latency.txt` with `fclose` or `exit`.

## 4. The runs

`CHECK_DEADLOCK FALSE` is in every configuration because these systems stop:
programs end, and callers stop at a bound.  Where stopping would be wrong, a
liveness property says so.

| run | question | instance |
|---|---|---|
| `send_service` | Does the routine match stamps with packets, implement `PairedSend`, and return? | one caller of N=2, one of N=1 with either number, 4 datagrams each, `sendto` may fail |
| `mdelay_reliable` | Do both programs take `-n` measurements, all real, and stop? | N=3, table of 4 rows, no fault, slave first |
| `mdelay_lossy` | Do samples pair stamps of one datagram; is `DelayMeasurement` implemented? | N=2, two faults of loss or overtaking, stamps `hw`/`sw`/`none`, `sendto` may fail, either start order, right or wrong address of the slave, both values of the indeterminate read |
| `mdelay_restart` | Are tables safe, and answers answers to one client, across runs? | two runs of the master against one slave: at one address with one fault of any of the four kinds, or at two addresses without faults |
| `mdelay_stream` | Over TCP, what is stored, and does any end wait for ever? | N=2, a message cut or a process killed at any point, both values of the indeterminate read, either start order |
| `clock_check` | What does the check pass, what does it reject, and does it end? | see below |
| `echo_latency` | What do the two result files hold; do both programs stop? | 3 frames, 1 receiver, one fault *of each* of three kinds, timestamps missing, errors, spare word or not |

Five more runs end in a violation; section 5 lists them.

**Bounds.**  `MaxSent` (datagrams of a caller in `SendService`) and `MaxFaults`
are the only bounds on behaviour; everything else is a parameter of the code.

* Two iterations in one call and two calls in a row are what `FreshErrqueue` is
  about: a stamp left over is seen by the next iteration or the next call.
  Four datagrams hold both.
* N=2 has the request of one number overtaken by, lost before, or duplicated into
  the other; a third number adds nothing that relates two packets.
  N=3 in the run about termination has a first, an inner and a last iteration.
* Two faults make the pairs that matter: a packet and its follow-up lost, a loss
  and an overtaking.  One fault of any kind and a second run of the master, at the
  same address or another, are already 1.4·10⁶ states.
* `SlaveN = 3 > N = 2` in `mdelay_restart` lets the slave outlive the first master.
* One process at a time has an address.  `master.c:83` sets `SO_REUSEADDR`, with which
  a second *live* master could take over the first one's port; this is not
  modelled.
* `FaultsOnOneHost` is a state constraint of `mdelay_restart`: it cuts off what faults do
  to two masters at two addresses, for which `InBounds`, `Provenance` and `OneClient`
  are theorems.
* Symmetry is used in `mdelay_restart` only: the two masters have the same options,
  the set of assignments of hosts is symmetric in them, and that run has no liveness
  property.
* In `mdelay_stream` a message is cut at byte 548: where a full segment of 1448 bytes ends in
  the second of two messages of 900.  `StreamAssumption` allows 40 to 885: a cut within the header, or so close to the
  end that what is left is read together with the next header, would need the bytes
  of the padding.  One fault is enough for a cut to skew a reader or a crash to
  reset a connection; everything after a skewed read is an exit.
* In `clock_check` the PHC's error is -51, -50, 0, 49 or 50 microseconds and a delay 0, 1
  or 50: on, and on both sides of, the limits of the two comparisons, which differ
  (`>=` and `>`).  The kernel's TAI offset is right (37) or not, the port in a state
  that is not sane, that is, and that asks a second question; the offset from
  the master is -101 or 100, on both sides of the limit with either sign.  There is no
  bound on behaviour: the program makes at most three requests.

The theorems of section 6 remove these bounds for all properties but the liveness
properties: every safety property and both refinements are theorems.

**Fairness.**  `FairSpec` assumes weak fairness of each thread of a running
program (no thread waits for anything but `recvmsg`, `pthread_join` and the error
queue, and the scheduler is fair), of the kernel looping what it owes, and of the
network delivering or dropping what is on its way.  Nobody has to start a
program, a fault need never happen, and no fairness is assumed of failing
calls.  The liveness properties are conditional on what the code needs:
`StopsAfterThisMany` is checked without faults, because after a loss neither
program ends; `BothStop` lists in its conclusion the faults and failures that
excuse it.  `StreamFairSpec` has one assumption for all steps of the processes
and of TCP together: none of them can be repeated for ever, so that each
that stays possible is taken in the end.  Of `clock_check` only the program is assumed
to run, and `poll` to return after its second; ptp4l need never answer.

**Mutants.**  `PROJECT.json` has for each property a variant of a definition
with a plausible bug (a missing consuming read, `<=` in a loop's test, rows in the order
of arrival, a reply address never recorded...) which violates it.  They stand
before the definitions they vary, marked "Faulty:".

## 5. Where the code disagrees with itself

Each of these runs checks one sentence of the repository and shows a behaviour of
the code that contradicts it.

| run | sentence | behaviour |
|---|---|---|
| `mdelay_stream_merge` | "Stop after this many" (`master.c:22`) | over TCP and without any fault, a packet and its follow-up of the slave arrive before the master reads; one read takes the first message and ten bytes of the second, the next finds no message type, and the master exits with nothing stored |
| `clock_late` | "Clocks on this system are synchronized :)" (`tool/check_clock.c:493`) | ptp4l answers both profiles, and the first answer comes after the timeout: the answer to the second port request is then read as the answer to the question for the offset, of which `get_master_offset` makes 0 |
| `tai_offset` | "Replace <new_offset> with the desired TAI offset" (`tool/set_tai_offset.c:14`) | the program ends well and the kernel's offset is what it was: `adjtimex` takes it from another field, and only if `modes`, which is not initialised, says so; `README.md:9` has noticed that the offset does not change |
| `stream_stamps` | "master->slave delay" (`slave.c:155`), from a "REQ and REQ_FOLLOW_UP pair" (`slave.c:153`) | over TCP and without any fault, the follow-up has arrived, and the kernel has merged it with the request, before the slave reads the request: the stamp stored for the request is the follow-up's |
| `echo_rows` | "all latency numbers are in nanoseconds" (`ref/rx_timestamping.c:314`) | row 0 of two of three tables is never written, and what malloc left is printed to `latency.txt` |

Five more disagreements are visible in the code without a run.  "This function
actually sent 2*N packets" (`util.c:69`) holds only if the kernel loops both stamps of
each: otherwise the routine stays in its busy wait.  "REQ and REQ_FOLLOW_UP pair is seen
as one measurement" (`slave.c:153`), but the follow-up alone is counted and answered
when the request was lost.  "0=forever" (`master.c:22`), but with `-n 0` the sending
loop has no iteration.  And the master's table has 100 rows whatever `-n` is
(`master.c:185`), the slave's as many as its own `-n`: a larger sequence number is
written outside of it, which is why `InBounds` has the precondition `RowsSuffice`.
The rows of which `slave.c:155` prints "master->slave delay" are stored in
`slave_to_master_latency.txt` (`slave.c:185`), and the master's (`master.c:163`,
`master.c:189`) the other way round.

## 6. The proofs

Every invariant, action property and refinement that a passing run checks is also a
theorem.  `TimestampedSendProofs` and `QueueFacts` hold lemmas, about the sending
routine and about what losses, duplication and overtaking make of a queue; the other
modules hold the theorems.

| theorem | states | assumes |
|---|---|---|
| `SendServiceProofs!TypeCorrect` | `Spec => []TypeOK` | |
| `ErrqueueIsFresh` | `Spec => []FreshErrqueue` | `StampOrders = {SwThenHw}` |
| `FollowUpIsOwn` | `Spec => []FollowUpCarriesOwnStamp` | `StampOrders = {SwThenHw}` |
| `RoutineImplementsPairedSend` | `Spec => ImplementsPairedSend` | `StampOrders = {SwThenHw}` |
| `MdelayProofs!TypeCorrect` | `Spec => []TypeOK` | |
| `TablesSuffice` | `Spec => []InBounds` | `RowsSuffice`: `N <= SlaveN /\ N <= MasterRows` |
| `RowsAreAnswers` | `Spec => []Provenance` | `StampOrders = {SwThenHw}` |
| `AnswersOneClient` | `Spec => []OneClient` | |
| `SamplesAreMatched` | `Spec => []SamplesMatched` | `StampOrders = {SwThenHw}`, `OneMaster`, `NoDuplicates` |
| `MeasurementRefined` | `Spec => ImplementsDelayMeasurement` | `StampOrders = {SwThenHw}`, `OnePair`, `NoDuplicates` |
| `OrderProofs!StoredAreReal` | `Spec => []StoredDelaysAreReal` | `InSequence` |
| `StreamTypes` | `StreamSpec => []StreamTypeOK` | |
| `StoredUnlessResetIsReal` | `StreamSpec => []StoredUnlessReset` | `StampOrders = {SwThenHw}`, no stamp of kind `"sw"` received |
| `RequestsAligned` | `StreamSpec => []RequestsStayAligned` | |
| `ClockCheckProofs!ClockCheckTypes` | `Spec => []TypeOK` | |
| `PassedAreClose` | `Spec => []PassedClocksAreClose` | |
| `ExactPass` | `Spec => []ExactClocksPass` | |
| `PassedIsSane` | `Spec => []PassedPortIsSane` | |
| `PassedIsNear` | `Spec => []PassedOffsetIsSmall` | |
| `SoundPasses` | `Spec => []SoundPortPasses` | |
| `EchoLatencyProofs!EchoTypes` | `Spec => []TypeOK` | |
| `LatenciesOrdered` | `Spec => []LatenciesInOrder` | |
| `OnePerFrame` | `Spec => []OneLatencyPerFrame` | |
| `NoRepeatOfOne` | `Spec => []RepeatsAreDuplicates` | |
| `ByteOrder!NetworkOrder` | `hton64` puts the most significant byte first in memory | |
| `StampsArrive` | `ntoh64` of the same bytes in memory is the same number, on a machine of either order | |

They hold for any number of processes, runs, receivers, measurements, calls and
faults, any clocks and delays, and all of the other constants that meet the modules'
assumptions.  `Spec` in `MdelayProofs` and `OrderProofs` is `Mdelay!Spec`, the programs
over UDP; `StreamSpec` is the programs over TCP.

**The assumptions, and why the code needs them.**

* `StampOrders = {SwThenHw}`: each datagram's software stamp is looped first, then the
  NIC's, and both are.  The code relies on this (it takes `ts[2]` of the *second*
  message).
* Neither half of `RowsSuffice` can be dropped: a master with fewer rows than numbers
  leaves its table when the reply to the last one arrives, a slave as soon as an early
  packet is lost.
* `OneMaster`, one run of the master for any number of slaves: a slave files by the
  sequence number alone, and a second run sends the same numbers again, so that a
  row may end with one run's reception and the other's transmission stamp.
  `NoDuplicates`: a duplicated follow-up is counted, and answered, twice, and the second
  answer may meet the first one's stamps in the master's row.
* `OnePair(m, s)`, one run of each with the same `-n`: `DelayMeasurement` speaks of two
  sides and one number of measurements.  It says nothing of restarts, does not promise
  that both sides complete (the slave may count a number that the master never does), and
  fixes no order of the numbers.
* `InSequence`: one run of each program, the slave started first and at the address
  the master is given, received packets with the NIC's stamp or with none, and of the
  faults only crashes.  If datagrams are lost, a row may have one half only and be
  stored as a difference with zero; with a stamp of kind `"sw"` `ts[2]` is zero.
  Over TCP losses and order need no assumption, and `accept` makes the pairs, so that
  `StoredUnlessResetIsReal` is about any number of runs.

**Why strengthening is needed.**

* *FreshErrqueue* speaks of two program points and says nothing of the others.
  The inductive `QueueInv(p)` gives the contents of `errq[p] \o owed[p]`
  at *each* point of the call: both stamps of the last datagram after `sendto`, the
  NIC's after the first read, and so on, and none at `send` and in no call.
* *FollowUpCarriesOwnStamp* needs in addition that, between packet and
  follow-up, the last datagram on the wire is the packet of the current iteration
  (`WireInv(p)`); with `QueueInv` the stamp read is then the packet's.
* *ImplementsPairedSend* maps each point of the routine to a job of `PairedSend`: a pair is
  complete when its follow-up is sent, and the drains and the loop test are stutters.
  `QueueInv` and `WireInv` give that the follow-up of the step carries the stamp of the
  packet; `InLoop`, that a call under way has an iteration to finish, that it returns when
  nothing is left to send and not before.
* *TypeCorrect* of `Mdelay` needs `RemoteKnown`: a slave that has counted has an
  address.  Without it a reply could go to `Zero`.
* *InBounds* needs `BoundsInv`: every sequence number on the wire is below N, every
  call in progress stays below N, and a program still in its loop has counted at most
  its limit.  The last part bounds what `Store` reads.
* *Provenance* needs `ProvenanceInv`: the same of what is still on the wire and in
  calls (a slave only answers, and only answers what it has counted), that a
  transmit stamp in a follow-up is the sender's own (here `QueueInv` returns), and
  that no stamp is `Zero`, so that "counted" persists.
* *OneClient* compares two tables, and what relates them is the slave: `ClientInv` says
  that whatever a slave has on the wire, in a call, or in a master's row goes to, or
  was taken at, the address in `remote[s]`, and that this slave has counted
  (`Serves`); from then on `remote[s]` does not change.
* *SamplesMatched* compares two stamps in a row, which come with two messages.  A stamp
  of p's number k can be on the wire, in a row, or yet to be read by the sending routine:
  `Evidence(p, k, x)`.  `MatchInv` says that all evidence of a number is of one
  datagram, that a number about to be sent has none (`NewNumbers`), and that the
  follow-up of a number that is counted is on its way no more (`OneFollowUp`).  The
  last is what keeps a slave from sending a number twice; it needs that two slaves do
  not count the same follow-up (`CountedApart`).
* *ImplementsDelayMeasurement* says that a count and the rows counted go together, while
  the code increments a counter and writes a row: `TallyInv` says that the counter
  is the number of rows that have a transmission stamp, and that these are below N.
  Each step then adds a row to one side's `counted`, ends a side, or is a stutter.
* *StoredDelaysAreReal* is about the first `total` rows, which needs that numbers are
  counted in order.  `OrderInv` gives the n-th datagram of a program its number and its
  type (`Numbered`), ties the calls to the count of what was sent (`InTurn`,
  `AnswersInTurn`), and says of a receiver that it has counted exactly what the other has
  sent and has left the queue (`Follows`).
* *StreamTypeOK* bounds what is read by what has arrived; a process that reads must
  therefore have the peer whose bytes it reads.  `StreamTypeInv` says who that is, that
  the relation is symmetric, and that a program without one has done nothing.
* *StoredUnlessReset* holds for the same reason as over UDP, but only of a process no
  `recvmsg` of which has failed, and the other end may have failed: `StreamOrderInv`
  therefore says of each process what holds of it alone (`Numbered`, `QueueInv`), and
  under `Sound(p)` what relates it with its peer (`InStep`).  The stamps of reception are
  only bounded below (`Near`, `UpTo`), and exactly the message's in a master (`Heeds`): it
  gets another's only with bytes of another, and has lost its place then.
* *RequestsStayAligned* needs `CutsInv`, about bytes modulo 900: what has arrived ends with
  a message or where one was cut; what has been read ends where a message was begun, or
  at the cut in it, or else the reader has ended.
* *PassedClocksAreClose* and *ExactClocksPass* speak of the end; the invariant relates
  what has been read to the clocks and the time, reading by reading.
* *PassedPortIsSane* needs that `sane`, once set to TRUE, was computed from a port data
  set, and that a success of `check_ptp_offset` has it set.
* *PassedOffsetIsSmall* and *SoundPortPasses* depend on which answers may still be on their
  way when a request is sent, which no variable of the program says.  `PtpInv` does, for
  each program point: as long as no answer was mistaken for another's (`InStep`) at
  most one is owed or in the inbox, and to what is asked for now (`AnswersFit`); as long
  as nothing went wrong the check has given up no profile that ptp4l accepts
  (`NoTrouble`).
* *LatenciesInOrder* speaks of what is stored; `RowsInv` states what the tables hold while
  they are filled, column by column, and that the filled rows fit.  The order needs
  `OrderInv`: frames on their way are in order and newer than what is filed.  It is kept
  by every fault but duplication and overtaking, and these are not taken back
  (`InOrderBefore`).
* *OneLatencyPerFrame* is about a file; `OnceInv` follows a frame to it: with one receiver
  and no duplication (`Solo`) a frame's number is at most once on its way to the receiver,
  on its way back, or filed, and at one of these places only (`OncePlaced`).  That the next echo is none of
  a frame already filed, *RepeatsAreDuplicates*, follows from the same invariant.

**Only model-checked.**  The liveness properties `CallReturns`, `StopsAfterThisMany`,
`EndsWithPeer`, `CompletesUnlessOneFails`, `CheckEnds` and `BothStop`: they rest on
fairness and ENABLED, for which TLAPS has no rule here.  That the assumptions of
`SamplesAreMatched`, `MeasurementRefined` and `StoredAreReal` can be met is what
the runs `mdelay_lossy` and `mdelay_reliable` show, whose constants meet them.

## 7. What is not modelled

* *The receiver's TCP option* (`ref/rx_timestamping.c`): no program of the repository is
  the other end of it.  *Padding* is not modelled byte by byte: `StreamAssumption` keeps
  to cuts behind which a message type cannot be read.
* *ptp4l and the kernel* are external.  ptp4l's state is steady during the check, and it
  answers a request with what was asked, with an error that is too short, or not at all.
  The layout of its messages, and that a longer answer is cut to the buffer, is left out.
  `clock_gettime` is taken to succeed: the program does not test its result, and the clocks
  exist once the PHC has been opened.
* *Receive offload* (GRO, LRO) merges segments below TCP and keeps one stamp, which may be
  an earlier message's; it is taken to be off.
* *Option parsing, interface set-up, ioctl, multicast, logging*: I/O that precedes
  the protocol and keeps no state beyond the constants of the models.
* *A result file that cannot be created* (`util.c:172`): a crash while storing, which
  every property allows.
* *`summarize.py`, `bar_plot.py`*: they read the result files and plot them; nothing states
  what the plots should show.  *`tool/debug_server.c`, `Makefile`*: a loop of
  `recvfrom` and `printf` and the build; no state to reason about.

## 8. Plan

Done, in this order: `TimestampedSend` and its promise, because every number the
system reports is a difference of stamps matched there; `Mdelay` and its promise;
`EchoLatency`; `ClockCheck`; `MdelayStream`; two masters at two addresses;
`ByteOrder` and `TaiOffset`; the theorems of section 6.

Left:

1. Provenance over TCP: `Provenance` and `OneClient` for `StreamSpec`, from the lemmas of
   `MdelayProofs` about the steps that both specifications have.
2. The converse of what is stored: that a program that ends with a full count stores
   one row for each of its peer's packets, as a theorem about `StreamSpec`.
3. `InBounds` over TCP without the slave's half of `RowsSuffice`: where nothing is lost, a
   slave counts in order and leaves its loop in time.
4. Liveness, if a prover with rules for fairness becomes available.

## 9. How to run it

```
tlc -workers 2 -config SendService.cfg    MCSendService.tla
tlc -workers 2 -config MdelayReliable.cfg MCMdelay.tla         # MdelayLossy, MdelayRestart
tlc -workers 2 -config MdelayStream.cfg   MCMdelayStream.tla   # MdelayStreamMerge, MdelayStreamStamps
tlc -workers 2 -config ClockCheck.cfg     MCClockCheck.tla     # ClockLate
tlc -workers 2 -config EchoLatency.cfg    MCEchoLatency.tla    # EchoRows
tlc -workers 2 -config TaiOffset.cfg      TaiOffset.tla
tlapm SendServiceProofs.tla     # MdelayProofs, OrderProofs, ClockCheckProofs,
                                # EchoLatencyProofs, TimestampedSendProofs, QueueFacts, ByteOrder
```
