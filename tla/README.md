# SourceSDDS in TLA+

SourceSDDS receives SDDS packets from a UDP socket and pushes their samples out
of BulkIO ports. This directory models the component's C++ code (`src/cpp`),
model-checks it with TLC and proves theorems about it with TLAPS. Line numbers
refer to `src/cpp` unless another path is given.

## 1. The system

| Part | State | Operations | Talks to |
| --- | --- | --- | --- |
| `SmartPacketBuffer` | deques of empty and full buffers, a mutex and a condition variable for each, a plain bool `m_shuttingDown` | `initialize`, `shutDown`, `pop_empty_buffers`, `push_full_buffers`, `pop_full_buffers`, `recycle_buffers` | shared by the three threads below |
| `SocketReader` | two connections, the interface name, buffer sizes, `m_shuttingDown`, `m_running`, `m_host_addr`; locals of `run`: container of buffers, iovecs | `run` (own thread), `shutDown`, `setConnectionInfo`, `confirmSingleHost`, setters | takes empty buffers, hands over full ones; opens sockets through `socketUtils` |
| `SddsToBulkIOProcessor` | expected sequence number, drop count, TTV, time of the last packet, start of the year, time slips, current and upstream SRI, endianness, three output streams | `run` (own thread), `processPackets`, `setUpstreamSri`, `unsetUpstreamSri`, setters | takes full buffers, recycles them, writes to BulkIO streams |
| `SddsToBulkIOUtils` | none | `mergeUpstreamSRI`, `mergeSddsSRI`, `compareSRI`, `floatingPointCompare`, `getBulkIOTimeStamp` | called by the processor |
| `SourceSDDS_i` | attached stream, override, properties, thread handles | `start`, `stop`, `attach`, `detach`, configuration, status | starts, stops and joins the two threads; called by CORBA |
| `socketUtils` | the descriptors it returns | `multicast_client`, `unicast_client`, closing; servers, `receive`, `transmit`, `poll` (no caller) | called by `setConnectionInfo` |
| `AffinityUtils` | none of its own; the kernel's masks and priorities | affinity and priority of a thread, `/proc/net/udp`, drop counter of an interface | called by `_start`, the setters and the status |
| SDDS packet header (`sddspacket.h`) | the header's bits | getters; setters and time arithmetic (no caller) | called by the processor |
| generated base, `struct_props.h` | the properties, `started` | – | – |
| test tools (`test_utils`, `src/tests`) | packet generators and their sequence numbers | – | used by hand |

What is hard here: three threads around two locks with flags tested outside
them; waits that a shut down has to end; restarts on the same objects; three
kinds of early return in `processPackets` that come back to the same packet; a
16 bit sequence number with gaps of its own; SRI that arrives from a fourth
thread; an override that can change under a running session; calls that fail
half-way; properties that the code itself overwrites with what it has read
back; sockets opened by trial over devices and routes that change.
`PROJECT.json` lists these as hazards, each at its line, with the properties
that cover it or the reason why none does.

What makes each part correct:

* buffer, reader, processor: no packet buffer is shared, lost or freed under a
  user; packets stay in order; nobody sleeps for ever with work to do; a stop
  ends, and nothing of one session shows up in the next;
* connection: at most one socket, the one asked for, joined on the right
  device, and closed with its thread; the status tells the truth about it;
* processor: a BulkIO push holds consecutive packets of one TTV under the SRI
  that is valid for them; losses are counted exactly; no false time slips; time
  stamps of the right year; no packet is looked at for ever;
* control: threads exist exactly while the component is started and has a
  source, receive from that source, and have the sizes, options, CPUs and
  priorities the user was shown or promised.

## 2. Modules

| Module | What it is |
| --- | --- |
| `SmartPacketBuffer` | the fields of the buffer and what each critical section does to them |
| `PacketPipeline` | reader, processor and control thread step by step around the buffer (extends it) |
| `PacketChannel` | abstract specification of the packet path: a FIFO channel |
| `SddsToBulkIOProcessor` | what the processor does with packets, SRI, time and restarts |
| `SocketConnection` | the reader's socket: choice of device, descriptors, sender check, status (extends `ProcNetUdp`) |
| `ProcNetUdp` | the search in `/proc/net/udp` |
| `SourceSDDS` | start, stop, attach, detach, the override and the sizes |
| `ThreadAttributes` | masks and priorities of threads |
| `Component` | the calls with everything else they do: `SourceSDDS` joined with `ThreadAttributes` and the processor's options |
| `MC...` | instances for TLC (symmetry sets, headers, SRI, requests, networks) |
| `..._proofs` | theorems: of `PacketPipeline`, of `PacketPipeline` as a `PacketChannel` (`PacketChannel_proofs`), of `SddsToBulkIOProcessor` (what it pushes; `PacketHistory_proofs`: what it tells of the packets that came; `TimeSlip_proofs`: what it makes of their times), `SocketConnection`, `SourceSDDS` and `Component` |

Definitions whose name says what is wrong with them (`PushFullKeepingQue`,
`NumDroppedForward`, ...) are mutants: each stands before the definition it
is a faulty variant of, is used by nothing, and shows that a property would
notice that fault.

### PacketPipeline

A step is what a thread does between two accesses to shared state. `rpc`, `ppc`
and `cpc` say where the socket reader, the packet processor and the control
thread are. A critical section is one step, with one exception that matters:
`condition_variable::wait` evaluates its predicate and blocks later, so a thread
can be `"deciding"`: it holds the mutex, but a notification does not reach it
yet. The unlocked tests of `m_shuttingDown` at the head of the buffer's
functions are separate steps from what follows under the lock (`PushCheck` and
`Push`, `ReaderRecycleCheck` and `ReaderRecycle`, ...), except in the two pops,
where the test before the lock and the one after the wait have the same effect.

| Actions | Code |
| --- | --- |
| `ReaderBegin`, `PointIovecs`, `ReaderLoop`, `Receive`, `ReceiveNothing`, `ReceiveFails`, `ReaderEnd` | `SocketReader::run` |
| `ReaderPop`, `ReaderSleep` | `pop_empty_buffers` |
| `PushCheck`, `Push`, `PushNotify` | `push_full_buffers` |
| `ProcessorBegin`, `ProcessorLoop`, `Process`, `ProcessorEnd` | `SddsToBulkIOProcessor::run` |
| `ProcessorPop`, `ProcessorSleep` | `pop_full_buffers` |
| `ReaderRecycleCheck`, `ReaderRecycle`, `ProcessorRecycleCheck`, `ProcessorRecycle`, `ProcessorRecycleNotify` | `recycle_buffers` (the processor calls it in three places, told apart by `recycling`) |
| `ShutDownReader` ... `JoinProcessor` | `destroyBuffersAndJoinThreads`, with `SmartPacketBuffer::shutDown` line by line |
| `InitializeBuffers`, `SetupReader`, `SpawnReader`, `SpawnProcessor` | the rest of `_start` |

A buffer is the call of `initialize` that allocated it and a number; its content
is a payload. The iovecs are modelled because the reader refreshes only some of
them and relies on where `pop_empty_buffers` puts new buffers. `errno` is
modelled because the code looks at it alone, and not at the result of
`recvmmsg`. `Process(num)` is `processPackets` seen from outside: it uses up a
prefix of the packets; which prefix is the subject of the next module.

Three constants open or close behaviours: `SocketErrors` (may reads fail, may
`errno` be stale), `StopRacesStart` (may a stop overtake the first lines of a
thread) and `LiveRestart` (may `_start` be called while threads run). The last is
a call `"restart"`: it stands for an `attach` that comes to a started component
while the threads of a since disabled override run (SourceSDDS.cpp:371-374).
`live` remembers that the present pool was allocated by one. Such a session may
find a late push of the one before, because `initialize` clears no full buffers:
`NoStalePackets` and `PoolConserved` except it, and claim all sessions before and
after it.

### PacketChannel

`open` and `inflight`; packets enter at the back, leave at the front, may be
discarded (in order) once the channel is closed, and it opens empty.
`PacketPipeline` maps `inflight` to the processor's container, the full deque
and what the reader has received and not handed over yet, in that order, and
`open` to the time from `initialize` until the buffer shuts down.

### SddsToBulkIOProcessor

The processor looks at one packet at a time, and each early return of
`processPackets` comes back to the packet it stopped at. So the state keeps that
packet; `DiscardInvalid`, `LosePackets`, `ChangeTtv`, `ChangeSri` are the early
returns (and the discard), `Accept`, `MergeUpstream`, `Write` the path of a
packet that is written. The lock of the upstream SRI separates `MergeUpstream`
from what comes before and after. A BulkIO stream (external) is the SRI it was
given last and the packets it aggregates; there are three, for 8, 16 and 32
bits, created together. An aggregated packet carries the rate and mode it is due
to be written under (`DueXdelta`, `DueMode`), so that a property can compare these
with the SRI the *stream* has.

An SRI has keywords, each an id and a value, and an attribute of each sort:
`xunits` stands for those `compareSRI` looks at, `yunits` for those it does not.
`compareSRI` compares the values of keywords and never their ids.

`offers` says what the environment of a behaviour may do: which headers, TTV
flags, time errors, kinds of device, losses and repeats, SRI, options, whether
`detach` comes under an override, how often the year turns and whether the
host's clock is behind. It is chosen in `Init` and never changes, so one run
checks several environments, each rich in one direction, and a theorem holds
for every set of them. `source`, `clock`, `missed`, `pending`, `skipped`,
`overruling` and `idle` describe the sender or record history.

Times are integers (10 ns). A rate is its inverse, the xdelta; a header without
a frequency has an infinite one (`Infinite`, the number -1, which half of is
itself and which differs from everything, itself included, because infinity minus
infinity is no number). `m_last_sdds_time` is kept as its distance to the packet at hand.
The sequence number, its period of 32 and the packet of 1024 bytes are
constants, made small by the instances. A header of 1 to 7 bits per sample ends
the process (`crashed`).

### SocketConnection and ProcNetUdp

An address is its four octets, a device name a base and a VLAN, a netmask a
number of octets. The kernel is external: its devices and routes change at any
time (`ChangeNetwork`), and it refuses a bind, a join or any other request at
will. `start(req)` is `setConnectionInfo` and what `_start` does after it:

* `Refuses`: the empty address, before anything is closed;
* `Leaks` and `Dies`: a check before the loop over the devices fails. For a
  group the new socket stays open with no variable that holds it; for a
  unicast address the exception is not in the throw list (unicast.cpp:157), and
  the process ends;
* `Opens`: the loop. `TreatedAsMulticast` has the comparison in two byte
  orders (SocketReader.cpp:130), `getMcastIfaceFromRoutes` the look-up of a
  route, `Candidates` the devices for which a bind is tried. The kernel may
  refuse any of them up to its bind, and the loop goes on; `first` is the one
  whose bind succeeds. The loop's outcome is decided there, because a bound
  socket is not bound twice.

Then the reader thread: `RunStarts`, `RunBegins` (the socket's buffer),
`confirmSingleHost`, `ReadFails`, `RunEnds`; and `shutDown`, `Join`,
`setSocketBufferSize`. `m_socket_buffer_size` is a `size_t` that is assigned an
`int` and then read and written by the kernel as one: its two words are modelled
(`Extended`, `Reported`). `get_status_struct` is an operator on the state, any
contents of `/proc/net/udp`, and the address the override or the attached stream
has at the time of the query, which need not be that of the session.

### SourceSDDS, ThreadAttributes and Component

In `SourceSDDS` a call is one action. A session is one record: what `_start`
sets up. The framework's assignment to `attachment_override` has no setter and
may come at any time (`configureOverride`); `edited` remembers that it came
after the last time the override was read. The framework stores a new
`advanced_optimizations` before it calls the setter (tests/test_SourceSDDS.py:781
relies on it), so that the guard of `buffer_size` (SourceSDDS.cpp:183) compares
the request with itself, and the size shown under a session need not be its pool's.

`Component` extends it with the rest of what the calls do: the affinity and
priority `_start` sets and reads back, the two configuration setters, the query
that overwrites the priorities, the TTV options and the size of a push; and
`taskset`, by which anyone sets the affinity of a thread from outside. Every
action of `Component` is one of `SourceSDDS` joined with what it does to the new
variables, or leaves the old ones alone: `CallsAreTheComponents` proves that
`Component` implements `SourceSDDS`, so that what is proved of the one holds of
the other. The affinity mask has `WIDTH` bits (64 in the code), a CPU beyond it
is in no mask; `Allowed` is what the process may use.

### How the modules fit together

`SourceSDDS` says when sessions begin and end, `PacketPipeline` what happens inside a
session between three threads, `SocketConnection` what the reader does with its
socket, `SddsToBulkIOProcessor` what the processor does with the packets. The
models meet in shared operations: `PacketPipeline`'s `Process(num)` is one call
of the processor's `processPackets`; its `SetupReader` is `start(req)` of
`SocketConnection`; `_start` of `SourceSDDS` is its control thread from
`ShutDownReader` to `SpawnProcessor`; the options in `Component` are the
`options` of the processor.

## 3. Runs

| Run | Question | Instance |
| --- | --- | --- |
| `pipeline_safety` | does any interleaving share, lose or misdirect a buffer, miss a wakeup, lose a shut down, or leak a packet into the next session? | 2 buffers, batches of 2 and 1, two pools, socket errors, restarts over running threads: 3.8 million states |
| `pipeline_fifo` | does the path implement `PacketChannel`, and can reader and processor starve each other? | 3 buffers, batches of 2 and 2, two payloads, socket errors: 940,000 states |
| `pipeline_liveness` | are waiting threads served, batches processed, does a stop return? | 3 buffers, batches of 2 and 2, one pool, socket errors, fair scheduler |
| `processor` | are drops exact, pushes contiguous, of one TTV and under their SRI and rate, slips real, years followed, and is every packet used? | ten environments: 1.7 million states |
| `connection` | is the socket the one asked for, on the right device, alone, closed in the end, and truly reported? | 11 requests, 2 networks, 2 hosts, 2 descriptors, sizes 0 and 1 and the initial -1, 4 rows of other sockets: 95,000 states |
| `control` | does any order of calls, failing ones included, end in the wrong source, batch, option, CPU or priority? | 2 addresses, 2 IDs, 2 sizes, with symmetry; 4 masks, 3 priorities with and without permission and 3 affinities set from outside, on 4 CPUs, of which 3 are allowed and 3 fit the mask; and the options: 450,000 states |
| `lost_wakeup` | does a stop always return? **No** | – |
| `start_race` | is a shut down always heard? **No**, not before the thread has begun | – |
| `missed_new_year` | is every stamp of the right year? **No**, not if the year turns before a packet whose predecessor is forgotten | a host that is never behind |
| `stale_stream` | is a packet always written under the current SRI? **No**, not if the source changed its rate and then its format | two rates and two formats |
| `rateless` | is every packet used? **No**, not one whose header has no frequency | one header without |
| `override_endianness` | does an override keep its endianness? **No**, not across a detach | – |

The last six state what a comment or the README of the repository says; TLC
finds the code doing otherwise. `PROJECT.json` quotes the text and explains each.

The environments of `processor` (`MCProcessor`): `Losses` (gaps up to two
packets, both TTV flags, all options), `Rates` (two rates, two SRI), `Repeats`
(repeated packets, losses of a whole cycle of numbers), `Overrides` (an SRI with
priority, one without, and detach while running), `Ignored` (two SRI that
`compareSRI` takes for the same, two modes), `Jitter` (time errors around the accumulator's
tolerance, time that goes back), `Halves` (a device with twice its header's rate),
`Bitwise` (formats with and without a stream, and the five-bit header's 31),
`Nibbles` (4 bits per sample), `Years` (the year turns at the source and at the
host, in either order).

Bounds and why they are enough. Three buffers with batches of two is the
smallest pool that is roomy (2 + 2 - 1): each thread can be short, partly
filled and full, partial reads happen, the deques run empty, and the reader
keeps buffers across reads. In `pipeline_safety`, which has restarts over running
threads as well, it is two buffers and batches of 2 and 1 (2 + 1 - 1): the reader
is still short, partly filled and full. Two pools (`Generations`) let buffers of an
earlier session meet those of the next. Sequence numbers of 3 bits (`SeqModulus` 8) with
a checksum number every 4 (`ChecksumPeriod`) wrap within a run, and a loss of two
skips a checksum number; a push of 3 packets (`PktsPerPush`) may lie between two
checksum numbers or reach across one. `SDDS_DATA_SIZE` 8 and xdeltas of 10 to 60
make a packet's duration a small number that still tells samples, packets and
halves apart; `Resolution` is the code's, `ErrorTolerance` 4 is passed by two
errors of 3. `maxDropped`, `MaxSlips` and `maxElapsed` end the arrival of packets
or cap a time, and hide no kind of step. Two networks, one of
them with a device down and no routes, and eleven requests reach every branch of the
choice of device; two descriptors let one leak and leave one.
A socket buffer of size 1 is doubled by each start, past the kernel's maximum of 3
by the third; the size -1 the reader is constructed with is asked for as well. The
fill of the component's own socket (`Fills`) is 1, below that of every other row: it is
the largest only where it is alone on its address.

`CHECK_DEADLOCK FALSE` in the pipeline runs: after a lost wakeup the system
really stops (that is what `lost_wakeup` shows). In the processor runs it is
set because the bounds on arrivals end the behaviour, and a header of less than
8 bits the process. In `connection` the process may end, and descriptors may run
out. `control` checks deadlock.

Fairness (`FairSpec`): weak fairness of each thread, because the operating
system runs what can run; strong fairness of `Push` and `ProcessorRecycle`,
because a mutex given back again and again is obtained at last; strong fairness
of a `processPackets` that uses a packet, which `NoSpin` justifies: it returns
without using one at most twice in a row per SRI. `NoSpin` is proved for packets
whose header has a frequency; `rateless` shows that it fails for others, and so
does liveness then. Nothing obliges anybody to call `start` or `stop`, or a
packet to arrive. `StopReturnsOrWakeupLost` says that the defect `lost_wakeup`
finds is the only reason for a stop not to return.

## 4. Proofs

`PacketPipeline_proofs`, for every `Capacity`, `PktsPerRead`, `PktsPerPush`, set
of payloads and number of pools:

* `Inductive`: `[]IInv`, from `~StopRacesStart`. `IInv` is `TypeOK` with
  `PhaseInv` (which places of the three threads go together and which flags are
  up), `ReaderInv` and `ProcessorInv` (what the thread's container holds at each
  place). The properties are not inductive: that the iovecs equal the container
  at the next `recvmmsg`, for instance, needs that the buffers *kept* by the
  reader after a push are those its *last* iovecs point to (`Kept`), and that
  the pop puts them back to their old places (`Refilled`); and a thread that
  leaves a pop empty-handed has to be known to find its own flag up before it
  uses what it has not got (`PhaseInv`).
* From it: `TypeCorrect`, `KernelWrites`, `StopHeard`.
* `WakeupsSent`: `NoMissedWakeup`, by an invariant that a sleeping thread's
  request cannot be met unless the other is about to notify (`ReaderWait`,
  `ProcessorWait`).
* `Counted` and `PoolKept`: each step of a thread moves buffers from one container
  to another, and `initialize` finds all others empty, unless it was called over
  running threads (`live`).
* `NeverBothStarved`: that no more than `PktsPerRead + PktsPerPush - 1` buffers
  are needed is a consequence of the count, and only needs that there are no
  *fewer* than `Capacity` (`PoolEnough`). So it holds in a session begun by a live
  restart too, where `initialize` may find full buffers of the session before.

The hypotheses are values of the constants of the same name. Without
`~StopRacesStart` `ShutDownHeard` is false (`start_race`), and a reader that goes
on after it may hand iovecs to the kernel that nobody has set: what happens then
is undefined. All invariants are proved for both values of `LiveRestart`; only
`ImplementsChannel` needs `~LiveRestart`, because the channel of a session begun by
a live restart does not open empty.

`PacketChannel_proofs` goes on from these, with `~StopRacesStart`:

* `OwnedAlways`: `[]Owned`. No buffer is twice in a container or in two of the
  five, and except in a session begun by a live restart all are of the present pool. It is inductive because
  each step takes a prefix or suffix off one container and joins it to another
  (`Split`, `Join`), and a new pool meets no buffer of its own: the threads hold
  none, and a pool is only allocated where none is left of the one there was
  (`Unreferenced`). `NothingShared` and `NothingStale` follow.
* `NothingLeft`: `SocketClosed`, by an invariant on when an object claims to be
  running (`SocketInv`).
* `PipelineIsFifo`, with `~LiveRestart`: `Spec => ImplementsChannel`. The refinement maps `inflight`
  to the payloads of `Line`, three containers in order. A step of the reader
  appends to the line what it received, or writes into buffers that are not in
  it (`Owned`); one of the processor drops a prefix; every other step leaves the
  line as it is, or happens when the channel is closed already (`Closing`: nobody
  empties a container of the line before).

`SddsToBulkIOProcessor_proofs`, for any width of the sequence number, checksum
period, push size, resolution and environments (`ProcessorAssumption`,
`NamesAssumption`, `OffersAssumption`). Its invariants, each
with the theorems that follow; later ones use earlier ones:

* `Placed`: which packets can be aggregated at which place; a first packet
  finds no block open. `Typed`: `TypeCorrect`.
* `TtvKept`: the flag the code remembers is that of all aggregated packets:
  `TtvNotMixed`.
* `InStep`: only the stream of `m_bps` aggregates, and the expected number
  follows its last packet; with the lemma that the receiver skips exactly the numbers
  the sender skips (`NextIsFollowing`): `PushesAreContiguous`.
* `SriKept`: the stream of the source's format was given `m_sri`:
  `SriIsCurrent`, for sources that keep their format and no detach under an override.
* `Idled`: each return without a use makes the next of its kind impossible;
  two is the most, and after the second the SRI agrees with the header:
  `DoesNotSpin`.

`PacketHistory_proofs` goes on from these (with `NoPacketAssumption` besides: a
packet is there or not):

* `Known`: every xdelta that is compared is one of `Xdeltas`, so rates that differ
  are told apart. `Ruled`: whether the processor uses the upstream rate agrees with
  the history of the SRI supplied, and its SRI with the last of them. `Due`: each
  packet a stream holds was due the rate and mode that stream has. That needs that
  whatever changes the SRI while packets are aggregated pushes them first, and that
  the stream written to is the one the changed SRI was given to (`SriKept`):
  `HeaderRateIsUsed`, `UpstreamRateIsUsed`.
* `Years`: the processor remembers year and stamp of the last packet it
  aggregated, if that has a valid time tag, and its source's time never goes
  back: `YearIsFollowed`.
* `Numbered` and `Accounted`: modulo `SeqModulus`, the packet that waits, or the
  one that would come next, is `pending` numbers from the expected one; where
  losses are not ambiguous `pending` fits into one cycle, so that the modulus
  hides nothing: `DropsAreExact`. Below it lie lemmas about division and the
  wire: which numbers are sent, and how far apart (`MissedIsDistance`,
  `FollowingIs`). A packet discarded for its time tag counts like a lost one, and
  the checksum number behind it is counted once only
  (`DiscardAccounted`).

`TimeSlip_proofs` shows `NoSlipsOfExactSources`, for all times that can be told
apart (`TimesAssumption`: the cap `maxElapsed`, an artefact of the model, is above
the time a packet takes; an xdelta that may be halved is even, so that no time is
rounded, and a packet has more than two samples, which is the tolerance of the
check itself). Its invariant is `Exact`, kept while the source is one `NoFalseSlips`
speaks of:

* `Sourced` and `Plainly`: the packet that waits is of the source's header; no
  SRI overrides its rate. `Judged`: no slip and no error so far, and only a
  device of half rate was found to be one.
* `Tuned`: when the first packet of a stream has been looked at, the format is the
  source's, and SRI and time step agree with each other (`Agrees`), or the step is
  the one of the packet that waits (`StepOf`).
* `Aged`: the time between the last packet that was written and the one
  that waits is the step the processor expects, or, of a device not yet found out,
  half of it. Packets that were lost
  make the check start again, so it is claimed where none is pending; that none is
  pending where none was lost rests on `Accounted` and on lemmas about the wire:
  the number that is due is sent next (`DueIsSent`), no other packet within a cycle
  has it (`SentOnce`), and so nothing was lost before it (`NoneMissed`).
* `WriteJudged`: under these a write finds no slip, or finds the half rate out.

`SocketConnection_proofs`, for any networks, requests, hosts, descriptors and
sizes (`DescriptorAssumption`: descriptor 0 is never a socket; `SizeAssumption`,
`RequestAssumption`, `NetworkAssumption`, `OtherSocketsAssumption`: finitely many
rows of `/proc/net/udp`, with octets and ports): `IInv`, the checked invariants
with `Connected` (the socket in use is what the choice over the devices of
*that moment* gives), `Refused`, `OneHost` and `SizeKept` (what the next session
will ask for is no less than what the user asked for); from it `TypeCorrect`,
`NothingLeft`, `ReadsTheLastAsked`, `BufferSizeIsTrue`, `SecondHostWarned`,
`GroupJoinedWhereAsked`, `LowGroupsAreOpened`. The last two use that no
device's address is a group. `ReadersAreFound` is about texts: an address and a
port are printed in full when they have no leading zero (`PrintedInFull`), a
needle as long as the text it is a prefix or suffix of is that text (`FullPrefix`,
`FullSuffix`), and digits of equal value are equal (`HexDigits`, `SameAddress`,
`SamePort`); so the rows that match are those of the address, and the fullest of
them is what is shown (`MaxOf`).

`SourceSDDS_proofs`, for any addresses, IDs and sizes (`ControlAssumption`):
`TypeCorrect`, `OnlyWhenStarted` and `BatchIsKept` (inductive together),
`SourceReceived`.

`Component_proofs`, for any CPUs, width of a mask, priorities, offers and
transfer size (`CpuAssumption`, `MaskAssumption`, `OfferAssumption`,
`PriorityAssumption`, `TransferAssumption`): `CallsAreTheComponents`, and by
`CInv` `ThreadTypesCorrect`, `AffinityIsTrue`, `AttributesAreKept`,
`OptionsAreKept`. What makes `CInv` inductive is `Remembered`: whether or not
there is a session, the properties are such that the *next* start would give
each thread what it was promised, whatever it was given from outside meanwhile.

Every invariant that a run finds to hold is also proved, and so is the
refinement. Only model-checked: the three liveness
properties (`ReaderServed`, `BatchProcessed`, `StopReturnsOrWakeupLost`), because
liveness under fairness and ENABLED are out of the prover's reach, as is induction
over data; and the violations, whose counterexamples are theirs.

## 5. Not modelled, and why

* Decoding of the header (`sddspacket.h`): a fixed layout of bits
  without state; the model takes the decoded fields. Its setters and the arithmetic
  of `SDDSTime` have no caller in the component.
* Content of samples and the byte swap; of the swap the model keeps which
  endianness a packet is written with. Fractions of a time stamp.
* The single-buffer functions of the packet buffer, and the servers, `receive`,
  `transmit` and `poll` of `socketUtils`: nobody calls them.
* Generated code, `struct_props.h`, the test tools.
* Concurrent CORBA calls: which calls the framework serialises is not in this
  repository, so calls are atomic in `SourceSDDS` and `Component`.
* A live restart in the two runs of the pipeline other than `pipeline_safety`: the
  channel would not open empty. What it does not break is proved for both values of
  `LiveRestart` (section 4).

Behaviour met while modelling, about which the repository says nothing that a
run could refute, or which a property names as its precondition:

* Buffers may stay in the containers after a stop, until the next start
  destroys the pool (SourceSDDS.cpp:464 speaks of freed memory).
* A push late in a session survives a restart by `attach` over its threads
  (SourceSDDS.cpp:374, SmartPacketBuffer.h:81): the new session begins with a
  packet of the old one. `NoStalePackets` and `PoolConserved` except that session.
* An upstream SRI that differs from the present one only in what `compareSRI` does
  not look at (rate, mode, yunits, blocking, subsize, the ids of keywords) is not
  merged, be it that one has the priority keyword. README.md:118 of the repository
  says nothing of this; `RateFromUpstream` has the precondition `ToldApart`, and TLC
  finds it violated without.
* The query of the affinities returns what the component read last
  (SourceSDDS.cpp:137), while README.md:67 says of an affinity set from outside
  that the "property will update to reflect the actual thread affinity".
  `AffinityTrue` excepts such a thread until the component reads its affinity
  again, and TLC finds it violated without the exception.
* The guard of `buffer_size` never refuses (SourceSDDS.cpp:183), if the framework
  stores a property before it calls its setter: the size shown, of which the status
  gives percentages, is then not the pool's. No property claims that they agree.
* Until a socket buffer size of at least zero is configured the status shows the
  granted size with the upper word of -1 (SocketReader.cpp:228): `BufferSizeTrue`
  claims the upper word from then on.
* Rates closer than 5e-8 s are not told apart, halved ones and those of SRI
  included (precondition of `RateFromHeader` and `NoFalseSlips`).
* A year that turns at the source before it turns at the host leaves the stamps
  in the old one (precondition of `YearFollowed`).
* A group whose last octet is 240 or above is opened as a unicast address and
  refused (`LowGroupsOpened`). The set-up of a unicast socket can end the
  process (unicast.cpp:90-99), where the caller's comment expects an exception
  (SocketReader.cpp:99-101).
* A time tag of zero is taken for none (SddsToBulkIOProcessor.cpp:255); an
  invalid tag between valid ones is counted as a time slip.
* An override's endianness outlives it. An override enabled under the session of an
  attached stream makes a detach leave that session running; a detach compares
  IDs only.
* Packets of another format that come without a loss go to the stream of the
  format before (`m_bps`, SddsToBulkIOProcessor.cpp:219).
* A second session loses CPUs beyond the 64th that the first one had.

## 6. Plan

Done: the packet path with its locks and its refinement of a FIFO channel, the
processor's decisions, the socket, the control plane with atomic calls and the
attributes of threads; the proofs above. What could be added:

1. Concurrent calls at the grain of reads and writes of `started`,
   `m_attach_stream` and the override, once it is known what the framework
   serialises.
2. A session of `SourceSDDS` that runs the pipeline's control thread, so that a
   live restart is reached by calls.
