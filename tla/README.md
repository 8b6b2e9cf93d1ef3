# TLA+ models of Yuling (YL)

YL watches a host made of Windows, WSL2 and Docker, decides what to repair, and
runs foreign executables in an interpreter of its own. This directory holds
TLA+ modules of the parts whose correctness depends on the order in which things
happen, the TLC configurations that check them on small instances, and TLAPS
proofs of the results that should hold for every instance.

    tlc -config Coordinator.cfg MCCoordinator      a run (see the table below)
    tlapm CoordinatorProofs.tla                    the proofs of a module

## The system

| Part | Source | State it keeps | Operations | Hard part |
| --- | --- | --- | --- | --- |
| Actor system | `daoti-daemon/src/actor.rs` | fused readings, last health, model, parameters, last decision and its time; an mpsc channel of 16 | sense, receive, settle, infer, act, reload, cancel | one channel for readings and reloads, a settle window inside a `select!`, blocked senders, the wall clock |
| Configuration | `daoti-common/src/config.rs`, watcher in `main.rs` | the file, its mtime as last seen | load, poll, parse | hand-over to the actor by `try_send`; a parser that never fails |
| Fusion, decision | `daoti-core/src/sensor/fusion.rs`, `decision/*` | none | health from snapshots, rules, symbolic scheduler, trained model | thresholds; normalised against absolute scores |
| Event bus | `daoti-daemon/src/eventbus.rs` | a broadcast ring of 256, a number, two counters | publish, subscribe, metrics | number and send are two steps; slow readers lose events |
| Event history | `daoti-daemon/src/eventlog.rs` | an append-only JSONL file | append, page backwards | torn lines, chunk boundaries, numbers that start again with every run |
| HTTP and SSE | `daoti-daemon/src/http.rs` | none of its own | event stream, history, health, heal, run, snapshots | slow readers, long-lived connections |
| Browser | `daoti-ui-web/src/App.jsx`, `lib/daemon.js` | the last 200 events, requests under way | subscribe, show, fill gaps, reconnect | pages and live events interleave |
| Lifecycle | `daoti-daemon/src/main.rs`, `daoti-common/src/process.rs`, `daoti-cli/src/daemonctl.rs` | the PID file, the port, processes | start, stop, restart, status | every look at a file or a process is stale when it is used; crashes; reused process numbers |
| Agent, requests | `daoti-core/src/agent.rs`, `runner.rs`, `executor/*`, handlers in `http.rs` | none between calls; the mock's audit | diagnose and fix, run, dispatch, execute on macOS | a file that changes between two looks; a user who leaves; one command of several failing |
| Executor on the host | `daoti-daemon/src/executor.rs` | descriptors, handles, pipes, directories, pages, heap | some forty operations of Windows | descriptors that are copied, closed and reused |
| macOS node | `daoti-macos-node/src/lib.rs`, client in `executor/remote_macos.rs` | cancellation tokens by request id, temporary directories | execute, cancel | duplicate ids, abandoned requests |
| ELF runtime | `daoti-core/src/elf/runtime.rs`, `layout.rs` | guest memory, registers, flags | step, map, protect | overlapping mappings; flags and carries at word boundaries; a stack in the program's own memory |
| Syscall bridge | `daoti-core/src/elf/syscall_bridge.rs`, `linux_emulation_handler.rs` | files by descriptor, heap end, thread pointer | read, write, open, brk, mmap, mprotect, arch_prctl, ... | calls that fail after half of their work; what one call grants and another takes away |
| ELF loader | `daoti-core/src/elf/dynamic_loader.rs`, `mod.rs`, `relocation.rs` | the object graph, images, TLS blocks, words of memory | walk, place, relocate, resolve, start | order over a graph with shared and cyclic dependencies; writes that overwrite each other |
| PE and Mach-O loaders | `daoti-core/src/parser/pe.rs`, `parser/macho.rs`, `macho_runtime.rs` | memory and words of one program | plan, map, bind, relocate, start | two tables side by side; two walks over one file |
| B1 pipeline, local engine | `interceptor/*`, `mapper/*`, `injector/*`, `engine/*`, `bilateral/*`, `codec/*` | ledger of a traced process, telemetry, report | capture, map, guess, inject, record | one step of several failing; two tables for one thing |
| `daoti run` | `daoti-cli/src/commands.rs` | none | detect, load, run, answer | thirty ways for loading to fail |
| Learning, M1, stages, glibc data, Python | the rest of `daoti-core/src`, `daoti/` | files | numeric code, reports | not a matter of ordering |

Interactions: sensors and the watcher send messages to the coordinator; the
coordinator and the HTTP handlers publish on the bus; the persisting task and
one task for each browser read the bus; the browser asks for pages of the file
that the persisting task writes; the command line and the daemon share the PID
file, the port and signals; a request to run a file becomes an interpreter in the
handler, or a call to a macOS node over HTTP; a request to heal becomes probes and
commands on three platforms. An interpreter asks a kernel object for each system
call of its program; captured calls of another program go through tables to an
executor, a pipeline or an engine.

What makes each part correct: no reading is left unassessed, no decision is
repeated early, a configuration takes effect and none is lost silently, and a
shutdown completes (actor, configuration); every event carries its own number, is
written once and in order, and a reader who missed some is told how many (bus,
history, stream); at
most one daemon, the one the PID file names, and commands that say what is so
(lifecycle); a running
call can be cancelled, a call that is over leaves no program running, and
an answer says what was run (macOS node, requests); an outcome says what the
commands did (heal); an address of a guest has one meaning and what was granted
stays (memory, kernel); a condition says how two numbers compare and a return
goes back to its call (processor); a program starts with exactly the objects it
needs, each name and thread-local variable in one place (loaders); a report adds
up (pipeline, engine, `daoti run`).

## Modules

| Module | Stands for |
| --- | --- |
| `Options` | Rust's `Option`, as sets of at most one element |
| `Wuxing` | `wuxing_health`, the rules, the symbolic scheduler, commands of a plan; pure |
| `Coordinator` | `actor.rs` with the watcher task and the configuration file |
| `CoordinatorProofs` | theorems about `Coordinator` |
| `EventLog` | `EventLog::history` over a file of lines; pure |
| `EventFeed` | what one subscription promises its reader; abstract |
| `EventStream` | bus, persisting task, SSE and history endpoints, the browser's effect; implements `EventFeed` |
| `EventStreamProofs` | theorems about `EventStream` and that it implements `EventFeed` |
| `Lifecycle` | PID file, port, processes, `start`, `stop`, `restart` |
| `LifecycleProofs` | theorems about `Lifecycle` |
| `MacNode` | the HTTP client of a macOS node, and the node's `execute` and `cancel` |
| `MacNodeProofs` | theorems about `MacNode`, `Requests`, `Heal` |
| `Requests` | the daemon's handlers that run a file, over `MacNode` |
| `Heal` | the handler that heals, over `Requests` and `Wuxing` |
| `GuestMemory` | `MemoryModel`: regions of a guest's address space; pure |
| `GuestLayout` | where the loaders put stack, heap and thread-local storage; pure |
| `AddressSpace` | what a guest may rely on of its memory; abstract |
| `GuestKernel` | `NativeSyscallBridge` over that memory; implements `AddressSpace` |
| `Emulation` | `LinuxEmulationHandler` in front of `GuestKernel` |
| `HostExecutor` | the executor of captured calls on the host |
| `SyscallTable` | the interceptor's table, and what the white list refuses; pure |
| `RuleMapping` | `B1Pipeline` with ledger, telemetry, network and guidance, `run_b1` |
| `ParamConvert` | the engine's table and the conversion of arguments; pure |
| `LocalEngine` | `run_local`, capture sources, injectors, `pilot-syscall` |
| `Servers` | one of kernel, emulation, executor, pipeline and engine serves a program |
| `ServersProofs` | theorems about `Servers` and its parts, from `GuestMemory` and `GuestLayout` up |
| `Words` | numbers of the emulated processor; pure |
| `Cpu` | `X86_64Interpreter::run`, an instruction a step |
| `CpuHistory` | `Cpu` with what was compared, borrowed and called |
| `CpuProofs` | theorems about `Words`, `Cpu`, `CpuHistory` |
| `Dependencies` | the walk over `DT_NEEDED` |
| `Loader` | `execute_combined`: a program with its libraries, over `Dependencies` |
| `LoaderProofs` | theorems about `Dependencies` and `Loader` |
| `StaticProgram` | `execute_elf_with_sink`: a static program |
| `PeImage` | `execute_pe32_plus_console` |
| `MachoImage` | `execute_macho_with_sink` and the parser beside it |
| `Runner` | `daoti run`, over the four loaders |
| `RunnerProofs` | theorems about `Runner`, `PeImage`, `MachoImage`, `StaticProgram` |
| `MC...` | constants for TLC |

`Mut...` operators beside a definition (`DifferenceFlagsByResult`,
`WideIgnoringCarry` and `PushAtTop` in the processor) are plausible mistakes in the
code it stands for, one for each property; no specification uses them.

### Coordinator

`pc` is where the coordinator task stands: in its `select!`, inside the settle
window, or over. One action stands for what happens between two awaits, so the
end of a window and all of `infer_and_act` are one step (`Converge`): the
notifier is spawned and publishing does not wait. `Sense`/`Unblock` are a tick
and a permit for a blocked `send().await`; tokio hands permits out in arrival
order, so a waiting sender keeps `try_send` out (`HasRoom`). `Poll` is one pass
of the watcher: the file's mtime is compared and remembered before the message is
handed over, which is why a message that is lost is lost for good.
`SettleReload` is the case the loop at `actor.rs:255` has no arm for.

Scores are tenths, and the divisions of the rules are multiplied out. A
snapshot is the set of keys it reports. A trained model is known by its path and
is a function from health to what it is confident of, so a theorem about all
`Predict` is about all models. A damaged file has no content and parses as the
defaults. `now` moves forward and backward.

What the runs show. `coordinator` (three sensors, a file that may be absent, damaged
or changed under a running daemon, a clock that jumps across the cooldown both ways,
dev-build arithmetic) has a million states. With a capacity of 1 (the code has 16)
senders wait almost always, and reloads are refused. `AtMostTwoInterventions` is a
consequence that nobody planned: the daemon's sensors report only that they run
(`actor.rs:280-285`), so the fused health has two values, and the daemon acts at most
twice until it is started again. `ShutdownCompletes` shows that a cancelled system winds
down, also where a sensor is blocked on a channel whose receiver is gone.

`coordinator_reload` is a violation: `config.rs:375` promises that a change takes
effect without a restart, and a reload that meets a settle window is dropped
without `mpsc_dropped` moving. `InSyncUnlessLost` says that a full channel and a
settle window are the only two ways to lose one. It speaks of files that are a
configuration. Of a damaged one `config.rs:378`, `:398` and `:430` say that the old
parameters are kept; `toml_parse` makes the defaults of any text, and that is what the
model does (`Parse`). No property claims either.

Fairness: the tokio runtime polls tasks that are ready, so a sensor that can tick or
has room goes on (weak). `select!` picks at random among ready branches, hence
strong fairness for `Stop`. `WindowsRunOut` is an assumption about time: the loop at
`actor.rs:255` starts its 600 ms anew with every message, but the sensors tick
together and at least a second apart (`sampling_secs`), so the coordinator is back at
its `select!` again and again. Nothing is concluded about the window itself from it.

### Event stream

The bus is the sequence of all that was sent; a receiver is a position in it,
and what is more than `Capacity` behind has been overwritten (`Missed`, tokio's
`Lagged`). Taking a number and sending are two actions (`Claim`, `Send`), so two
publishers can send out of numerical order. The persisting task, the SSE task and
the browser's handlers take one event at a time. A request for a page is asked,
answered from the file as it is then, and merged later, with live events in
between. `Crash` and `Start` may happen at any moment; the file and what the
browser shows stay.

`EventLog` models the backward scan: chunks are parsed one by one, so a line that
a chunk boundary cuts is not found (`Cut`), the `before_seq` filter, the limit
and the stable sort. Lines have equal length; in `Daemon.cfg` a line has 3
bytes and a chunk 4, so boundaries fall in the middle of lines, on newlines and
between lines.

What the runs show. The events of `daemon` (two publishers, ring of 1, three events in the
first run and one in the second, one subscription, failing appends) reach
every kind of lag, torn lines in front of whole ones, and numbers that repeat
across runs. `FeedSpec` is the refinement: the SSE task implements `EventFeed`
with `published <- bus`, `position <- pos`. Where a subscription starts, and which
numbers it sees, the feed leaves open: the comment of `subscribe` (`eventbus.rs:70`)
says that each receiver starts from the beginning and that numbers are contiguous,
but a broadcast receiver starts at what is sent next, and two publishers may send in
another order than they numbered (`Claim`, `Send`). `LogFollowsBus` begins with what the
bus itself promises: numbers without gaps, however the publishers interleave.
`PageIsSound` bounds what a page lacks by the chunk boundaries crossed. Pages that mix
runs, and a browser that takes an event of an older run for one of the same number, are
as the code has them; no property forbids them.

`eventstream_gap` is a violation: `App.jsx:608` says missed events are fetched,
and the request asks for those before the last one shown.

Fairness: weak, for the persisting task and the SSE task with the browser behind
it, because the runtime polls them while they have something to do. Publishing,
connecting, asking and crashing are free.

### Lifecycle

Each process is in a stage; each command is at a step. Reading, removing,
truncating and writing the PID file, `kill -0`, `kill` and binding are single
actions, because the operating system interleaves them with everything else.
A process that ends while the command that spawned it still runs is a zombie, for
which `kill -0` succeeds. Numbers are reused by other programs. A browser stream
keeps a draining server from ending (`main.rs:140`).

What the runs show. The processes of `daemon` are three numbers (an old daemon, a new
one, a foreign process), with one terminal. `MCDaemon` puts them beside the events, with
which they share no state: a behaviour is one of either part. `Prompt` says that a daemon starts
within the 800 ms of `start` and ends within the 3 s of `stop` unless a stream
keeps it; without it the three properties fail in the obvious way. With two
terminals they fail as well: two starts race from `acquire_single_instance` to
`bind`, the loser leaves its number in the file or removes the winner's, and the
port is what keeps one of them out. That is a limit of the code, recorded under
hazards, and the reason for `Terminals = {tty}`.

`lifecycle_start` and `lifecycle_restart` are violations: `start` takes a zombie
for a running daemon (`daemonctl.rs:80-84`), and `restart` reports success for an
old daemon that a stream keeps draining (`daemonctl.rs:162-165`).

Fairness: running programs go on (weak), and the polling of `stop` runs out
while streams come and go (strong). Nobody has to type, browse or die.

### macOS node and the daemon's requests

`handler` is where the node's task of a call is: registered (its token inserted),
executing (waiting for the program in `select!`), holding a verdict, done, or
dropped by the server because the client closed the connection. A task can only
be dropped where it waits, so what comes after the `select!` (`lib.rs:72`) and
after the wait for the program (`lib.rs:142`) is all or nothing. `kill_on_drop`
kills the program with its future (`Killed`). `select!` polls in random order:
a cancelled token and a program may race either way. A retry is another call with
the same id, which is what `agent.rs:770` gives all calls of a process.

`Requests` adds the handler in front: `run`, `dispatch` and `execute` of
`http.rs`. `at` is the wait or the look at the file it is at. A file is looked at
up to five times (`Detect`, `ElfKind`, `Again`, `EntryPoint`, `Execute`), and
`Replace` puts another content, or none, in its place between any two. The handler
is dropped only where it waits (`DropRequest`), and takes its connection to the
node with it. `ran` remembers what an interpreter was really given.

`Heal` adds the request to heal: probes of three platforms, a decision by
`Wuxing` or a loaded model, commands one after the other, each of which exits,
is refused, cannot start or is too late, a second sensing, and the outcome
(`Outcome`). What the return codes are and what the processes did are separate
(`results`, `exits`), because -1 stands for four different things.

What the run shows. `macnode` has a call and its retry under one id, and cancels
at any moment. A running call may be out of a cancel's reach: two calls of one id
take each other's token away, and `Cancellable` says that this is the only way; of
calls that shared their id while running it says nothing.
What is left behind is bounded the same way (`NothingElseLeft`): entries by dropped
calls, directories by cancelled, dropped and unwritten ones, processes by none. Since
a client's time limit starts first and is as long as the node's, dropping is the
usual end of a program that takes too long, so these are not rare.
`ReportsWhatRan` says that an answer "ok" is about what was executed, although five
looks at a file may see five files; it does not say that the reported *mode* fits.
`HealTells` ties the outcomes to what became of the commands, which it takes from the
processes (`exits`, `late`) and not from the return codes. It says that a late command
makes the outcome a timeout, and the converse only where every other command exited with a
code. The rest is `heal_timeout`, a violation: `agent.rs:66` documents `Timeout` as a
command unfinished for its time limit, and a refused command, a missing program and a
death by a signal have the same return code -1 (`agent.rs:159`). That after a success the
three platforms are open again (`agent.rs:62`) is not claimed: the second sensing decides
nothing.
`UnwantedStops` follows a user who leaves through the handler, the connection, the
node's task and the process.

Fairness: weak, for tasks that can go on and for a server noticing a closed
connection (`Drop`, `DropRequest`, `DropHeal`). A program need not end. A heal goes
on by itself: every probe has a limit of seconds (`runner.rs:44`) and every command
one too, and `Late` is the step that ends a command; commands need not exit.

### Guest memory and kernel

An address is a number, a region an interval with permissions, a memory a set of
regions. `Can...` is the condition under which an operation succeeds, beside it
what it makes of the memory. `Protect` is the splice of `mprotect`, which takes the
parts of every region it cuts without the overlap check of `add_region`.
`GuestLayout` computes where the loaders put stack, thread-local storage, heap and
the limit for `mmap`; its results are the `Guests` that `GuestKernel` starts with.

`GuestKernel` has one action for each call, with failure where the code returns an
error: it keeps what the call had done and ends the guest (`Fault`). `SetFs` is
`arch_prctl`, which maps up to three pages one by one and writes four words.
`MMapElf` is the bridge's own mapping of a library. Bytes are kept only as
positions in a file, for `READ` (`delivered`).

`AddressSpace` is the abstract specification: a step maps free cells, or protects
one interval of mapped ones; no cell is ever taken away, since `munmap` only
answers. `KeepsAddressSpace` is the refinement, with the cells of all regions and
their permissions as the abstract space. `Emulation` is the handler that programs
with libraries get: it answers `write`, `writev`, `uname` and the exits itself and
hands the rest to the bridge, with the difference that a signal the guest sends
itself does not end it.

### Other servers of system calls

`HostExecutor` is `executor.rs`: descriptors name handles, a pipe is two of them
and a queue, files have names and sizes, `VirtualAlloc` and the heap are tables.
Each operation is an action with success and failure; `report` counts them.
`RuleMapping` is the B1 pipeline: an event is mapped by the table, refused by the
white list, guessed by the network, or missed; `policy` is stage 3's guidance. What
the network settles at is any member of `Outputs`, rounded and looked up as the
codec does; without iterations the input comes out unchanged. `PipelineTells` holds of
runs that end at `Blocked` too, which `agent.rs:1425` says operations of the table never
do: `pipeline_blocked` is that violation, for `fstat`, whose operation
`GetFileInformationByHandle` contains the forbidden pattern `format` (`safe.rs:137`,
`:252`). `LocalEngine` runs the
captured calls of a job through one of two tables and an injector, and makes a
report. `Servers` puts the five side by side, for one run: they share no state, a
program has one of them.

### Processor

An instruction is what prefixes and ModR/M decode to: a form, which is a row of the
interpreter's match on the opcode, an operation, a width, two operands. `Code[a]` is
the set of instructions an address may hold, so a program is chosen as it runs.
`Words` has widths as numbers of bits, a parameter: TLC uses 2, 4, 5 and 6 bits so
that all carries, signs and wraps happen, the proofs hold for all. `CpuHistory`
remembers the operands of the last comparison, the limbs of a subtraction under way,
and the open calls with the slots of their return addresses.

`ConditionsCompare` exempts what the code computes at another width: signed conditions
after a byte `sub` and after `al` or `eax` with an immediate, and `cmp` of two bytes with
a sign-extended one. `BorrowsChain` follows a subtraction up to an `sbb` with a right side of
all ones and a carry. `cpu_borrow` is the violation that shows why: there `rhs + carry`
wraps to 0 and the borrow is lost (`runtime.rs:5017`), though the comment at `:4966` calls
it an `sbb`.

Abstracted: an instruction has one address, a slot has eight bytes and an access
takes the low ones. Left out are quirks of decoding, which the record hides: `0xc1`
on memory reads its immediate before the displacement, `0xd1` on memory resolves its
operand twice, rip-relative operands of `0x81` and `0xc0` are not corrected for the
immediate, `lea` ignores REX.X with index 4, `movzx`/`movsx` never read `ah`..`bh`.

### Loaders and `daoti run`

`Dependencies` is the recursion of `plan_dynamic_dependency_graph` with its stack
made explicit (`frames`); its result is compared with what a graph should be.
`Loader` goes on with the whole of `execute_combined`: images, windows,
thread-local blocks sorted by alignment, DTV, symbol scope, every kind of
relocation, resolvers, and the first step of the processor. `StaticProgram`,
`PeImage` and `MachoImage` are the other loaders; each step is one loop iteration
or one stretch without a failure, and each way to fail is an action. An address
counts words of 8 bytes; a word is a number, or a name for a text. `Runner` is the
command: what a file is detected as chooses the loader, and whatever happens there
chooses the exit code.

`applied` remembers each relocation with the addend it used. `Lasts` says of one that no
later relocation, no COPY and no resolver is for its word. `BindingsFollowLoadOrder` is
about those, slot by slot, with an explicit addend and without: where several relocations
name a word the last one decides and the others are not judged. `ThreadStorageAgrees`
treats the slots the same way; the words of the blocks it takes as they are unless the
DTV lies on them or a relocation names them (`Unnamed`), since the code checks only that
a relocated word can be written. The way by module number and offset is
`TlsContext::get_addr` with the table that the relocations had; the run is given no such
table, and what `__tls_get_addr` answers there, 0, is outside the property.

`EntryIsMapped` is silent about headers that count other commands than those that fit
(`CommandsCounted`), with which the walk of the loader and that of the parser may end
differently; `ImageIsBound`, but for regions and stack, about tables that name a word
twice (`TablesApart`); `StartIsSound` about thread-local blocks that reach into the stack
(`BlockFits`) and symbols or slots outside the segments (`PatchesItself`).

What the run shows. `loader` starts `daoti run` on commands of each kind, on 785
systems of libraries (all graphs of up to four objects over five lists of needs, and
35 variants of a full system in which one thing is otherwise: a symbol defined
twice, a missing one, an image too large, a link, an IFUNC, each kind of relocation,
two relocations on one word, a COPY or a resolver over a bound slot, a relocation of a
word of a thread-local block or of the DTV),
on 22 PE, 19 Mach-O and 22 static files made the same way. `RunTells` connects them:
no loader takes a step for another's file, and no failure answers 0.

## Runs

| Run | Module, configuration | Properties |
| --- | --- | --- |
| `coordinator` | `MCCoordinator`, `Coordinator.cfg` | `AssessedIsCurrent`, `NoRepeatWithinCooldown`, `AtMostTwoInterventions`, `InSyncUnlessLost`, `ShutdownCompletes` |
| `coordinator_reload` (violation) | `MCCoordinator`, `CoordinatorReload.cfg` | `ConfigTakesEffect` |
| `daemon` | `MCDaemon`, `Daemon.cfg`: `EventStream`, `Lifecycle` | `LogFollowsBus`, `PageIsSound`, `FeedSpec`, `ShownOrTold`, `PersistedOrTold`, `ServingIsNamed`, `StopIsHonest`, `CommandsEnd` |
| `eventstream_gap` (violation) | `MCDaemon`, `EventStreamGap.cfg` | `GapsAreFilled` |
| `lifecycle_start` (violation) | `Lifecycle`, `LifecycleStart.cfg` | `StartedIsRunning` |
| `lifecycle_restart` (violation) | `Lifecycle`, `LifecycleRestart.cfg` | `RestartRenews` |
| `macnode` | `MCMacNode`, `MacNode.cfg`: `MacNode`, `Requests`, `Heal` | `Cancellable`, `NothingElseLeft`, `ReportsWhatRan`, `HealTells`, `UnwantedStops`, `HealEnds` |
| `heal_timeout` (violation) | `MCMacNode`, `HealTimeout.cfg` | `TimeoutWasLate` |
| `guest` | `MCGuest`, `Guest.cfg`: `Servers` with its five parts, `CpuHistory` | `RegionsApart`, `BrkIsBacked`, `ThreadPointerIsBacked`, `ReadsAreContiguous`, `PipesHoldTogether`, `PipelineTells`, `EngineTells`, `KeepsAddressSpace`, `ConditionsCompare`, `BorrowsChain`, `ReturnsToCaller` |
| `pipeline_blocked` (violation) | `MCGuest`, `PipelineBlocked.cfg` | `TableNeverBlocks` |
| `cpu_borrow` (violation) | `MCGuest`, `CpuBorrow.cfg` | `EverySbbBorrows` |
| `loader` | `MCRunner`, `Loader.cfg`: `Runner` with its four loaders | `GraphIsExact`, `BindingsFollowLoadOrder`, `ThreadStorageAgrees`, `ImageIsBound`, `EntryIsMapped`, `StartIsSound`, `RunTells` |

Deadlock is checked for the violations of `Lifecycle`. The others may stop: after a shutdown, when
the bounds on events, calls and connections are used up, when all requests are
answered, when a program has ended.

Bounds. They are guards of the actions that use them up and of nothing else:

- `MaxEdits` (changes of the configuration file), `Times` (readings of the clock),
  `MaxBoots`, `MaxEvents`, `MaxConnects` (runs of the daemon, events of a run,
  subscriptions).
- `macnode`: two calls of one id, one file with six contents. The workloads are
  one `run` of a file that is replaced up to twice (between any two of its looks, which
  is enough for each pair of looks to differ), one `dispatch` with one replacement, a
  `run` and an `execute` under three configurations of the node, and one heal with
  the 16 healths that probes can give, three models and at most two commands.
- `guest`: four calls with pages of two cells, for a static program with and without
  thread-local storage and for one with a library. Four calls let a mapping, a
  protection that splits it, a second mapping and a thread pointer follow one another;
  addresses are chosen at and beside the ends of regions. `HostExecutor`: four calls,
  descriptors 0 to 3, two directories, one name, counts 0, 1 and 3: a pipe, a copy
  and two closes. `RuleMapping`: three events of twelve, four configurations; the
  threshold is 2 where the code has 5, so it is reached with one event to spare.
  `LocalEngine`: programs of up to 320 calls, one of which takes every number from
  0 to 319 through both tables. The name that `uname` writes has 3 cells, not 390.
- Processor (in `guest`): eight steps where the code has ten million. Three instructions are enough
  for what is compared, kept, and continued in another limb; eight for calls
  inside calls.
- `loader`: pages of 4 words (32 for static programs), two versions of the DTV.
  Three PE files are given a load base, which `daoti run` never passes but the public
  function takes: without it no relocation has anything to move.

## Proofs

Each theorem holds for every value of the constants, under the named assumptions of the
modules it is about. The runs check the same definitions on small instances.

`CoordinatorProofs`: every capacity, cooldown, set of models, set of configurations and
clock.

| Theorem | Says |
| --- | --- |
| `TypeCorrect` | `Spec => []TypeOK` |
| `Assessed` | `Spec => []AssessedIsCurrent` |
| `InSync` | `Spec => []InSyncUnlessLost`, of a file that is a configuration |
| `AtMostTwo` | `Spec => []AtMostTwoInterventions` |
| `NoRepeat` | `Spec => []NoRepeatWithinCooldown` |

- `TypeCorrect`: one lemma for each action or group of actions. The capacity bound
  needs `RoomIsFree`: waiting senders are a finite set, so a channel with room
  has a free place.
- `Assessed` adds `WindowHasReading`: inside a settle window there is a reading.
  Without it a window could end with the health of no reading at all, which the
  invariant would have to tell from "never assessed".
- `InSync` is about a file the watcher has seen as it is and a coordinator that has
  lost nothing. It is not inductive by itself: between the poll and the receive the
  coordinator still runs as before. `SyncInv` says that the last reload in the
  channel carries what the file says, and that, when no reload is left, the
  coordinator runs as the file says (`OnItsWay`). Readings behind that reload do not
  matter, a further reload replaces it, and the two losses are counted.
- `AtMostTwo` and `NoRepeat` share an invariant. `TwoHealths` computes that fused
  readings have one of two healths; `Ranked` counts how many interventions can
  stand behind each, and needs that a slot once filled stays filled; `Remembered`
  ties the last intervention to what the cooldown compares with. With at most two
  interventions the second is compared with the first, whatever the clock did.

`EventStreamProofs`: every ring, every number of publishers, subscriptions, runs of the
daemon and events.

| Theorem | Says |
| --- | --- |
| `KeepsFeed` | `Spec => FeedSpec`: the stream implements `EventFeed` |
| `LogIsFaithful` | `Spec => []LogFollowsBus` |
| `PagesAreSound` | `Spec => PageIsSound`: for every size of lines and chunks |

`KeepsFeed` is about one subscription with the SSE task that reads it; pages and the log
are not in it. It maps each action to a step of the feed or a stutter and needs only the
type invariant. For `LogIsFaithful` the difficulty is that numbers are taken
and sent in two steps. What has no gaps is not the ring but the ring together with what
publishers hold (`NumberInv`): those numbers are all different, below the next one, and
between them complete; when nobody holds one, the ring has them all. `LogInv` says
that the lines of this run are events of the ring in the order in which they were
sent, up to where the persisting task is.

`PagesAreSound` is about what `Answer` does with any file. In a finite set that is
ordered, the members have 0, 1, 2, ... others before them (`CountsRise`, `CountsFill`, by
the pigeonhole principle): so the last of the accepted lines are as many as the limit
allows (`LastOfIs`), and each has one place on the page (`PageIs`). A page that is short
has all the accepted lines, and what it lacks is on lines that were cut, each by a
boundary of its own (`CutsAreFew`, `PageHasTheRest`).

`LifecycleProofs`: any number of processes.

| Theorem | Says |
| --- | --- |
| `TypeCorrect` | `ProcessSpec => []ProcessTypeOK` |
| `DaemonIsNamed` | with one terminal and prompt daemons, `ProcessSpec => []ServingIsNamed` |
| `StopTells` | with one terminal and prompt daemons, `ProcessSpec => []StopIsHonest` |

The two hypotheses are those of the run: one terminal, and `Prompt`, that the limits of
800 ms and 3 s are always met but for a stream, which the code does not guarantee. Both are
needed (see above: two terminals
race between `acquire_single_instance` and `bind`). `OneInv` relates the command to the
processes: one that starts is the child the command waits for, from `binding` on the file
has its number and while `writing` the file is empty; a command about to remove the
file or to spawn has seen that there is no daemon, and one that signals or polls
looks at the only one. Crashes, exits and reused numbers only end stages
(`EndingKeeps`); `StartsAlone` says that whoever starts does so alone.

`MacNodeProofs`: every set of calls, every choice of ids, and every set of contents of
files, models and healths.

| Theorem | Says |
| --- | --- |
| `NodeTypeCorrect` | `Spec => []TypeOK` |
| `RunningIsCancellable` | `Spec => []Cancellable` |
| `NothingElseIsLeft` | `Spec => []NothingElseLeft` |
| `DaemonUsesNode` | `DaemonSpec => Spec`: the daemon's handlers step the node only as a client may |
| `AnswersTellWhatRan` | `DaemonSpec => []ReportsWhatRan` |
| `HealsAreTold` | `SoundModels` implies `DaemonSpec => []HealTells` |
| `RulesTell` | without a trained model, `DaemonSpec => []HealTells` |

The node's invariant adds that an entry is under its call's id (`Keyed`), that two
calls of one id which run together are both known as sharing (`Sharing`, without
which the removal by one could surprise the other), and what a verdict says of
token and directory (`Verdict`). `QuietStep` sorts the twelve actions into four
kinds by what they do to the entries, and the lemmas about entries argue by kind.

`DaemonUsesNode` carries the results over to the daemon with its handlers. The
invariant of the daemon (`DaemonInv`) says of each place of a handler what has been
looked at and what has run so far (`RequestInv`), what a node's client has answered
(`Answered`), and that a running child is a command on its platform's list
(`ChildInv`); it holds whatever the file is replaced by between two looks.
`HealInv` pairs each return code with how the process ended (`Agree`).
`SoundModels` is a hypothesis because `HealTells` is false without it: a model that
names "no_action" for a host that is ill makes the handler answer as if nothing
had been wrong. `RulesTell` discharges it for the rules and the symbolic
scheduler, computed over all healths.

`ServersProofs`, of the guest's kernel: every size of page, set of files, set of arguments
and every guest whose image is `Sound`.

| Theorem | Says |
| --- | --- |
| `MemoryStaysApart` | `Spec => []RegionsApart` |
| `HeapStaysMapped` | `Spec => []BrkIsBacked` |
| `ThreadPointerStaysBacked` | `Spec => []ThreadPointerIsBacked` |
| `ReadsStayContiguous` | `Spec => []ReadsAreContiguous` |
| `KernelKeepsAddressSpace` | `Spec => KeepsAddressSpace`, the refinement |
| `EmulationServesAsKernel` | `EmulationSpec` implies the first two and the refinement |
| `StaticImageIsSound`, `CombinedImageIsSound` | what `GuestLayout` computes is `Sound` |

The invariant (`IInv`) adds to the first two that the heap the loader mapped is still
mapped, and that what is mapped is whole pages. The kernel's fourteen calls are sorted
by what they do to the memory (`StepOfMemory`): nothing, mappings of free cells, or one
protection; `ProtectApart` is the lemma about the unchecked splice, by way of what each
cell of a cut region becomes. The emulation's steps are shown to be steps of the kernel
(`EmulatedCallIsACall`), so it inherits the rest. The two theorems about layouts
discharge the assumption on guests, with lemmas about rounding to pages.

`ThreadPointerIsBacked` needs the whole pages: `arch_prctl` maps the pages around the
pointer unless it can read the first word of one, and the words it then writes are
further up. So `Sound` asks an image to be whole pages, which is what the loaders map,
and heap and bump area are whole pages (`LayoutAssumption`). A page mapped in part
would break the property, in the model as in the code. `ReadsStayContiguous` has an
invariant of its own (`ReadsInv`): a descriptor's position is where what it delivered
ends, and descriptors name files that exist.

`ServersProofs`, of the others: every set of counts, paths, events, networks and setups.

| Theorem | Says |
| --- | --- |
| `PipesStayTogether` | `ServersSpec => []PipesHoldTogether` |
| `PipelineIsHonest` | `ServersSpec => []PipelineTells` |
| `EngineAlwaysTells` | `ServersSpec => []EngineTells` |
| `MemoryIsServed` | `ServersSpec` implies the refinement and the kernel's four properties |

A writer remembers its reader by number, and closing looks the number up, so the
property depends on numbers not being given out again. `HostInv` says that all numbers
are below the next one, that each handle stands for a file or an end of a pipe that was
made (`Stands`), that a writer's peer, while open, is its own pipe's reader
(`Paired`), and that what a pipe delivered and what it holds make what was sent.
`RulesInv` adds to the sums the sets that outcomes and answers come from, and
that a network that iterates names calls next to its tanh (`LowGuesses`).
`RulesAssumption` says that a setup names one file or none, that outputs are hundredths
of a tanh, and that the threshold is positive; `CountsAssumption` that counts are numbers.
`EngineInv` says for each call taken where it went: a known one to the place in the
history that is its own less the unknown calls before it, an unknown one to the list
(`Went`); that the source holds the calls not yet taken; and that a report that is not
partial has only accepted entries. `TablesAgree` compares the two tables row by row,
`ProtectionsAgree` the rights of each protection with those wanted, and
`ConversionsAgree` carries that to what is asked for. `JobsAssumption`: captured arguments
are unconverted, and a pilot has a call.

`CpuProofs`: all widths (numbers of bits that double as those of the code do), all
programs and any depth of calls.

| Theorem | Says |
| --- | --- |
| `TypeCorrect` | `CpuSpec => []TypeOK`: registers and memory hold words, accesses are mapped |
| `ConditionsAreRight` | `CpuSpec => []ConditionsCompare`, with the exemptions above |
| `BorrowsAreRight` | `CpuSpec => []BorrowsChain`, up to a right side of all ones with a carry |
| `ReturnsGoBack` | `CpuSpec => ReturnsToCaller` |

`FlagsTell` says what the flags hold after a comparison, `DifferenceCompares` that
sign and overflow of a wrapped difference say which operand is less, `FlagsKept`
that other instructions leave them. `Borrowing` carries the limbs, read from the most
significant (`LessCons`). `CallsHold` says that each open call's return address is
still in its slot; the history closes a call that the program has cut off or
overwritten. The bitwise operations are parameters of which only `OnesAssumption`
and closure are used.

`LoaderProofs` and `RunnerProofs`: file systems of any size and any links, every set of
commands, every table that a file of any of the formats can hold.

| Theorem | Says |
| --- | --- |
| `GraphIsAlwaysExact` | `Spec => []GraphIsExact` |
| `RunGraphIsExact` | `RunnerSpec => []GraphIsExact` |
| `CommandAnswers` | `RunnerSpec => []RunTells` |
| `EntryIsAlwaysMapped` | `RunnerSpec => []EntryIsMapped`, under `CommandsCounted` |
| `ImageIsAlwaysBound` | `RunnerSpec => []ImageIsBound`, words and slots under `TablesApart` |
| `BindingsAlwaysFollow` | `Spec => []BindingsFollowLoadOrder`, for each slot with `Lasts` |
| `RunBindingsFollow` | `RunnerSpec => []BindingsFollowLoadOrder` |
| `ThreadStorageAlwaysAgrees` | `Spec => []ThreadStorageAgrees`, slots with `Lasts`, words with `Unnamed` |
| `RunThreadStorageAgrees` | `RunnerSpec => []ThreadStorageAgrees` |
| `StartIsAlwaysSound` | `RunnerSpec => []StartIsSound`, under `BlockFits` and `PatchesItself` |

`GraphInv` is the invariant of a depth-first walk with an
explicit stack: what is finished is closed under needs and has no cycle (`WalkInv`),
each object but the first comes after one that needs it (`NodesOrdered`), and the
frames are a path of needs whose earlier children are finished (`FramesChain`), so a
needed object on the stack makes a cycle (`StackHoldsCycle`), and finishing an object
makes none. `CommandInv` says that only the loader of the command's file has left its
first stage, and where exit code and answer come from; `CommandsAssumption`, that a
file is detected as one of the kinds or as none.

`MachoInv` follows the walk of the load commands: the segments before the place it has
reached are mapped or still to do, and the entry is that of the last `LC_MAIN` among
them. `EntryIsMapped` compares this with the parser's list, which reads by offsets; that
the two agree is an induction over the commands (`OffsetIsANumber`), and that the n-th
of the parser's segments is a segment of the file is `Ranked`. `PeInv` does the same for
the stages of a PE image: each section is mapped or still to do, each import bound or
still to do, and after n relocations the words are those of the file, moved where one of
the first n names them (`SectionsKept`). Writes do not disturb each other because the
regions are apart and, under `TablesApart`, the slots are; `ResolveIs` says that a
supported import which resolves is that of a name, so that the alternative names of
`ntdll.dll`, which `NamesSupported` refuses, play no part. `MachoAssumption` and
`PeAssumption` say that the fields of the files are numbers and their tables sequences,
and `PeAssumption` that the stack (0x10000) has at least two pages.

`BindInv` counts the relocations that are done: what each of them was applied to is one
of the first n of `Work`, and its slot holds `AddressOf` its name with the addend it
used, as long as no later one of those n is for the slot: a further relocation either is
for another word (`SlotStays`) or ends the claim (`LastsGrows`). What is left when the
resolvers begin is about slots that none of them touches (`RunResolverIs`).
`AddressesAre` says that the table filled in load order has, for each name, the
definition of the first object that has one (`FirstOfFirst`), and `PlaceInv` that
everything that gets a place is a usable object. `ObjectsAssumption`: a usable object
has a PT_LOAD segment (`plan_dynamic_load` refuses others), its tables are sequences
of entries with at most one symbol and one addend, the fields of these and of its PT_TLS
are numbers, and the pointer to the DTV lies before the DTV (0x4000 and 0x5000).

`ThreadInv` follows the window of thread-local storage, in which four stages write. While
the blocks are installed each of them lies above the TCB, aligned, and below what comes
next (`CursorIs`), so a new one disturbs none (`InstallBlockKeeps`); the DTV then has the
start of each block at its number (`ModuleIds`: no two have the same), and disturbs only
its own words (`BuildDtvKeeps`); what `inject` prepares is above the window. From there
on a write is a relocation's or a resolver's, and a word that none of them is for keeps
what it holds (`NamedOnly`). That condition is needed: the code checks only that the word
can be written, and the window can. As with `BindInv`, a slot keeps what was written
until a later relocation is for it (`StorageAgrees`), and `ThreadLocalsAre` says that this is about
the block of the first object that defines the name. That
`TlsContext::get_addr`, which searches by number, ends there too is `TlsAddressIs`.

`StaticInv` says which words hold what at each stage of a static program, as sets of
pairs of an address and a word (`StackTold`, `SegmentsTold`, `RandomTold`, `BlockTold`),
and `AreHeld` that memory has them. A write keeps what it does not touch
(`HeldElsewhere`), and the writes are apart: the segments lie below the stack
(`StaticPlaces`), the stack below the thread-local block under `BlockFits`, and symbols
and slots in the segments under `PatchesItself`. Both conditions are needed. Without
them the invariant is not inductive for a reason in the code: a symbol or a slot may be
a word of the stack, and what is set there replaces what the program was to find.
`StaticAssumption` says that the fields of a file are numbers and its tables sequences,
that a page has at least 32 words (it has 512) and that the stack is not empty.

The prover has no induction over data that takes a predicate. `Climbs` and `Iterates`
replace it: by `Least`, which comes from the well-foundedness of inclusion among finite
sets, a set of naturals with 0 and all successors is all of them, and a recursive
function over the naturals exists. `Flattened` says that way what `FlattenSeq` makes of
a sequence of sequences.

The compositions that the runs `macnode`, `guest` and `loader` check are covered as well:
`DaemonUsesNode`, `MemoryIsServed`, `RunGraphIsExact`, `RunBindingsFollow` and
`RunThreadStorageAgrees` carry the theorems about components over to them.

Only model-checked is liveness, which the prover cannot do: `ShutdownCompletes`,
`ShownOrTold`, `PersistedOrTold`, `CommandsEnd`, `UnwantedStops` and `HealEnds`.

## Not modelled

`PROJECT.json` lists every part with its status. What is left out, and why:

- Contents of events, log and notification texts, reports and traces: data without
  consequence for the order of things. The periodic snapshot file reads the fused
  state and changes nothing.
- Authentication and the limits on bodies of requests; Windows process control.
- The bytes of files, headers and tables: a file is what the parsers give. So fat
  Mach-O files, the summaries for display of `parse_pe` and `parse_elf`, and
  the decoding of instructions are not here.
- SSE and MXCSR, `scasb`, `pmovmskb`; the redirections of three addresses of one
  `ld.so`, the presets of its allocator, and `apply_elf_runtime_relocations`, which
  are there for one fixture; the content of the first stack of a dynamic program.
- The platforms' interceptors and injectors, which refuse everything (their
  refusal is modelled in `LocalEngine`); `ReverseMapper`, which nothing calls;
  `executor/execution.rs`, whose registry nothing reads.
- Learning, off by default; the iteration of the bilateral network and training:
  floating-point numerics. M1, stages 5 and 7 and the glibc data are offline
  reports. The Python code is not part of the Rust program.

Assumptions of the models: a file does not change during one `daoti run` (`Requests`
is about the daemon, where it does); a static file has no header of another kind, and no
empty one, at the address of a PT_LOAD one; addends do not overflow; the windows of a combined load
are reserved together.

## Observations

Behaviour met while modelling that is no finding: no sentence of the repository
contradicts it clearly, it lies outside the models, or it is a disagreement of code and
comment that the models keep (as the code has it) without a run of its own:

- Actor: `sampling_secs = 0` panics in `tokio::time::interval` (`actor.rs:277`).
  `event_bus_dropped` cannot move, because the persisting task always subscribes.
  A damaged configuration parses as the defaults (`config.rs:449`), against `config.rs:378`,
  `:398` and `:430`, which say that the old one is kept.
- Bus: a subscription starts at what is sent next, not at the beginning, and the numbers it
  sees need not rise, against the comment at `eventbus.rs:70`.
- Node: the daemon's own cancel finds its mock idle and is refused (`http.rs:520`). A
  refused endpoint makes `execute_macos` answer "succeeded" from the mock. A Mach-O
  file in today's byte order is detected but not parsed, so `run_cross_platform`
  always fails on it.
- Heal: an outcome of "no action" is unreachable without a trained model, since the
  symbolic decision always names a pathway; the second sensing decides nothing.
- Mach-O: memory starts at `0x1000_0000`, so the `__PAGEZERO` of an ordinary
  executable is refused. The loader counts commands, the parser their bytes.
- PE: the stubs of `WriteConsoleA/W` do not translate the argument registers as that of
  `WriteFile` does. The section table is looked for at a fixed distance instead of
  behind `SizeOfOptionalHeader`.
- Static ELF: a thread-local block of more than two and a half pages reaches down into
  the stack, unchecked (`BlockFits`). The thread pointer is not the end of the block.
  A symbol or the slot of a resolver may be any writable word, of the stack too
  (`PatchesItself`); of two symbols with one address the later one counts (`RandomIsSet`).
  Two segments with one address get the words of the first, and are then refused.
- Dynamic ELF: the scope is in depth-first order, where ELF has breadth-first;
  the run gets no `TlsContext`, so `__tls_get_addr` answers 0; thread-local images
  beyond `0x3800` bytes are overwritten by the DTV.
- Kernel: `PREAD` beyond the end of a file panics (`syscall_bridge.rs:777`). In the
  emulation a signal sent to itself does not end the guest.
- Processor: `inc` and `dec` add to the carry that the comment beside them says they
  keep (`runtime.rs:3940`).
- Executor: closing any copy of a pipe's writer ends its reader; `brk(n)` grows by
  `n`; `munmap` and `ftruncate` ignore the length.
- B1: a network that iterates ends in a tanh and can only name the calls -1, 0 and 1;
  the ledger numbers descriptors by how many there are, so after a close an open may
  take a used one.
- `daoti run` of an unrecognised file answers 0 though nothing ran, and a program's
  exit code 1 looks like an error.

## Plan

Done: everything above. Left, in order of what it would add:

1. Proofs about the loaders' memory: that the images and windows of a combined load are
   apart for every set of objects.
2. A second terminal in `LifecycleProofs`: what remains true when two starts race (the
   port still has one owner), as a property of its own.
3. A second browser; stage 5's release of weights, if it gets a second writer.
