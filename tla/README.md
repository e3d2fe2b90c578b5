# CoreJack in TLA+

CoreJack is a SystemVerilog platform that puts one of several RISC-V cores on an
AXI fabric with a banked SRAM, an interrupt controller, a DMA engine, a debug
module and a UART loader, together with the scripts that describe, extend and
check its cores and boards. This directory holds TLA+ models of the platform's
own logic and of those scripts, TLC configurations that check them on small
instances, and TLAPS proofs that hold for every size. `PROJECT.json` lists,
machine-readably, the components, the runs, the source lines each definition
stands for, a mutation for each property, the hazards of the code and the
theorems.

## The system

| Part | Source | Here |
|---|---|---|
| AXI bridge to the memory | `rtl/bus/soc_axi_to_mem.sv` | `AxiToMem` |
| Banked memory: crossbars, ports, banks | `rtl/mem/soc_mem_ss.sv`, `soc_mem_port.sv`, `soc_mem_bank*.sv` | `MemSS`, `MemPort`, `MemBank`, `MemMap`, `InOrderMem` |
| AXI bridges to APB, register files, debug module | `rtl/bus/soc_axi_to_{apb,reg,dm}.sv` | `AxiSide`, `AxiToApb`, `AxiToReg`, `AxiToDm` |
| RV32 core path: OBI buffer, router, OBI-to-AXI | `rtl/mem/soc_obi_mem_buffer.sv`, `rtl/top/soc_top.sv`, `rtl/bus/soc_obi_to_axi.sv` | `ObiPath` |
| Adapters of CVW, PicoRV32 and SERV | `rtl/cores/corejack_cvw_ahb_adapter.sv`, `corejack_{picorv32,serv}_socket_adapter.sv` | `CvwAdapter`, `NativeAdapters` |
| CVA6 reset isolation, ndmreset acknowledge | `rtl/bus/soc_axi_reset_bridge.sv`, `rtl/top/soc_top.sv` | `ResetBridge` |
| Interrupt controller | `rtl/platform/soc_plic.sv` | `Plic` |
| UART SRAM loader and its host script | `rtl/platform/soc_uart_sram_loader.sv`, `bin/uart_sram_load.py` | `UartLoader` |
| Zephyr DMA driver, as seen over the iDMA's registers | `sw/zephyr/drivers/dma/dma_corejack_idma.c`, `rtl/platform/corejack_idma_socket_adapter.sv` | `IdmaDriver` |
| Descriptor checks, Make settings, support matrix | `bin/validate_target.py`, `bin/render_support_matrix.py` | `Descriptors`, `YamlLines` |
| Scaffolds and version sweep | `bin/create_core.py`, `bin/create_board.py`, `bin/bump_version.py` | `RepoTools`, `YamlLines` |
| Checkout of a core's sources | `bin/deps_core.py` | `DepsCore` |
| Check of the crossbar's address map | `bin/check_axi_addr_map.py` | `AddrMap` |
| Other core adapters, crossbar, CLINT, UART, debug module, iDMA engine, FIFOs, arbiters, `axi_isolate`, cores | third-party, or wiring of it in `rtl/` | only as the surroundings of the modules above |
| Report filters, test benches, boards, sample software | `bin/`, `tb/`, `rtl/platform/fpga/`, `sw/` | not modelled |

How they interact: a core's request passes its adapter and `ObiPath` (or, for
CVA6, `ResetBridge`) and goes either straight to a port of the memory or through
the crossbar to one of the bridges. The iDMA and the crossbar reach the memory
through `AxiToMem`. The loader writes through a memory port of its own while it
keeps the core in reset. Devices and the iDMA interrupt through the PLIC, which
itself sits behind `AxiToReg`, as the debug module sits behind `AxiToDm` and the
UART and the DMA registers behind `AxiToApb`. Which core is behind which adapter
is said by the descriptors: Make asks `validate_target.py` before it builds,
`deps_core.py` fetches the core, the scaffolds add a core or a board, and the
support matrix documents what is there.

## From the source to actions

* *One action per clock edge* (`AxiToMem`, `ObiPath`, `ResetBridge`, the three
  bridges, the adapters, `Plic`). All registers change at once from the values
  before the edge; the inputs of the edge (readies, valids, responses) are
  quantified. What the surroundings do between edges is an action of its own.
* *One action per handshake* (`MemPort`, `MemBank`, `MemSS`). An edge performs
  several handshakes at once, each decided by the state before the edge. Taken
  in the order Hold, Return, Issue, Fill, Deliver, Grant, Error, Accept, every
  one of them is still enabled when its turn comes: the earlier ones only make
  room downstream or touch other registers. So every run of the RTL is a run of
  the model (which has more), and what holds in every state of the model holds
  at every edge.
* *One action per atomic step of a program* (`IdmaDriver`, `UartLoader`). In the
  driver a step is what runs under the spin lock, or a register access outside
  it; the interrupt may come between any two steps of a thread that does not
  hold the lock. In the loader a step is a byte, a memory handshake or an edge
  at which two machines of the loader observe each other.
* *One action per file written or command run* (`RepoTools`, `DepsCore`). A run
  of a script can be cut between two of them, and is followed by other runs and
  by edits. What a script only computes from files is an operator
  (`Descriptors`, `YamlLines`); a loop whose end is a question of its own is a
  step per turn (`AddrMap`).

Data is abstract wherever no property looks at it: an address counts words, a
byte enable is the set of halves or bytes it selects, read data is the number of
the word read, a transfer is its id, a descriptor is the record of the scalars
it has. The arithmetic that can go wrong is kept: pointers that wrap at a depth
that is no power of two, the range check of an address, ids that wrap, byte
lanes and access sizes, priorities that are truncated, the granule of the RAM.

## Modules

**AxiToMem.** The read and the write engine of the bridge share no state;
`Edge(e, in)` is an edge of engine `e`. `reqq`, `idq`, `rspq` are the three
FIFOs, `outstanding` and `pending_q` the two counters; `mem` is the memory's side
(a queue, since `MemSS` is shown to answer a port in order) and `acc`, a history
variable, the accepted transactions. A response that belongs to nobody (an
`rvalid` shared with the other engine) is an input like any other. The
composition `MCMemParts` puts an initiator in front that copies, as the iDMA
engine does: it takes a read response only while it has room for the word, and
has write data only once it has read some (`Copies`, `held`). The one way in which
the engines can wait for each other goes through it: were writes held up by reads
that are on their way, the copy would never end.

**MemMap, MemPort, MemBank, MemSS.** `MemMap` holds the geometry. `MemPort` is
the ingress FIFO, decode, and reorder buffer; `MemBank` the input FIFO, the
claims on the output FIFO, the read pipeline and the slice; `MemSS` joins them
with a lock-in round-robin arbiter per bank and one per port. `rr_arb_tree` is
third-party: who wins when the favoured input does not request is left open.

**InOrderMem** is the abstract specification: one flat memory, every accepted
request taking effect once, the requests of one port to one word in order,
responses in order, errors outside the memory. `MemSS` implements it under the
refinement mapping `QueueView`, `HalfView`: a port's queue is its reorder buffer
followed by its ingress FIFO, and an access has taken effect when its bank has
issued it.

**AxiSide, AxiToApb, AxiToReg, AxiToDm.** `AxiSide` is the initiator and what
the three bridges have in common: the choice between a read and a write, the
captured beat, the responses. The others add their state machines.

**ObiPath.** The buffer, the router and the bridge in one module, because their
handshakes are combinational. The instruction path is the same circuit without
writes. The buffer's FIFOs lose a push into a full one, even when an entry leaves
at the same edge (`Fifo`), so a grant that came too early would show. `BeyondBus` addresses exist for the 64-bit instance behind the debugger
only; they are let into the path so that the error state of the bridge is
exercised.

**CvwAdapter.** `state_q` and the captured registers; `ap` and `dp` are the
transfers in the core's address and data phase, which overlap. The core may take
back the next transfer in the first cycle of an error, as AHB allows.

**NativeAdapters.** The outstanding flags of both adapters (`kind` says which)
and what the core sees. Both adapters are reset here with an empty path behind
them; a reset that catches a request in the path is the subject of
`obi_path_reset`.

**ResetBridge.** The bridge's held copies, the window (`Isolate`), the
acknowledge, and `axi_isolate` by its states and counters. `Ndmreset` happens
between edges: the core drops its valids asynchronously.

**Plic.** Registers as sets; the selection loop as the recursive function
`Round`. The hart claims, serves and completes one interrupt at a time while
software rewrites priorities, enables and threshold at any moment.

**UartLoader.** The loader, the script, and a line that loses bytes. The loader
resynchronises by a timeout of a second, the host gives up after two. The script
may also be started again by hand, after a run that failed or that was told not
to start the core (`--no-go`), and in the middle of a command.

**IdmaDriver.** `config`, `reload`, `start`, `stop`, `get_status` on several
threads and from callbacks, and the interrupt handler, over one queue of copies
whose ids wrap at `IdMod` (2^32 in the source). `Stoppers` says who stops which
channel.

**Descriptors.** `CoreCheck`, `BoardCheck`, `TargetCheck`, `Validate`, `Config`,
`ListedTargets`, `BannerCheck` and `BannerResolves` are the entry points of
`validate_target.py`; each conjunct is one of its `fail` calls. `RenderOK` and
`Render` are the support matrix. A template (`fpga.work_root`, ...) is text with up
to two fields in braces, expanded to a sequence of pieces; `Spelling` gives each
name its text, and a field between two pieces can make two names give one text. What
`Path.resolve` does to a work root (`..`, links) and format specifications in
braces are left out. The checks are no stricter than the script: escaped braces
count as the field they spell, empty braces and any closing line pass the banner
check, and any key of `corejack.core` that is two spaces in passes for a target.

**YamlLines.** A text is a sequence of lines (a key, an item, a comment, a blank
line) with their indentation. The readers and the writer, which the scripts
implement separately, are folds over it.

**RepoTools.** The repository as the scripts see it, with one action per write
of `create_core.py`, `create_board.py` and `bump_version.py`. `corejack` holds
the lines of `corejack.core` that the edits look for, in order, so that an edit
can move the text the next one needs: a replacement is an insertion before or
after the first place where a sequence of lines stands. `Kill` cuts a run, `Edit`
is a developer.

**DepsCore.** One action per git command. `dir` is what is on disk: nothing, a
copy without `.git`, or a checkout with a remote, commits and a head.

**AddrMap.** `Resolve` is a turn of the loop over the pending parameters,
`NextPass` the next pass, `Check` the verdict. Sums, differences and products are
resolved; a declaration with a division is not, since the script's `//` is a
comment in SystemVerilog and its `/` has no rule.

## Runs

Several runs hold modules that do not interact in one state space: a variable
(`part`, `kind`, `tool`) says which of them moves while the others rest. The
properties then speak of every one of them; a property of the composition is
named for what it says of them together (`CoreServed`, `ToolsEnd`, ...).

| Run | Instance | States | What it shows |
|---|---|---|---|
| `mem_parts` | a bank with a two-cycle slice, or a port with a 3-slot reorder buffer, or both engines of the AXI bridge with bound 2 and FIFOs of 1 at an initiator that copies one word at a time | 42 476 | claims cover results, no result is dropped, the ring is consistent; the bridge's FIFOs stay in step (`InStep`), each beat answers the oldest transaction (`BeatIsOldest`), every one is answered (`Progress`) |
| `mem_ss` | a 32-bit and a 64-bit port, two banks of one word | 193 780 | `ImplementsFlatMemory`; tags are neither lost nor doubled; locked arbiters are sound |
| `mem_ss_fair` | three ports at one bank, one of them deaf | 9 369 | the others are served for ever (`Served`) |
| `bridges` | each bridge, five kinds of beats, targets that fail | 202 704 | exact accesses and responses, APB phases, fair choice between reads and writes |
| `core_side` | the OBI path with five kinds of requests and one reset, the PLIC with 2 sources and 4 priorities, the AHB adapter with every aligned transfer of two words, both native adapters | 44 988 | the path is one queue and touches exactly the enabled bytes; the gateway is kept; the adapters issue each request once and answer with its own response; nobody waits for ever |
| `obi_path_reset` | device reads, one reset | stops at the counterexample | see Findings |
| `resets` | the reset bridge with 2 writes, 2 reads, 2 resets; the loader with a 3-byte image in two chunks, 2 lost bytes or early restarts, 2 tries | 235 760 | the fabric sees no broken handshake, the core no foreign response, resets end; what was acknowledged is in memory, the last answer gets out, nobody hangs |
| `idma_driver` | 2 channels, 2 threads, a thread stops one channel and callbacks the other, ids wrap, 3 copies | 115 642 | truthful callbacks, exact status, launched transfers on record, a stop silences, every transfer ends |
| `idma_driver_stops` | 1 channel, both threads stop | stops at the counterexample | see Findings |
| `tools` | two cores and a board, two new cores and a new board, two versions, two runs and one edit for each kind of condition of the checks; two upstreams, three revisions, two cuts and pin changes; maps of up to three rules; all texts of up to four lines | 236 320 | see below |
| `new_core_again` | the same without edits | stops at the counterexample | see Findings |
| `stale_copy` | the same | stops at the counterexample | see Findings |

What `tools` shows, one property each. `ScaffoldChecks`: a scaffold that ends
passes the checks, is hooked into the targets, and leaves sound boards sound.
`Harmless`: no single write of a run, cut or not, makes a sound core or board fail
its check, with two exceptions that the code has: the board a new core is for
fails from the moment it lists the core until the core's descriptor is there, and
if that board had listed no core (which means any), a core that lists it fails
with it. The second takes two edits of the descriptors to reach; the run makes
one, the proof any number.
`VersionsInStep`: all `.core` files have one version, unless a sweep was cut.
`CheckedBuildable`: what target-check accepts has settings, a wrapper (the first
core's, if the template names the core) and a core type of its own; two cores of
one board get two work roots unless the template escapes the braces of `{core}`;
the expected banner comes out unless a line has empty braces or the closing line an
unknown field; and if all checks pass, the matrix renders and the list of targets
comes out. It is no more than that: see the notes under Findings. `MatrixTruthful`: the support matrix promises what Make
accepts. `LinkedIsPinned`: a run of `deps_core.py` that succeeds on a git
checkout links the pin. `FixpointReached`, `VerdictExact`: the address map check
resolves all it can and judges rightly. `ReadBack`: what the YAML writer adds,
the readers find, and nothing else changes. `ToolsEnd`: the passes end, and
reruns of `deps_core.py` succeed in the end.

**Why the bounds are enough.** The FIFOs of the memory's ports and banks and of
the OBI path are at least as deep as it takes for one to be full while its
neighbour is neither full nor empty. At the AXI bridge both engines run at once and
FIFOs of one entry fill at once: the admission bound exceeds the depth of the
response FIFO, as on the iDMA and CVA6 legs, so the memory is held off and a second
transaction waits behind (deeper FIFOs are covered by the proofs). The reorder buffer of `mem_parts` has three
slots so that its pointers wrap at a number that is no power of two. Two ports
and two banks give both the conflict (same bank) and the overtaking (other
bank, error) case; the third port of `mem_ss_fair` is the one the round-robin
could forget. Two resets let a second one meet the leftovers of the first, and two
requests of each kind let one be cut off and the next be the first of the new
period. The driver's ids start just
below the wrap. Two runs of the repository tools are one to leave something
behind and one to meet it, and the edit in between breaks one condition of the
checks (each kind of condition, where several fields share it, for one of them). Three rules are the least with neighbours that are not all pairs,
and four lines hold a list, something before and something after it, and a
comment or blank line. A text has the key of the list at most once, as every
descriptor of the repository does. `CHECK_DEADLOCK FALSE` stands where a bound
(or a program that has finished) ends a behaviour.

**Fairness.** Weak fairness only, and only of steps the design takes by
itself: a clock edge, a register update, rstgen's release, the loader's and the
script's next step. The two exceptions are strong: a driver call that has begun
goes on although interrupts come between its steps, and a network that is tried
again and again gets a fetch through. Of the surroundings: targets keep taking
and answering what they are given, the memory keeps granting and answering each
engine, the copying initiator writes what it has read (it need not start a read), an initiator that claims to be attentive
takes its responses, the debugger does not hold `ndmreset` for ever, the host's
and the loader's timers expire, and a developer reruns a failed checkout. Nobody
is made to start a request. Fairness of an edge with all readies high is the
weakest of these that an edge-per-action model can state: the surroundings are
cooperative again and again, not always.

## Findings

* `idma_driver_stops` (`sw/zephyr/drivers/dma/dma_corejack_idma.c:306`). Two
  threads stop one channel at once; the faster one returns, a start launches a
  new transfer, and the slower stop, woken later, marks the channel free while
  that transfer runs. Its completion is then never reported. `idma_driver`, with
  one context stopping each channel, has no such behaviour.
* `obi_path_reset` (`rtl/top/soc_top.sv:348`). The comment says that in-flight
  responses drain in the window before rstgen releases the core. A target that
  is slower than the window, such as the DMA's NEXT_ID read into a full queue,
  answers the released core instead.
* `new_core_again` (`bin/create_core.py:258`). `make new-core` works once. It
  looks for `core_cvw` directly followed by `core_region` in `corejack.core` and
  writes the new core between the two; the next new core does not find the fpga
  marker any more and fails, with its enum member already added.
* `stale_copy` (`bin/deps_core.py:132`). A directory without `.git` is taken for
  an exact copy of the pin. When the pin changes, the run succeeds and links the
  old revision.

Noted in reading and not given a run:

* `soc_axi_to_apb.sv:40` describes its split as "matching soc_axi_to_reg", but
  after a failed first half the APB bridge leaves the second transfer out and
  the register bridge makes it. `AccessesExact` states each behaviour as it is.
* `docs/source/dependency_management.rst:93` calls the version sweep atomic. A
  sweep that is cut leaves two versions, and `bump_version.py` then refuses to
  run; `VersionsInStep` excludes it.
* A checkout cut between `git init` and `git remote add`, or one whose upstream
  was changed in the descriptor, is never repaired: every rerun of
  `deps_core.py` fails. `ToolsEnd` names this as its premise.
* A new board lists the default core, which does not list the board back, so
  board-check fails on it until the developer adds it there. `ScaffoldChecks`
  asks for the rest of board-check.
* `bin/validate_target.py:887` and `:889` ask for `{core}` and `{board}` in a work
  root "to keep board builds isolated" and "to keep core builds isolated". Two
  boards may still share one: a name can end where the text after it begins. A
  template that escapes the braces of `{core}` gives all its cores one work root. Nothing
  compares the work roots, so `CheckedBuildable` speaks of the cores of one board.
* target-check looks for the FuseSoC target as a key two spaces in, and so takes a
  fileset or a parameter for one; it expands a wrapper for the first core only.
* A DMA callback that stops its own channel is still followed by the callbacks
  of the blocks found retired with its own (`dma_corejack_idma.c:400`).
* After a script restarted in the middle of a command, an answer to the old
  command may be taken for one to the new; `LoadTruthful` excludes that case,
  `NobodyStuck` does not.

## Proofs

TLAPS checks eight modules. Their theorems hold for every value of the constants
that satisfies the named assumptions, each of which TLC evaluates on the
instances of the runs:

| Assumption | Asks for |
|---|---|
| `DepthAssumption`, `EnginesAssumption`, `RangeAssumption` (`AxiToMem`) | a positive admission bound and positive depths; the engines are the read and the write one; an address out of range is an address |
| `GeometryAssumption`, `BankAssumption`, `PortAssumption`, `ReqsAssumption` (memory) | a positive number of banks and of words, positive depths, an even base address, a memory inside the address space, requests of the right form |
| `AxsAssumption`, `WBeatsAssumption`, `NoneAssumption` (`AxiSide`) | the form of a beat |
| `PathAssumption` (`ObiPath`), `TransfersAssumption`, `AccessesAssumption` (`MCCoreSide`) | the form of a request, of an AHB transfer, of a native access |
| `PlicAssumption` | at least one source and one bit of priority; that 2^`PrioWidth` is a positive natural, which the provers do not know |
| `BridgeAssumption` (`ResetBridge`) | natural bounds |
| `LoaderAssumption`, `PowersAssumption` (`UartLoader`) | bytes that hold the three commands, chunks whose length fits its field, an image inside the address space; the laws of powers, of which the provers know nothing |
| `DriverAssumption` | `IdMod` even, and more than twice the copies of a behaviour, as in the signed comparison of ids; `Isr` is no thread |
| `AddrMapAssumption`, `DepsAssumption`, `FirmwaresAssumption` (tools) | declarations in which no name stands twice, pins and upstreams of the right form, a section for each firmware |
| `SpellingAssumption`, `NamesAssumption`, `BoardEditsAssumption` (tools) | two names are two texts, every name has one, and a work root, however edited, is a template |

The property one wants is seldom inductive, so each proof has an invariant of its
own; what it adds is where the argument is.

* `BridgesProofs`, about `AxiToMem`: a beat carries the id, data and error of the
  oldest transaction (`BridgeCorrect`, `AlwaysInStep`, `TypeCorrect`). Nothing in
  this speaks of transactions still on their way. `InStep` adds `Aligned`:
  response FIFO, memory and request FIFO, one behind the other, are the accepted
  transactions in order, the id FIFO runs alongside, and `pending_q` equals what
  the memory owes. Every edge pushes or pops at the seams between these segments.
  The source's own conservation and never-stalled assertions follow.
* `BridgesProofs`, about the bridges to APB, register files and debug module:
  `AccessesAlwaysExact`, `ResponseAlwaysRight`, `ApbPhasesHold` (an action
  property) and `PassedAtMostOnce`, the half of `NobodyStarves` that is a safety
  property. `BridgesInv` says for every state of each machine which accesses of
  the captured beat have been made and what of the response is known; `TurnInv`
  relates the last kind served to who has been passed.
* `MemSSProofs`: a bank alone (`BankTypeCorrect`, `ClaimsAlwaysCovered`,
  `NeverDropsResult`) and a port alone (`PortTypeCorrect`, `RingAlwaysConsistent`,
  with the modular arithmetic of the ring for any depth); then the subsystem.
  `LockedAlwaysRequest`: a port's head request stays until granted, and its reorder
  buffer cannot fill otherwise. `PartsKeepPromises`: ports and banks still keep
  these promises when joined, since what they are given meets what they assume.
  `TagsAlwaysUnique`: `PartsInv` says that each tag owed to a port has exactly one
  place among all stages of all banks; a grant, an issue or a return moves it.
* `MemViewProofs`, `FlatMemProofs`: `SubsystemIsFlatMemory`, the refinement of
  `InOrderMem` for any ports, banks, depths and latencies. `WaitInv` adds that an
  access waiting in a bank is the one its reorder slot stands for (`FaithfulInv`)
  and that the accesses of one port wait in a bank in the order of its slots
  (`InOrderInv`). `ViewsAre` and `QueuesAre` say what each action does to the
  abstract queue and memory: an issue makes one access take effect, and it is the
  first of its port for that word; an accept, a refusal and a delivery are the
  abstract ones; all else is a stutter.
* `CoreSideProofs`: the OBI path (`PathSafe`, `PathAlwaysQueue`,
  `AccessAlwaysExact`), where `PathInv` says that the stages hold the accepted
  requests, cut at the stages, and the arithmetic of strobes and lanes is done once
  for all aligned runs; the PLIC (`GatewayAlwaysKept`), where the selection loop is
  a recursive function and its result is shown by a minimal counterexample over the
  rounds; the adapters (`AdaptersAlwaysExact`), whose invariants say for every state
  which transfer of the core the OBI side is busy with.
* `ResetsProofs`, about `ResetBridge`: `BridgeSafe`, `FabricNeverDisturbed`,
  `CoreAlwaysSeesItsOwn`, `NothingEverOutlives`. `BridgeInv` says that the counters
  of a channel are what is in flight, on either side of an isolation, that a
  request shown to the fabric is held until taken, and that AW and W are in step.
* `ResetsProofs`, about `UartLoader`: `LoadAlwaysTruthful`. As long as no byte was
  lost and no command disturbed, loader and host are in one of a few phases of an
  exchange (`Exchange`); each phase says what the line still carries, which digits
  of address and length the loader has, and which bytes are stored. That a number
  sent digit by digit is the number received is proved from the laws of powers.
* `IdmaDriverProofs`: `DriverSafe`, and from it `CallbacksHold`, `StatusHolds`,
  `LaunchedHolds` and `StopHolds`. `DriverInv` relates every channel, every
  context's position, the interrupt handler's and the history of transfers. All are
  proved under `OneStopperEach`, that no two contexts stop the same channel: the
  premise whose absence `idma_driver_stops` shows to matter. Ids wrap; that the
  signed comparison orders them is `RetiredMeans`.
* `ToolProofs`, about the address map: `MapInvariant` says where every declaration
  is (pending, put off or resolved) and that a value, once given, was computed from
  values that do not change; `FixpointAlways` follows. `VerdictAlwaysExact` rests on
  a lemma about the sorted order: if some two windows overlap, some two neighbours
  do.
* `ToolProofs`, about `deps_core.py`: `CheckoutInvariant` says, for every step a run
  can be at, what the checkout then holds; `AlwaysLinkedAtPin` follows.
* `ToolProofs`, about the repository: `VersionsAlwaysInStep` (`VersInv`: in a sweep
  the files done have the new version, and it is the platform's once `corejack.core`
  is among them); `MatrixAlwaysTruthful` and `CheckedAlwaysBuildable` (`DescInv`:
  all that the tools and the developer leave are descriptors, however edited; the
  rest follows from what each check has established; for the work roots `RootInv`,
  that each is a template and each name has a text, and `ExpandApart`, that a
  template with a field keeps two texts in that field apart); `AlwaysHarmless`, an action
  property (`HarmInv`: a run has taken a number above all others and a name nobody
  has, and the lemmas on text edits say that an insertion keeps every other line and
  every target).

Only model-checked:

* liveness, which is out of the provers' reach: `Progress`, `Served`,
  `NobodyStarves`, `EveryTransferEnds`, `CoreServed`, `ResetEnds`, `NobodyStuck`,
  `ToolsEnd`;
* `ReadBack`: what the folds over YAML lines compute takes induction over the text;
* `ScaffoldChecks`: it needs the exact order of the lines of `corejack.core` after
  any number of edits, and holds for the file as it is, not for any;
* the properties of the violation runs.

## Mutations

Next to a definition stands, where a property needs one, a variant of it that
carries a plausible bug (`RobFullLate`, `IsolateInReset`, `LookNoCheckout`, ...).
Nothing uses these variants; each property is violated when the variant takes
the place of its neighbour.

## Not modelled, and why

* Third-party blocks: the cores, the crossbar, `axi_demux`, CLINT, UART, the
  debug module, the iDMA engine. Their documented behaviour is what the models'
  surroundings do. With them go the adapters that only wire a core (Ibex,
  CV32E40P/S/X, CVA6) and the CVA6 router, whose order per id is `axi_demux`'s.
* Bit-level serial timing: the loader's model moves whole bytes. A byte that
  arrives during a memory access (`soc_uart_sram_loader.sv:311`) would be
  dropped; the baud rate keeps that from happening.
* A lost header byte in the loader protocol shifts the bytes after it. There is
  no checksum, and `LoadTruthful` excludes it. `--capture-seconds`, `--expect`
  and the script's argument checks.
* Argument checks of the driver; the error code of a refused start, which reads
  `chan->busy` after the lock is released (`dma_corejack_idma.c:256`) and may
  name the wrong reason.
* Of the scripts: their messages, the texts of the scaffolded files, quoting in
  YAML, the pattern that finds a module declaration in a file, an explicit
  `--core-type`, and the file `deps_core.py` deletes from the PicoRV32 sources.
  `check_tools.py`, `check_vivado_cdc.py`, `check_vivado_warnings.py`,
  `postprocess_drawio_svg.py`, `vivado_tcl_to_flist.py` and
  `fpga_debug_acceptance.sh` are one pass over a text or a list of commands; a
  property of theirs would repeat their regular expressions.
* Limits that rest on an assumption about the surroundings: software writes only
  priorities that fit `PrioWidth` (`soc_plic.sv:170`, wider ones are truncated);
  CVA6 has fewer than 32 transactions outstanding at `axi_isolate`
  (`soc_top.sv:476`). A bus error at PicoRV32 and SERV, which only simulation
  reports.
* Clock and power domains, FPGA primitives, simulation preload of the memory,
  test benches, boards and sample programs.
