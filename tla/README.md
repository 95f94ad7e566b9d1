# A TLA+ model of ReSDMAC and its SCSI driver

ReSDMAC (`RTL/RESDMAC.v`) replaces the SDMAC of an Amiga 3000: it moves the data
of SCSI transfers between a WD33C93 (one byte at a time, on a DREQ/DACK
handshake) and memory (one longword at a time, as bus master of the 68030 bus)
through a FIFO, and gives the CPU access to the registers of the WD33C93. The
Linux driver that uses both (`Docs/LinuxCodeA3000SCSI`) is kept with it.

There are two models. The modules under `Resdmac` model the chip at the level of
its clock edges, with the machine around it. Those under `ScsiHost` model the
driver at the level of its interrupts, with the WD33C93, the SCSI bus and the
targets around it. They meet at dma_setup and dma_stop: the first has them as the
register accesses they make, the second as a DMA that is at some place in a
command's data. A small model of its own is about the transfer periods.

TLC checks all of them on small instances and TLAPS proves many of the safety
properties of the chip, the driver and the periods for every instance. Names are
those of the code; a signal is TRUE when it is asserted, whatever its polarity.

## 1. Inventory

| Part | State | Operations | Talks to |
|---|---|---|---|
| CPU_SM (`RTL/CPU_SM`) | state, registered outputs, clocked inputs, DSACK latch | drain the FIFO to memory (s1-s15), fill it from memory (s20-s35), bus request and release | FIFO flags and count, registers, bus; answers RIFIFO/RDFIFO |
| SCSI_SM (`RTL/SCSI_SM`) | state, registered outputs, clocked inputs, RIFIFO_o, RDFIFO_o, the DSACK pulse | one DMA byte (S2F, F2S), one CPU access (S2C, C2S) | FIFO byte pointer and pointers, WD33C93, CPU |
| FIFO (`RTL/FIFO`) | BUFFER, COUNT, WRITE_PTR, READ_PTR, BYTE_PTR | write by lanes, step a pointer, step the count, reset | stepped by both machines |
| Registers (`RTL/Registers`) | DMADIR, DMAENA, FLUSHFIFO, A1, ISTR, termination counter | CNTR, ACR, ST_DMA, SP_DMA, FLUSH, ISTR, CINT | CPU; STOPFLUSH from CPU_SM |
| Data path (`RTL/datapath`) | output, input, transmit and receive latches | steer lanes, bridge the halves of a 16-bit port | bus, FIFO, SCSI bus |
| Top level, PLL (`RTL/RESDMAC.v`, `PLL.v`) | AS, DS, LLW, LHW | wiring, clock phases | everything |
| Driver, DMA (`a3000.c`) | step of dma_setup/dma_stop, bounce buffer | the register accesses of a transfer; bounce or fail | ReSDMAC's registers, by CPU bus cycles |
| Driver, core (`wd33c93.c`) | hostdata: input_Q, selecting, connected, disconnected_Q, busy[], state, dma, level2, sync_xfer, sync_stat, incoming and outgoing message; each command's SCp | queuecommand, execute, interrupt handler, transfer_bytes and PIO, abort, host reset, /proc settings | mid-layer above, WD33C93 registers and DMA below |
| Driver, periods (`wd33c93.c:309-370`, `1850-1920`) | sx_table, fast, default_sx_per | table of the chip's periods, SDTR codes, the register for the target's answer | sync_xfer of the core |
| Driver, command line (`wd33c93.c:1760-1850`, `1926-2045`) | setup_args, setup_used | parse, and share the members out between hosts | settings of the core |
| WD33C93, SCSI bus, targets | external | selection, phases, messages, disconnection, reselection, interrupts | the core |
| 68030, arbiter, memory, WD33C93 | external | bus cycles, grants, answers, DREQ | the pins |

What is hard in the chip: six clock edges at which different registers change;
two state machines that step one counter through a one-bit request each; flags
that are sampled at one edge and used at another; a flush that must tell an empty
FIFO from one with a partial longword; memory that may answer at once (STERM),
later (DSACK) or as a 16-bit port; and an environment whose every delay is free.

What is hard in the driver: it has no thread of its own, so every path that frees
the bus must restart it; one chip command may cover many phases or one, and be
interrupted and resumed at any of them; what an interrupt means depends on state
set several interrupts before; a target may reselect just when another is being
selected; both ends may negotiate; and commands time out at any moment.

What makes each part correct:

* FIFO and its clients: the count never wraps, never gets two steps in a clock, loses no request, and agrees with the pointers.
* CPU_SM: one bus master at a time; each cycle answered before it ends; the flush writes what is there and nothing else; the bus is given back.
* SCSI_SM: DACK only for a DREQ that is there; one strobe of the chip for one access of the CPU, with the right byte; every access ends.
* The chip as a whole: memory or the chip receives the bytes that were sent, in order, with their values, and all of them by the time the driver is done; every transfer is finished.
* Driver core: each command is in one place; one command per unit, one connection on the bus; driver and target agree who has a command, how far its data are and how fast they go; the DMA runs only into the command it was set up for; every command is returned once, with the status its target gave.
* Periods: never faster than the target agreed, with the clock the chip really has. Command line (not modelled): every host gets its own settings.

`PROJECT.json` lists the components, including those left out, and under "hazards"
the places of the code where these can go wrong.

## 2. Modules

| Module | Models |
|---|---|
| `CPU_SM` | `CPU_SM.v`, `CPU_SM_INTERNALS.v`: CpuNext is next_state, CpuOut the outputs, CpuRegistered the three assigns at the end of the file, one action per clock edge |
| `SCSI_SM` | `SCSI_SM.v`, `SCSI_SM_INTERNALS.v` likewise |
| `Fifo` | `fifo.v` and its parts |
| `Registers` | `registers.v`, `registers_cntr.v`, `registers_istr.v` (FE), `registers_term.v`, `addr_decoder.v` |
| `Datapath` | `datapath*.v` |
| `Machine` | the driver (from `a3000.c`) and, external, the 68030 bus, arbiter, memory and WD33C93 |
| `Resdmac` | `RESDMAC.v`: composes the six; the wires are operators, the six clock edges its actions; the properties |
| `DmaStream` | the abstract specification: a stream of numbered bytes |
| `MCResdmac` | the transfers of the model checker |
| `ResdmacProofs`, `ResdmacCountProofs`, `ResdmacFlushProofs` | theorems about `Resdmac`, each module on the one before: bus, types, the CPU's accesses to the chip and the memory cycles; the count requests, the count and its pointers; how a flush ends and how much memory gets |
| `ScsiBus` | external: WD33C93, SCSI bus and targets, as the driver meets them |
| `Wd33c93` | `wd33c93.c`, with dma_setup and dma_stop of `a3000.c` |
| `ScsiHost` | composes the two under a mid-layer (queue, time-out, reset); the properties |
| `CommandService` | the abstract specification: what the mid-layer is promised |
| `MCScsiHost` | the commands and machines of the model checker |
| `HostBooks`, `HostProofs`, `HostTargets`, `HostTheorems` | theorems about `ScsiHost`, each module on the one before: types and the steps' effect on the books; the invariant of the driver; what the targets do meanwhile; the theorems |
| `SyncTransfer`, `MCSyncTransfer` | periods: round_period, calc_sync_xfer, calc_sync_msg, calc_sx_table, set_clk_freq |
| `SyncProofs` | theorems about `SyncTransfer` |

### The chip

**Time.** A clock period is the six steps CLK+, CLK90+, CLK135+, CLK-, CLK90-,
CLK135- in this order (variable `edge`). Every always block belongs to one of
them: the state machines and their outputs to CLK90+, clocked inputs of CPU_SM to
CLK135+, strobes and count to CLK-, registers and byte pointer to CLK90-, clocked
inputs of SCSI_SM to CLK135-, the output latch to CLK+. All registers of an edge
change in one step from the values before it (nonblocking assignment). The
asynchronous clears (RIFIFO_o by INCFIFO, DSACK by AS) happen in the step of the
edge that changes the clearing signal: `INCFIFO` in `cout'`, `AS_I'`.

**Data.** A byte of a transfer is its number, 0 anything else, `CpuByte` the byte
the CPU writes to the chip. Lanes, halves, bridges and byte pointer are kept, so
a byte in the wrong place is seen in `sink`, the sequence memory or the chip got.
The CPU bus has two drivers: `RESDMAC.v:75` puts DATA_O on the lines whenever
ReSDMAC owns the bus, also in a cycle in which it reads memory (there DATA_O is
what the registers put out, `REG_OD`). Byte k of memory that comes in while
DATA_O is driven is carried as -k through latches and FIFO to the chip: its place is still
known, its value is what the two drivers make of it.

**The machine.** `ClkRise` lets memory, arbiter and chip move, `ClkFall` the CPU.
Memory answers a cycle at any clock, as a port the transfer fixes; the arbiter
grants at any clock after BR; the chip requests at any clock. The CPU is running
the driver: CNTR, ACR, ST_DMA, the wait for the interrupt, CNTR, FLUSH, polling
FE, CINT, SP_DMA, CNTR. One assumption matters: the bus request has priority over
the *next* cycle of the CPU (`BusFree`), as in the 68030's own arbitration. The
driver's use of FE rests on it, because FE says nothing of a partial longword.

**Constants.** `DEPTH` (8 in the code), `Transfers`, `Ports`, `FlushWrites` (the
test bench flushes a memory-to-disk transfer, the driver does not), `ChipAccess`
(CPU accesses to the chip during a transfer), `MayAbort` (a dma_stop before the
chip is done, as in an abort or reset of the SCSI driver), `MemBytes`.
Transfers to an odd word (A1) come from the design's own support for them; the
Linux driver itself aligns to longwords (A3000_XFER_MASK).

### The driver

**Steps.** Interrupts are off and `hostdata->lock` is held while the handler runs,
so `Interrupt` (status register read, running DMA stopped, SCp brought up to date) and
each case of its switch are an action: `OnTimeout`, `OnSelect`, `OnData`, ...
A phase that the driver serves by hand leaves the CPU in it (`pc` = "pio", "sent",
"status", "message") until the chip interrupts; the polled transfer then ends in an
action of its own (`PioDone`, `SentDone`, `StatusRead`, and one per message:
`OnSave`, `OnReject`, `OnSdtr`, ...). wd33c93_execute is the action that follows
where the code calls it (`pc` = "execute"). wd33c93_abort disables the interrupt
line but takes no lock; its steps (`eh.at`) interleave with chip and targets.

**State.** `hd` is hostdata (queues as sequences, `busy` the set of id and LUN),
`scp` the SCp of each command, `engine` the place the A3000's DMA is at, `sr` the
interrupt under way, `req` and `eh` the mid-layer's view and the abort's. What
the driver does when it follows a NULL pointer, or sits in the `while (1)` of an
intrusive reselection (1367), is that it takes no further step.

**Data and messages.** Data are counted in units: `scp[c].ptr` and `engine.at` are
offsets in the command's data, and the target knows which unit it moves next.
Messages to a target are records, messages from it the bytes that the driver picks
up one by one, since incoming_msg is built from them across interrupts.

**The world outside** (`ScsiBus`). The chip runs select-with-ATN, level-2 commands
(with the command phase register that says where to resume), transfer-info and
abort; it interrupts once for a phase it was not told to serve, and keeps ACK
after a message. A target takes its command, moves data in any portions, gives GOOD or
CHECK CONDITION, disconnects and reselects whenever it likes. `Quirks` adds
what some do: not answering (slow), leaving the bus (drop), moving less than asked
(short), RESTORE POINTERS with or without data to be moved again (retry, restore),
SDTR or WDTR of its own, unknown messages, an SDTR rejected whole, rejected at
its first byte, or ignored; one such message per command.

**Configuration.** `setup` is chosen from `Setups` at the start and never changes:
the commands, the targets present, the quirks, and level2, disconnect, no_sync and
what the DMA set-up may find. So one run covers machines of many kinds.

**Periods.** In `SyncTransfer` a whole negotiation is one action (its
interleavings are in `ScsiHost`, where an agreement is only "sync" or "async").
What the chip's `clock` is and what the driver was `given` (a range by the
board, a number by the board or by `clock:`) are two variables: `set_clk_freq` works
on the second, `Period` on the first with the divisor the driver has chosen, so a
table made for another frequency shows.

## 3. Runs

| Run | Module | Shows |
|---|---|---|
| `transfers` | `MCResdmac` | reads and writes of every residue and alignment in any order, three kinds of port: FIFO handshake, flush, bus protocol, stream |
| `full_depth` | `MCResdmac` | DEPTH = 8 with more bytes than the FIFO holds, flushed writes, and a CPU that uses the WD33C93 meanwhile |
| `live` | `MCResdmac` | transfers finish, the flush and every CPU access end, the bus is given back |
| `three_bytes_left` | `MCResdmac` | *violated*: a flush with three bytes left goes on writing |
| `stop_hangs_bus` | `MCResdmac` | *violated*: SP_DMA during a bus request hangs the bus |
| `driver` | `MCScsiHost` | nine machines: default configuration; phase by phase; negotiations; messages in level-2 commands; drops, short transfers and no answer; settings changed; a tape with a REQUEST SENSE |
| `driver_aborts` | `MCScsiHost` | a command times out while queued, selected, connected or just returned, and is aborted; no disconnections |
| `driver_reset` | `MCScsiHost` | the abort of a disconnected command fails and the host is reset |
| `driver_live` | `MCScsiHost` | every command queued is returned |
| `sync_periods` | `MCSyncTransfer` | every input clock of 8 to 20 MHz, given as a number or a range, against the codes on both sides of each entry of the table |
| `lost_selection` | `MCScsiHost` | *violated*: a reselection that beats a selection with level2 on loses the command |
| `contended_writes` | `MCResdmac` | *violated*: ReSDMAC drives the data lines against the memory it reads |

Deadlock is checked, except in three runs whose system may really stop: in
`driver_aborts` and `driver_reset` an abort may leave the driver waiting for a bus
that hangs or for a command it can no longer follow, and `lost_selection` is about a driver that starts nothing any more.

**Properties of the chip.** `CountOneWay`, `RequestNotOverrun`, `RequestNotSwallowed`,
`CountNeverWraps` and `PointersAgree` are about the FIFO; `FlushWritesWhatRemains`
and `FlushNotDropped` about the flush; `OneMaster` and `CyclesAnswered` about the
bus; `DackAnswersDreq`, `ChipAccessOnce` and `ChipGetsCpuByte` about the SCSI port.
`StreamSpec` is the refinement: with `taken` the bytes the sender gave and `got`
what the receiver has of the transfer, every behaviour of `Resdmac` is one of
`DmaStream` with a capacity of 4 * DEPTH bytes: in order, none lost or doubled, and
complete when the driver's transfer ends. Of a read this is about the bytes themselves;
of a write it is about their places (k and -k count as byte k), and that they come with
their value is `MemoryReachesChip`, which does not hold (`contended_writes`). `TransferCompletes`, `BusReleased`,
`FlushCompletes` and `AccessTerminates` are the liveness.

**Properties of the driver.** `CommandsKept` joins the types with `OneCommandPerUnit`,
`OneConnection` and `NoCommandLost`: queues, selecting, connected and busy[] tell
one story. `TargetsAgree` compares that story with what the targets hold.
`DataInPlace` says that whenever the chip is moving data, DMA or PIO loop is
at the unit the target moves, for the command it moves it for, and the count
will tell SCp what is left. `ConnectionsUnderstood` is about the two moments
that depend on older state: a target leaves the bus, or comes back. `ReselectionEnabled`
(SRCID_ER is on while somebody is away), `TimingAgreed` (the register holds what was
agreed with this target), `MessagesEndWithConnection` and `LoserPutBack` are
about what is shared by all connections; `NoDmaAfterReturn`, `AbortedIsOver` and
`AwayIsOwned` about recovery. `CommandsServed` is the refinement: `ScsiHost`
implements `CommandService`, in which a command is performed at most once and
returned once, with the status given or the reason why there is none.
`EveryCommandReturned` is its liveness.

`NotFasterIfReachable`, `NoStepWasted` and `OffsetAgreed` compare what the register makes of
the chip's real clock with the target's answer. `NotFasterIfReachable` says by how much the chip may be faster: not at all where the driver was
given the clock as a number; by a quarter at most where it knows the range only, as the comment at
`wd33c93.c:1838` admits; and by 3/11 with 11 MHz, which is in no range and taken for 8, although the
documentation of clock: has 8 to 20 (`wd33c93.c:123`). "Agreed" is less 2 ns, which rounding
the table to codes of 4 ns may take away. `NoStepWasted` is not claimed where `fast:` was
set with another divisor than 4, where STR_FSS has no effect.

**Bounds of the chip.** DEPTH is 2 in most runs: full, empty, one in between, pointer wrap and
count wrap all occur, and transfers of up to 12 bytes are one and a half
times the FIFO, so both sides meet at both limits; every residue of a longword
occurs, aligned or not, below, at and above the size of the FIFO. `full_depth` repeats it for the real depth with 38 bytes, where FIFO and pointers wrap
too. The driver runs transfer after transfer in any order, so what one leaves
behind meets every next one. `MemBytes` caps the prefetch counter `mpos`; it is
never reached in a passing run. `strobes` saturates at 2. In `live` one read and
one write on a 16-bit port (where bridges and second cycles are) keep the graph small.

**Bounds of the driver.** Two or three commands: one is away or under way while
another is started, and a third waits; to two targets, or two units of one. Buffers
are one or two of one or two units, so a transfer stops inside a buffer and between
two. Commands are queued again for ever. A target shows a quirk once per
command; one command can time out. Periods are not bounded but for the codes,
which are those on both sides of every entry (in between nothing changes).

**Left out of the passing runs of the chip**: transfers whose last longword has three bytes
(and the empty read to an odd word), because there the code goes wrong; the
run `three_bytes_left` is about them. The values of the bytes of a write are left out of
`StreamSpec`, see above.

**Left out of the passing runs of the driver**, because there the code does not do what the property
says (lines of `wd33c93.c` unless named):

* an abort stops the DMA with status 0, so a bounce buffer is left for the next
  transfer to free and copy from (`a3000.c:149`, called from 1662);
* RESTORE POINTERS after which data move again: SCp has no saved copy to go back
  to (1009); and in level 2 it resumes the command with the count of a stopped DMA (1012);
* the mark that lets commands already queued disconnect is cleared when one of
  them is started on its own (549);
* the abort's test of the queues and its start are not locked: queuecommand on another
  CPU could start a command in between (1744);
* a first selection that times out marks the negotiation as begun (SS_FIRST), and only
  select-with-ATN sends one, so it is not begun again (853);
* the time-out of a selection is the one end of a connection that does not enable
  reselection (842);
* the abort takes any interrupt, a disconnection included, for its answer (1679): the
  command is returned and its target still has it. `AbortedIsOver` is therefore checked where nothing
  disconnects, and `AwayIsOwned` with level2:6: with 2 to 5, the target that comes back for such a
  command can leave one in disconnected_Q that has been returned;
* a host reset forgets agreements that the targets keep (1580), which matters if the
  new negotiation is aborted;
* a period slower than the table is given its last entry (319).

**Fairness** (`FairSpec`). `WF(Next)`: the clock runs. Strong fairness for the
answers of the environment, each possible at one edge only and so not
continuously enabled: the arbiter grants, memory answers, the chip requests while
it has bytes to move, RAMSEY ends an ACR cycle, the driver takes its next step
when the bus lets it. Nothing of ReSDMAC itself needs more than the clock.

**Fairness of the driver** (`LiveSpec`). The CPU runs the driver and takes its
interrupts, chip and data go on (weak fairness). Selections and reselections compete
for the bus, and a target that keeps disconnecting has the alternative over and
over, so selection, each reselection, and each target's going on with its data and
giving its status have strong fairness. A target is not obliged to disconnect.

**What the four violations say.** In `three_bytes_left`, s15 (or s1) sends a
residue of three bytes through the cycle of a full longword, and its DECFIFO
takes a longword off a FIFO that counts none; the count wraps to DEPTH and that
many longwords without data follow. In `stop_hangs_bus`, SP_DMA comes while CPU_SM
is in s21; DMAENA low holds the FIFO in reset, s35 never sees FIFOFULL, and the
burst goes on for ever with the bus held. In `lost_selection`, a command is being
selected alone for its first SDTR although level2 is on; a disconnected target
reselects first, and the handler looks for the loser in `connected` (1356), not in
`selecting`. The loser stays there, in no queue, and wd33c93_execute, which starts
nothing while a selection is under way (479), starts nothing again. In `contended_writes`
ReSDMAC reads memory for a write, as bus master and with DATA_O enabled (`RESDMAC.v:75`,
`OWN` alone). `datapath.v:113` computes an enable that depends on the direction (DOEL_), but
`datapath_output.v` takes it as an input and does not use it; the test bench sets DATA_I, which is behind the pins.

**A starvation.** A CPU that accesses the WD33C93 back to back, in phase with SCSI_SM,
keeps DMA bytes from starting (CCPUREQ has priority at each visit of an idle
state). `TransferCompletes` is therefore conditional: a transfer is finished
unless such accesses go on for ever. The driver waits for the interrupt instead of
polling the chip.

## 4. Proofs

`ResdmacProofs` proves, for every DEPTH, set of transfers and ports, with or
without flushed writes, chip accesses and aborts (assumptions:
`DepthAssumption`, `CpuByteAssumption`, `MachineAssumption`, evaluated by TLC on
every run of `MCResdmac`):

* **`CountOneWayHolds`, `RequestNotOverrunHolds`.** Neither is inductive. `RequestInv`
  adds when a request can be pending: from the last state of a byte (S2F_4, F2S_4)
  to the next clock, or one clock more when CPU_SM steps the count the other way just
  then; in that case CPU_SM is in s15 (or s35), where it steps nothing itself
  and so answers the request. Hence at most one request is pending, and none when
  the next byte ends. The facts about the tables are the lemmas `CountStates`,
  `NoCountStates`, `Registered` and `ScsiTable`.
* **`OneMasterHolds`.** `BusInv`: BGACK is registered exactly in the states from
  the grant to letgo; PAS only with it, and not on entering letgo, so AS (half a clock
  behind PAS) is gone before BGACK is; and the sampled grant with the sampled end
  of cycle imply that the CPU has no cycle, still at the next CLK90+, because
  the CPU starts none after granting.
* **`DackAnswersDreqHolds`.** `DackInv`: a sampled DREQ with no DACK is still there
  until CLK90+, and DREQ implies bytes left.
* **`TypesHold`.** Register ranges; the part that is not immediate is that the count
  stays in 0..DEPTH whatever steps it, that a memory cycle stays inside the port
  (`CycleInPort`) and that the buses carry bytes (`PathTypes`).
* **`ChipAccessOnceHolds`, `ChipGetsCpuByteHolds`.** `AccessInv` goes along an access
  of the CPU: address and CPUREQ sampled, one of the S2C or C2S states, the strobe,
  DSACK raised two clocks later and cleared by AS. It says at each place how many
  strobes there have been, that the CPU is still in its cycle, and that a new one
  cannot be sampled before the old DSACK is gone.
* **`CyclesAnsweredHolds`.** `CycleInv`: memory answers only under AS and keeps its answer
  until AS goes, PAS is only left with an answer, and while ReSDMAC has the bus nobody
  else drives DSACK, so what is latched is the answer to this cycle.

`ResdmacCountProofs` and `ResdmacFlushProofs` go on from there:

* **`RequestNotSwallowedHolds`.** That CPU_SM and SCSI_SM step the count for the same
  direction needs the driver: `StopInv` and `DirInv` say that DMADIR changes
  only with DMAENA off and both machines back at rest. Before that lies the SP_DMA cycle:
  `Stopping` says, by the counter that terminates it, how far each machine has come; `StepInv`
  and `AskInv` place the driver in its register accesses and CPU_SM's request for the bus.
* **`CountNeverWrapsHolds`, `PointersAgreeHolds`.** `CountInv` has eight parts that hold each
  other up. `RoomInv`: where a machine is about to step the count there is room for the
  longword, or a longword to go. A drain that starts with the FIFO empty is for a residue only,
  so the byte pointer must be known: `ByteInv` ties it to the bytes the chip has left, modulo 4,
  and `A1Inv` says when it started at the second word. FLUSH must be over before it can
  start a drain of nothing: `FlushInv` follows FLUSHFIFO from the CPU's cycle, through its
  sample in CPU_SM, to STOPFLUSH, and shows that the CPU is kept off the bus in between.
  That needs SCSI_SM at rest (`QuietInv`) with no byte left (`LeftInv`), and CPU_SM at
  home before and after (`OnInv`). `PtrInv` then compares the pointers with the
  count edge by edge. Both theorems have the hypothesis `Whole`, which says what the driver is taken to
  do: no transfer is stopped before the chip is through with it (`MayAbort` is FALSE), and no read
  leaves three bytes in its last longword. Neither part can be left out: with one of them dropped
  TLC finds `CountNeverWraps` violated (a FIFO flushed while the chip still sends; a drain of an
  empty FIFO, as in `three_bytes_left`). The runs `transfers` and `full_depth` satisfy it. It is
  the hypothesis of the next two, too.
* **`FlushNotDroppedHolds`.** `DropInv`: STOPFLUSH is registered with an empty FIFO, no step of the
  count with it and, out of s0, no partial longword, and nothing changes that until FLUSHFIFO
  falls half a clock later. `PartInv` does the same for the byte pointer of a write: the longword it is in
  the middle of is counted, or being filled, or the FIFO is being reset.
* **`FlushWritesWhatRemainsHolds`.** `DrainInv` is the account of a read: first offset + bytes given by the chip
  + half a longword if memory is in the middle of one = the byte pointer + 4 × the longwords in the FIFO
  + the place memory has got to. `Held` counts the longwords across the three edges at which the
  request, INCFIFO and DECFIFO take effect, `Lag` and `Put` the byte and the cycle that are
  only half over. What makes it inductive is where CPU_SM may be while memory is in the middle of a
  longword: at the odd first word (A1), in the second cycle of a 16-bit port (s6-s8), or at the end
  (`Done`: the residue is written or being written, and FLUSHFIFO and its sample are gone before s0 could
  start another). The bound follows because the FIFO never holds less than nothing. `PortInv` and
  `CycleRise90` say how many bytes each kind of cycle moves on each port; `SinkInv` carries the
  result over to when DMA is off.

`SyncProofs` proves `OffsetAgreedHolds`, `NotFasterIfReachableHolds` and `NoStepWastedHolds` for every
set of input clocks between 8 and 20 MHz, settings, codes and answers. `SyncInv` ties the
register to the answer it was computed from, and `TableKept` the period to
the frequency the table was made for. `ClockTold` says how that relates to the clock
the chip has: the same divisor; the same frequency if it was given as a number of some
range; at least 4/5 of it if the range was; and 8 for 11. The rest is
arithmetic on the table of periods (sums of at most eight steps of the clock).

### The driver

`HostBooks`, `HostProofs`, `HostTargets` and `HostTheorems` prove, for every set of commands,
buffers, targets, quirks and settings within `BusAssumption` and
`DriverAssumption` (evaluated by TLC on every run of `MCScsiHost`):

* **The invariant `Base`** (`BaseKept`) is the conjunction of: `Types`; `Books`, the
  places of the commands against busy[] and the mid-layer's requests; `AbortInv`,
  what an abort under way has done; `ChipInv`, which interrupts can come in which
  place of the driver; `SelectInv`, which of selecting and connected an interrupt
  is about (after a time-out the command whose selection it was, between selection and
  IDENTIFY the one connected); and `DmaInv`, that the DMA runs only for the connected
  command. None can do without the others: the books need to know which command an
  interrupt is about, which needs the chip's commands, which needs the books.
* **The hypothesis `Known`.** `Base` is inductive but for one thing: when a
  reselection is handled, its command must be in disconnected_Q, and no other connected.
  The code has no way out otherwise: it returns without a command for a target that
  waits on the bus (1451), or overwrites `connected` (1465), since the branch for
  `level2 <= L2_NONE` (1342) puts back the one in `selecting` only. Whether it is so depends on the targets, so it is a hypothesis of
  the lemma `BaseKept`, and `Understood` of the theorems: that the machine is `Staying`
  or `Calm`, or that the behaviour is one of those in which `Known` holds. A host reset,
  which the targets do not see, can lead out of them: a target comes back with a
  command the driver has given up.
* **`KnownHolds`** proves `Known` of `Staying` machines (disconnect:0, never set
  to 2), whatever is aborted or reset. `StayInv`: no IDENTIFY sent or about to
  be sent lets a target leave, a level-2 selection has SRCID_ER off, and no target is
  leaving or away. `OverInv` adds what an abort there leaves of a command at its target:
  nobody but the unit on the bus has one, and DISCONNECT has freed the bus
  (**`AbortedIsOverHolds`**).
* **`KnownHolds`** proves it, too, of `Calm` machines: no command times out (so none is
  aborted and the host never reset) and level2 is 1 or more, with every quirk, every
  disconnection and every race of selection and reselection. `CalmInv` relates the
  driver to its targets: a unit off the bus is idle, or is away or back with a
  command of disconnected_Q, or with one whose disconnection is still to be
  handled (`UnitsInv`); the unit on the bus serves the connected command
  (`BusInv`); an interrupt that ends a connection comes with its command connected
  (`EndInv`, and `Level2Inv` for the level-2 commands, which receive status and
  messages by themselves); the messages that announce the end have been read
  before it comes, byte by byte for the extended ones (`MessagesInv`); and a target
  may leave only after an IDENTIFY that allowed it (`IdentifyInv`). **`TargetsAgreeHolds`**
  and **`ConnectionsUnderstoodHolds`** follow. level2:0 is left out because the
  code starts level-2 commands with it and then, when a reselection wins, looks for
  the command in `selecting` only, where it is not (1342).
* **`CommandsServedHolds`** is the refinement: of `Calm` machines every step is a step of
  `CommandService` or a stutter. `ServedInv` follows a status from the target to
  the mid-layer. What a target has done is told by its phase (`GivenInv`); a command
  no target has, and whose connection is not just ending, has been given no status
  (`UntakenInv`); the status of a `complete` one is in SCp, in the chip's LUN register
  (level-2 commands) or in the byte just read (`StatusInv`); and when the interrupt
  comes that ends a connection, the driver will find the status given, or ILLEGAL
  if none was (`ToldInv`). An invariant of the driver alone would not do: the driver takes
  whatever the LUN register holds for the status (wd33c93_intr at SEL_XFER_DONE),
  which is right only because a level-2 command ends with the target's `complete`.
* **`MessagesEndWithConnectionHolds`**, for `Calm` machines none of whose targets drops off
  the bus (`Steady`). `AskInv`: the driver has something to say only while ATN is up, and no
  target is parting while it is. The hypothesis cannot be left out: if a target goes
  off the bus before it has taken the driver's answer to a message, outgoing_msg is left
  over, and TLC finds the property violated with `drop` and `unknown` together.
  The next selection overwrites it (wd33c93_intr at SELECT); a reselection does not.
* **`DataInPlaceHolds`**, for `Calm` machines whose targets ask for nothing they were given
  before (`Onward`). `DataInv` has five parts. `PlaceInv` is the account: of every command the
  driver has, the target's place is SCp.ptr or, while a transfer is under way, what SCp says
  will have been moved at its end less the chip's count, and it is 0 before the target has the command.
  It is inductive only because of what is true while nothing moves: `BuffersInv` (SCp.ptr
  + this_residual is the end of a buffer, whichever), `EngineInv` (the DMA's address is
  ahead of the target by nothing), `MoversInv` (the chip has a count and may go on with data only while a
  DMA or PIO loop serves it; a level-2 command resumed without one has count 0 or is at a
  command phase in which data are not served), and `TargetInv` (a target has moved nothing before it has the
  command, and RESTORE POINTERS is only ever sent by those that may). `Onward` cannot be left
  out: with the quirk `retry`, a target that asks for its data again from the place it had saved,
  TLC finds `DataInPlace` violated. The driver only accepts RESTORE POINTERS (1009), since
  "we can pretty much ignore" it (385), and the bytes go after those of the first time. And a
  level-2 command that RESTORE POINTERS resumes (1011) finds the count of a DMA that has been
  stopped.
* **`TimingAgreedHolds`**, for such machines on which every negotiation can be relied on
  (`Polite`). `NegInv` says where a negotiation is. For every target but the one on the bus,
  sync_xfer is what the target holds. For that one it is so too (`Still`), unless the two are talking:
  the driver's SDTR is in outgoing_msg or on its way out (`Asking`); the answer is on its way in,
  and tells what the target holds from its last byte on (`Answered`); the target has made an
  offer (`Offered`); the driver's own answer to that is still to be sent (`Owing`). No data can pass
  in any of the four, since ATN or a message is pending. `SyncInv` adds that the chip has the
  connected target's sync_xfer whenever a DMA is set up or the PIO loop runs. `Polite` has two
  parts, and with what either forbids TLC finds `TimingAgreed` violated. A target
  that sends an SDTR may neither drop off the bus (quirks `sdtr` and `drop`: the driver
  has set sync_xfer to the default, and its answer is never sent) nor ignore the
  driver's SDTR (`sdtr` and `mute`: the driver, still SS_WAITING, takes the target's later SDTR
  for the answer, 1063, and sends none). And where `resync:` or `nosync:` may be written, targets answer every
  SDTR with one of their own (`resync` with `reject`, or with `mute`): set_resync (1917) makes sync_stat
  SS_UNSET in the middle of a negotiation. A MESSAGE REJECT that comes then is not taken for the
  answer (1033), and sync_xfer stays what it was; an SDTR is answered with another, as if the
  target had begun (1063), and that one may be ignored.
* **`NoCommandLostHolds`, `OneCommandPerUnitHolds`, `NoDmaAfterReturnHolds`,
  `AwayIsOwnedHolds`** follow from `Base`.
* **`CommandsKeptHolds`, `LoserPutBackHolds`.** `OneConnection` and the put-back need
  that never one command is selecting and another connected. This is what
  `lost_selection` shows to fail, so they have the hypothesis `OneKind`: no
  reselections (`Staying`), or select-with-ATN only (level2:1), or level-2 commands only
  (`Negotiated`: every negotiation over and none to come, for which the proof
  shows that sync_stat stays SS_SET: `NeverSelects`).
* **`ReselectionEnabledHolds`**, for machines where disconnection is never forbidden
  (`MayLeave`). `ReselectInv`: SRCID_ER is on whenever disconnected_Q is not empty, also
  in the middle of a selection, since it is then set for that too.

### What is not proved

Safety, only model-checked: the refinement `StreamSpec` (it needs, beyond the count of bytes in
`DrainInv`, which bytes are where in the FIFO and its latches, and the same account of a write).
`TargetsAgree`, `ConnectionsUnderstood`, `CommandsServed`, `DataInPlace` and `TimingAgreed` where commands time out, and `AbortedIsOver` where targets disconnect, are
model-checked too.
Liveness (`TransferCompletes`, `BusReleased`, `FlushCompletes`,
`AccessTerminates`, `EveryCommandReturned`) and ENABLED are out of the reach of TLAPS.

## 5. Not modelled

Chip: reset in mid-operation; bus errors (BERR is ORed into DSACK, `RESDMAC.v:369`);
ISTR's interrupt bits, CINT's effect and the INT pin; PRESET, SSPBDAT, VERSION and the
DSP registers; register read data; the flash interface; the PLL's lock; metastability
and everything between clock edges.

Driver: chips without the advanced features (CSR_RESEL, 1335 and 1390-1434 of `wd33c93.c`);
a level-2 command that ends in another phase than 0x60; interrupts it does not know;
level2 changed while commands run, and level2:0; a second CPU, and preemption inside
wd33c93_abort; caches; a3000_intr's test of ISTR, probe and remove; the reset of other
boards; the ways registers are accessed; show_info and statistics. The comment that
documents period: gives a default of 500 where the code has 376 (DEFAULT_SX_PER);
the model has the code's.

Command line: wd33c93_setup and check_setup_args. They run before there is a command, on text, and what
they lead to is in the models already, as the settings a machine may have. Reading them shows two ways to
go wrong. setup_args[] points into the one static setup_buffer: a member that a blank of a later line
should keep (142-144) is read from the text of that later line (1774). And with `fast` and a host with a slower clock, or
with `proc`, a member meant for one host is left to the next (2015, 2024).

World: parity errors, tagged queues, other initiators, the mid-layer's retries.

## 6. Plan

1. The chip: `CPU_SM`, `SCSI_SM`, `Fifo`, `Registers`, `Datapath`, `Machine`,
   `Resdmac`, refinement of `DmaStream`, first theorems. *Done.*
2. The driver: `ScsiBus`, `Wd33c93`, `ScsiHost`, refinement of `CommandService`,
   `SyncTransfer`. *Done.*
3. Prove. *Done:* accesses, cycles, count requests, the count and the flush of the chip; periods; the books of the
   driver, its agreement with the targets, the step simulation of `CommandService`, the
   place of the data and its timing.
   *To do:* the step simulation of `DmaStream`.
4. Extend: reset (both machines leave it at different edges) and BERR; the interrupt
   side of ISTR with INTA, CINT and a3000_intr, against an abstract interrupt
   (no interrupt lost, none served twice); chips without advanced features.
