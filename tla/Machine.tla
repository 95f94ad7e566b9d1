-------------------------------- MODULE Machine -------------------------------
(***************************************************************************)
(* What ReSDMAC is wired to in an Amiga 3000: the 68030 with its bus       *)
(* arbiter, running the DMA part of the Linux driver; the memory behind    *)
(* RAMSEY; and the WD33C93.  Only the driver is code of the repository;    *)
(* the rest is modelled from how the RTL and its test bench use it.        *)
(***************************************************************************)
EXTENDS Naturals, Sequences

CONSTANTS
  Transfers,    \* the transfers the driver may start: records dir, a1, len
  Ports,        \* how the memory ends a cycle: subset of "sterm" "d32" "d16"
  FlushWrites,  \* TRUE: a write is flushed before it is stopped, as in the
                \* test bench; FALSE: only a read is, as in the driver
  ChipAccess,   \* TRUE: the CPU also uses the WD33C93 during a transfer
  MayAbort,     \* TRUE: the driver may stop a transfer that is not over
  MemBytes      \* bound on the bytes of memory a transfer may read

ASSUME MachineAssumption ==
  /\ Transfers \subseteq [dir : BOOLEAN, a1 : BOOLEAN, len : Nat]
  /\ Ports \subseteq {"sterm", "d32", "d16"}
  /\ FlushWrites \in BOOLEAN
  /\ ChipAccess \in BOOLEAN
  /\ MayAbort \in BOOLEAN
  /\ MemBytes \in Nat

VARIABLES
  step,       \* the driver's step, "idle" when it has no transfer
  xfer,       \* the transfer: direction, A1 of the address, length in bytes
  cpu,        \* the CPU's bus cycle: "idle", "run" or "end" (DSACK seen)
  reg,        \* the register of that cycle
  brSeen,     \* BR as the CPU saw it one clock ago
  bg,         \* BG
  port,       \* how the memory of this transfer ends a cycle
  term,       \* the termination it drives now, or "none"
  mpos,       \* bytes read from memory in this transfer
  dreq,       \* DREQ of the WD33C93
  left,       \* bytes the WD33C93 has still to move
  sink,       \* what the receiver (memory, or the chip) got, in order
  strobes     \* chip select strobes during the CPU's bus cycle

driverVars  == <<step, xfer, port>>
cpuBusVars  == <<cpu, reg>>
arbiterVars == <<brSeen, bg>>
machineVars == <<driverVars, cpuBusVars, arbiterVars, term, mpos, dreq, left, sink, strobes>>

(* dma_setup, the wait for the chip's interrupt, and dma_stop.             *)
Steps == {"idle", "setup", "addr", "start", "wait", "stop", "flush", "poll",
          "cint", "halt", "restore"}

RegOf(s) ==
  CASE s \in {"setup", "stop", "restore"} -> "CNTR"
    [] s = "addr"  -> "ACR"
    [] s = "start" -> "ST_DMA"
    [] s = "flush" -> "FLUSH"
    [] s = "poll"  -> "ISTR"
    [] s = "cint"  -> "CINT"
    [] OTHER       -> "SP_DMA"                                      \* halt

StepAfter(s, dir) ==
  CASE s = "setup" -> "addr"
    [] s = "addr"  -> "start"
    [] s = "start" -> "wait"
    [] s = "wait"  -> "stop"
    [] s = "stop"  -> IF dir \/ FlushWrites THEN "flush" ELSE "cint"
    [] s = "flush" -> IF dir THEN "poll" ELSE "cint"
    [] s = "poll"  -> "cint"
    [] s = "cint"  -> "halt"
    [] s = "halt"  -> "restore"
    [] OTHER       -> "idle"                                        \* restore

(* The direction the driver writes to CNTR: its last write has no DDIR.    *)
DirWritten == xfer.dir \/ step = "restore"

(* The CPU's AS, and the register it selects.                              *)
CpuAS    == cpu # "idle"
Selected == IF CpuAS THEN reg ELSE "none"

(* A memory cycle, by the dynamic bus sizing of the 68030: from the offset *)
(* of the next byte, as many bytes as the size asks for and the port has   *)
(* up to its boundary, on the lanes of D31 down (a 16-bit port is on       *)
(* D31-16).                                                                *)
Width == IF port = "d16" THEN 2 ELSE 4

MemOffset(toMemory) ==
  ((IF xfer.a1 THEN 2 ELSE 0) + (IF toMemory THEN Len(sink) ELSE mpos)) % Width

CycleBytes(toMemory, size1) ==
  LET asked == IF size1 THEN 2 ELSE 4
      room  == Width - MemOffset(toMemory)
  IN  IF asked < room THEN asked ELSE room

MemData(size1) ==
  [l \in 1..4 |->
     LET k == l - MemOffset(FALSE)
     IN  IF k \in 1..CycleBytes(FALSE, size1) THEN mpos + k ELSE 0]

ChipByte == IF left <= xfer.len THEN (xfer.len - left) + 1 ELSE 0

-------------------------------------------------------------------------------

MachineInit ==
  /\ step = "idle"
  /\ xfer = [dir |-> TRUE, a1 |-> FALSE, len |-> 0]
  /\ cpu = "idle"
  /\ reg = "none"
  /\ brSeen = FALSE
  /\ bg = FALSE
  /\ port \in Ports
  /\ term = "none"
  /\ mpos = 0
  /\ dreq = FALSE
  /\ left = 0
  /\ sink = <<>>
  /\ strobes = 0

(* The arbiter grants the bus some time after BR and takes the grant back  *)
(* once it is acknowledged.                                                *)
Arbitrate(br, own) ==
  /\ brSeen' = br
  /\ bg' \in (IF br /\ ~own THEN {bg, TRUE} ELSE {FALSE})

(* A memory cycle is answered some time after AS, until AS is negated.     *)
MemResponds(as) ==
  term' \in (IF ~as THEN {"none"} ELSE IF term = "none" THEN {"none", port} ELSE {term})

(* The chip requests a byte some time after the last one.  While a byte is *)
(* being moved (dack) it may withdraw DREQ or keep it.                     *)
ChipRequests(dack) ==
  dreq' \in (IF dack THEN {dreq, FALSE}
             ELSE IF left > 0 /\ step # "idle" THEN {dreq, TRUE} ELSE {dreq})

(* The strobes of the WD33C93 at posedge CLK90: a DMA byte is over when    *)
(* DACK is negated, and with the last one DREQ; a chip select starts a     *)
(* register access.                                                        *)
ChipStrobes(byteOver, toChip, tx, selected) ==
  /\ left' = IF byteOver /\ left > 0 THEN left - 1 ELSE left
  /\ dreq' = (dreq /\ ~(byteOver /\ left <= 1))
  /\ sink' = IF byteOver /\ toChip THEN Append(sink, tx) ELSE sink
  /\ strobes' = IF selected /\ strobes < 2 THEN strobes + 1 ELSE strobes

(* A memory cycle ends when AS is negated: memory took or gave the bytes.  *)
MemCycleEnds(over, toMemory, size1, data) ==
  LET n     == CycleBytes(toMemory, size1)
      taken == [k \in 1..n |-> data[MemOffset(TRUE) + k]]
  IN  /\ sink' = IF over /\ toMemory THEN sink \o taken ELSE sink
      /\ mpos' = IF over /\ ~toMemory /\ mpos + n <= MemBytes THEN mpos + n ELSE mpos

-------------------------------------------------------------------------------
(* The CPU's side of negedge CLK.  It starts no bus cycle once it has seen *)
(* BR, granted the bus or lost it.                                         *)

BusFree(own) == ~own /\ ~bg /\ ~brSeen

StartTransfer ==
  /\ step = "idle" /\ cpu = "idle"
  /\ step' = "setup"
  /\ \E t \in Transfers : xfer' = t /\ left' = t.len
  /\ port' \in Ports
  /\ mpos' = 0 /\ sink' = <<>>
  /\ dreq' = FALSE
  /\ UNCHANGED <<cpuBusVars, strobes>>

(* The chip interrupts when it has moved its last byte.                    *)
Interrupt(dack) ==
  /\ cpu = "idle" /\ step = "wait"
  /\ MayAbort \/ (left = 0 /\ ~dack)
  /\ step' = "stop"
  /\ UNCHANGED <<xfer, port, cpuBusVars, dreq, left, strobes>>

StartCycle(own) ==
  /\ cpu = "idle" /\ step # "idle" /\ BusFree(own)
  /\ step = "wait" => ChipAccess
  /\ reg' \in (IF step = "wait" THEN {"WD_RD", "WD_WR"} ELSE {RegOf(step)})
  /\ cpu' = "run"
  /\ strobes' = 0
  /\ UNCHANGED <<driverVars, dreq, left>>

(* DSACK ends a cycle; RAMSEY, not ReSDMAC, answers the ACR.               *)
SeeDsack(dsack) ==
  /\ cpu = "run"
  /\ cpu' \in (IF reg = "ACR" THEN {"run", "end"} ELSE IF dsack THEN {"end"} ELSE {"run"})
  /\ UNCHANGED <<driverVars, reg, dreq, left, strobes>>

(* The driver polls ISTR until FE is set.                                  *)
EndCycle(fe) ==
  /\ cpu = "end"
  /\ cpu' = "idle"
  /\ reg' = "none"
  /\ step' = IF step = "wait" \/ (step = "poll" /\ ~fe) THEN step
             ELSE StepAfter(step, xfer.dir)
  /\ UNCHANGED <<xfer, port, dreq, left, strobes>>

CpuRests ==
  /\ cpu = "idle"
  /\ UNCHANGED <<driverVars, cpuBusVars, dreq, left, strobes>>

CpuBus(own, dack, dsack, fe) ==
  \/ Interrupt(dack)
  \/ StartCycle(own)
  \/ SeeDsack(dsack)
  \/ EndCycle(fe)
  \/ CpuRests

(* Byte is what the receiver can be given.                                 *)
MachineTypeOK(Byte) ==
  /\ step \in Steps
  /\ xfer \in [dir : BOOLEAN, a1 : BOOLEAN, len : Nat]
  /\ cpu \in {"idle", "run", "end"}
  /\ reg \in {"none", "CNTR", "ACR", "ST_DMA", "FLUSH", "ISTR", "CINT", "SP_DMA",
              "WD_RD", "WD_WR"}
  /\ brSeen \in BOOLEAN
  /\ bg \in BOOLEAN
  /\ port \in {"sterm", "d32", "d16"}
  /\ term \in {"none", "sterm", "d32", "d16"}
  /\ mpos \in Nat
  /\ dreq \in BOOLEAN
  /\ left \in Nat
  /\ sink \in Seq(Byte)
  /\ strobes \in 0..2
===============================================================================
