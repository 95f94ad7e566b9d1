-------------------------------- MODULE Datapath ------------------------------
(***************************************************************************)
(* The data path (RTL/datapath): the latches between the 32-bit CPU bus,   *)
(* the FIFO and the 8-bit SCSI bus.  A lane of the CPU bus holds a byte of *)
(* the transfer, numbered from 1, or 0 for anything else (a disabled       *)
(* buffer, a lane nobody drives, what an earlier transfer left).  The byte *)
(* -k is byte k of the transfer as it was read from a lane that something  *)
(* else was driving too: it is at the place of k, with any value.          *)
(***************************************************************************)
EXTENDS Integers

CONSTANT CpuByte                \* what the CPU writes to a WD33C93 register
ASSUME CpuByteAssumption == CpuByte \notin Int

VARIABLES
  UD_LATCH, LD_LATCH,   \* datapath_output: the FIFO longword on the CPU bus
  IN_LATCH,             \* datapath_input's UD_LATCH: D31-16 of the last cycle
  TX_LATCH,             \* datapath_scsi: the byte driven to the WD33C93
  RX_LATCH              \* TRUE: holds the byte the WD33C93 drove for the CPU

pathVars == <<UD_LATCH, LD_LATCH, IN_LATCH, TX_LATCH, RX_LATCH>>

Half == 1..2
None == [l \in Half |-> 0]                              \* a disabled half bus

(* CPU_OD, from the longword on the bus.  The mutant forgets the bridge    *)
(* that joins the two words of a 16-bit memory.                            *)
Mutant_NoBridgeIn(out, cpu2s, bus) ==
  [l \in 1..4 |-> IF l \in Half
                  THEN IF "DIEH" \in out \/ cpu2s THEN bus[l] ELSE 0
                  ELSE IF "DIEL" \in out \/ cpu2s THEN bus[l] ELSE 0]

CPU_OD(out, cpu2s, bus) ==
  LET high == IF "DIEH" \in out \/ cpu2s THEN [l \in Half |-> bus[l]] ELSE None
      low  == IF "DIEL" \in out \/ cpu2s THEN [l \in Half |-> bus[l + 2]]
              ELSE IF "BRIDGEIN" \in out THEN IN_LATCH ELSE None
  IN  [l \in 1..4 |-> IF l \in Half THEN high[l] ELSE low[l - 2]]

(* DATA_O, the longword the chip drives during a DMA cycle.  The data of a *)
(* WD33C93 register or of a register (REG_OD) is not a transfer byte.      *)
DATA_O(out, s2cpu) ==
  LET low  == IF "F2CPUL" \in out /\ ~s2cpu THEN LD_LATCH ELSE None
      high == IF "F2CPUH" \in out /\ ~s2cpu THEN UD_LATCH
              ELSE IF "BRIDGEOUT" \in out /\ ~s2cpu THEN LD_LATCH ELSE None
  IN  [l \in 1..4 |-> IF l \in Half THEN high[l] ELSE low[l - 2]]

(* datapath_24dec and datapath_8b_MUX: a conflict of selects gives 0.      *)
SCSI_DATA_TX(cpu2s, f2s, fifoOD, bo) ==
  CASE cpu2s /\ ~f2s -> CpuByte
    [] f2s /\ ~cpu2s -> fifoOD[bo + 1]
    [] OTHER         -> 0

-------------------------------------------------------------------------------

PathInit ==
  /\ UD_LATCH = None
  /\ LD_LATCH = None
  /\ IN_LATCH = None
  /\ TX_LATCH = 0
  /\ RX_LATCH = FALSE

(* posedge CLK: datapath_output follows the FIFO while PAS.                *)
PathPosedge(pas, fifoOD) ==
  /\ UD_LATCH' = IF pas THEN [l \in Half |-> fifoOD[l]] ELSE UD_LATCH
  /\ LD_LATCH' = IF pas THEN [l \in Half |-> fifoOD[l + 2]] ELSE LD_LATCH
  /\ UNCHANGED <<IN_LATCH, TX_LATCH, RX_LATCH>>

(* negedge S2CPU (with posedge CLK90): the receive latch is cleared.       *)
PathPosedge90(s2cpu) ==
  /\ RX_LATCH' = (RX_LATCH /\ s2cpu)
  /\ UNCHANGED <<UD_LATCH, LD_LATCH, IN_LATCH, TX_LATCH>>

(* negedge CLK: the receive latch follows the SCSI bus while DSACK is out. *)
PathNegedge(s2cpu, ls2cpu, driven) ==
  /\ RX_LATCH' = (s2cpu /\ IF ls2cpu THEN RX_LATCH ELSE driven)
  /\ UNCHANGED <<UD_LATCH, LD_LATCH, IN_LATCH, TX_LATCH>>

(* negedge CLK90: datapath_input keeps the upper word while DS is out.     *)
PathNegedge90(ds, bus) ==
  /\ IN_LATCH' = IF ds THEN [l \in Half |-> bus[l]] ELSE IN_LATCH
  /\ UNCHANGED <<UD_LATCH, LD_LATCH, TX_LATCH, RX_LATCH>>

(* negedge CLK135: the transmit latch.                                     *)
PathNegedge135(cpu2s, f2s, fifoOD, bo) ==
  /\ TX_LATCH' = SCSI_DATA_TX(cpu2s, f2s, fifoOD, bo)
  /\ UNCHANGED <<UD_LATCH, LD_LATCH, IN_LATCH, RX_LATCH>>

PathTypeOK ==
  /\ UD_LATCH \in [Half -> Int]
  /\ LD_LATCH \in [Half -> Int]
  /\ IN_LATCH \in [Half -> Int]
  /\ TX_LATCH \in Int \cup {CpuByte}
  /\ RX_LATCH \in BOOLEAN
===============================================================================
