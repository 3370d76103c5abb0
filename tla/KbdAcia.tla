------------------------------- MODULE KbdAcia -------------------------------
(***************************************************************************)
(* The keyboard ACIA receive rescue (gpio/ps_protocol.c): while the CPU    *)
(* thread is held up in a host call, ipl_task empties the one-byte receiver*)
(* of the 6850 into a FIFO, and every guest read of $FFFC00/$FFFC02 serves *)
(* that FIFO before the chip.                                              *)
(*                                                                         *)
(* Bytes are numbered 1, 2, 3 ... as they come down the wire.  One action  *)
(* is one hold of the bus lock, except that a rescue makes two bus cycles  *)
(* under one hold and the wire does not wait for it.                       *)
(***************************************************************************)
EXTENDS Naturals, Sequences

CONSTANTS
    MaxBytes,   \* bound on the bytes sent
    KqSize,     \* ACIA_KQ_SIZE
    Resets,     \* the guest may master-reset the ACIA
    BerrPops    \* whether a cycle flagged as a bus error can empty the receiver

ASSUME SizesAssumption == MaxBytes \in Nat /\ KqSize \in Nat \ {0}
ASSUME FlagsAssumption == Resets \in BOOLEAN /\ BerrPops \subseteq BOOLEAN

VARIABLES
    wire,       \* bytes sent so far
    chip,       \* the 6850: receive data register, RDRF
    mfp6,       \* MFP channel 6 pending (falling edge of GPIP4)
    fifo,       \* acia_kq between head and tail
    lock,       \* ps_txn_lock is held across two steps by ipl_task
    cpu,        \* the guest
    taken,      \* bytes the guest has received
    lost        \* bytes overrun, dropped or cleared

vars == <<wire, chip, mfp6, fifo, lock, cpu, taken, lost>>

Waiting == fifo \o (IF chip.rdrf THEN <<chip.rdr>> ELSE <<>>)
RangeOf(s) == {s[i] : i \in 1..Len(s)}

-----------------------------------------------------------------------------
(* The chip (external) *)

\* A byte completes: into the empty receiver, with the edge that latches channel
\* 6, or lost as an overrun.
ByteArrives ==
    /\ wire < MaxBytes
    /\ wire' = wire + 1
    /\ IF chip.rdrf
       THEN lost' = lost \cup {wire + 1} /\ UNCHANGED <<chip, mfp6>>
       ELSE /\ chip' = [rdr |-> wire + 1, rdrf |-> TRUE]
            /\ mfp6' = TRUE
            /\ UNCHANGED lost
    /\ UNCHANGED <<fifo, lock, cpu, taken>>

-----------------------------------------------------------------------------
(* ipl_task: ps_acia_kbd_rescue *)

\* Take the bus and read the status register; give up on a bus error or with no
\* byte there.  Not getting the bus in time is not taking this step.
RescueStatus ==
    /\ ~lock
    /\ chip.rdrf
    /\ lock' = TRUE
    /\ UNCHANGED <<wire, chip, mfp6, fifo, cpu, taken, lost>>

\* Mutant: no test for room; the tail runs past the head's slot.
MutNoRoomTest ==
    /\ lock
    /\ lock' = FALSE
    /\ chip' = [chip EXCEPT !.rdrf = FALSE]
    /\ fifo' = Append(fifo, chip.rdr)
    /\ UNCHANGED <<wire, mfp6, cpu, taken, lost>>

\* Mutant: a full ring overwrites its oldest byte.
MutOverwrite ==
    /\ lock
    /\ lock' = FALSE
    /\ chip' = [chip EXCEPT !.rdrf = FALSE]
    /\ fifo' = Append(IF Len(fifo) < KqSize THEN fifo ELSE Tail(fifo), chip.rdr)
    /\ UNCHANGED <<wire, mfp6, cpu, taken, lost>>

\* Read the data register - it is not asked again whether it is full - and
\* queue the byte, or drop it when the FIFO is full.
RescueData ==
    /\ lock
    /\ lock' = FALSE
    /\ chip' = [chip EXCEPT !.rdrf = FALSE]
    /\ IF Len(fifo) < KqSize
       THEN fifo' = Append(fifo, chip.rdr) /\ UNCHANGED lost
       ELSE lost' = lost \cup {chip.rdr} /\ UNCHANGED fifo
    /\ UNCHANGED <<wire, mfp6, cpu, taken>>

\* The data cycle is flagged as a bus error: nothing is queued.
RescueBerr ==
    /\ lock
    /\ lock' = FALSE
    /\ \E pops \in BerrPops :
         IF pops THEN /\ chip' = [chip EXCEPT !.rdrf = FALSE]
                      /\ lost' = lost \cup {chip.rdr}
                 ELSE UNCHANGED <<chip, lost>>
    /\ UNCHANGED <<wire, mfp6, fifo, cpu, taken>>

-----------------------------------------------------------------------------
(* The guest (external), through ps_acia_kbd_read8/16 and mfp_gpip_shim *)

CpuAt(p) == cpu.pc = p

\* The level-6 handler is entered for channel 6 ...
Interrupt ==
    /\ CpuAt("main") /\ mfp6
    /\ mfp6' = FALSE
    /\ cpu' = [cpu EXCEPT !.pc = "gpip", !.isr = TRUE]
    /\ UNCHANGED <<wire, chip, fifo, lock, taken, lost>>

\* ... and loops while GPIP4 is low: the chip's pin first ...
GpipRead ==
    /\ CpuAt("gpip") /\ ~lock
    /\ cpu' = [cpu EXCEPT !.pc = "shim", !.low = chip.rdrf]
    /\ UNCHANGED <<wire, chip, mfp6, fifo, lock, taken, lost>>

\* ... then, without the lock, the shim: rescued bytes hold it low too.
GpipShim ==
    /\ CpuAt("shim")
    /\ cpu' = IF cpu.low \/ fifo # <<>> THEN [cpu EXCEPT !.pc = "status", !.low = FALSE]
              ELSE [cpu EXCEPT !.pc = "main", !.isr = FALSE]
    /\ UNCHANGED <<wire, chip, mfp6, fifo, lock, taken, lost>>

\* A program that polls the ACIA without the interrupt.
Poll ==
    /\ CpuAt("main")
    /\ cpu' = [cpu EXCEPT !.pc = "status"]
    /\ UNCHANGED <<wire, chip, mfp6, fifo, lock, taken, lost>>

\* Mutant: the status register shows the chip alone.
MutStatusChipOnly ==
    /\ CpuAt("status") /\ ~lock
    /\ cpu' = IF chip.rdrf
              THEN [cpu EXCEPT !.pc = "data", !.expect = Head(Waiting)]
              ELSE [cpu EXCEPT !.pc = IF cpu.isr THEN "gpip" ELSE "main"]
    /\ UNCHANGED <<wire, chip, mfp6, fifo, lock, taken, lost>>

\* ps_acia_kbd_read8/16 of $FFFC00: RDRF | IRQ while the FIFO holds bytes.
StatusRead ==
    /\ CpuAt("status") /\ ~lock
    /\ cpu' = IF chip.rdrf \/ fifo # <<>>
              THEN [cpu EXCEPT !.pc = "data", !.expect = Head(Waiting)]
              ELSE [cpu EXCEPT !.pc = IF cpu.isr THEN "gpip" ELSE "main"]
    /\ UNCHANGED <<wire, chip, mfp6, fifo, lock, taken, lost>>

\* Mutant: the chip's byte is served before the rescued ones.
MutChipFirst ==
    /\ CpuAt("data") /\ ~lock
    /\ IF fifo # <<>> /\ ~chip.rdrf
       THEN /\ taken' = taken \cup {Head(fifo)}
            /\ fifo' = Tail(fifo)
            /\ UNCHANGED chip
       ELSE /\ taken' = taken \cup {chip.rdr}
            /\ chip' = [chip EXCEPT !.rdrf = FALSE]
            /\ UNCHANGED fifo
    /\ cpu' = [cpu EXCEPT !.pc = IF cpu.isr THEN "gpip" ELSE "main", !.expect = 0]
    /\ UNCHANGED <<wire, mfp6, lock, lost>>

\* ps_acia_kbd_read8/16 of $FFFC02: the oldest rescued byte, or the chip's.
DataRead ==
    /\ CpuAt("data") /\ ~lock
    /\ IF fifo # <<>>
       THEN /\ taken' = taken \cup {Head(fifo)}
            /\ fifo' = Tail(fifo)
            /\ UNCHANGED chip
       ELSE /\ taken' = taken \cup {chip.rdr}
            /\ chip' = [chip EXCEPT !.rdrf = FALSE]
            /\ UNCHANGED fifo
    /\ cpu' = [cpu EXCEPT !.pc = IF cpu.isr THEN "gpip" ELSE "main", !.expect = 0]
    /\ UNCHANGED <<wire, mfp6, lock, lost>>

\* A write of the control register with CR1:CR0 = 11: the FIFO is emptied
\* (ps_acia_kbd_ctrl_written) ...
ResetFifo ==
    /\ CpuAt("main") /\ Resets /\ ~lock
    /\ fifo' = <<>>
    /\ lost' = lost \cup RangeOf(fifo)
    /\ cpu' = [cpu EXCEPT !.pc = "reset"]
    /\ UNCHANGED <<wire, chip, mfp6, lock, taken>>

\* ... and then the write goes to the chip, under another hold of the lock.
ResetChip ==
    /\ CpuAt("reset") /\ ~lock
    /\ chip' = [chip EXCEPT !.rdrf = FALSE]
    /\ lost' = lost \cup (IF chip.rdrf THEN {chip.rdr} ELSE {})
    /\ cpu' = [cpu EXCEPT !.pc = "main"]
    /\ UNCHANGED <<wire, mfp6, fifo, lock, taken>>

-----------------------------------------------------------------------------
Init ==
    /\ wire = 0
    /\ chip = [rdr |-> 0, rdrf |-> FALSE]
    /\ mfp6 = FALSE /\ fifo = <<>> /\ lock = FALSE
    /\ cpu = [pc |-> "main", isr |-> FALSE, low |-> FALSE, expect |-> 0]
    /\ taken = {} /\ lost = {}

Handler == Interrupt \/ GpipRead \/ GpipShim \/ StatusRead \/ DataRead \/ ResetChip

Next ==
    \/ ByteArrives
    \/ RescueStatus \/ RescueData \/ RescueBerr
    \/ Handler \/ Poll \/ ResetFifo

Spec == Init /\ [][Next]_vars

\* The CPU thread goes on; a rescue under way ends; the bus is not held against
\* the CPU thread for ever.
FairSpec ==
    /\ Spec
    /\ WF_vars(Handler) /\ SF_vars(Interrupt)
    /\ SF_vars(GpipRead) /\ SF_vars(StatusRead) /\ SF_vars(DataRead) /\ SF_vars(ResetChip)
    /\ WF_vars(RescueData \/ RescueBerr)

-----------------------------------------------------------------------------
(* Properties *)

\* Every variable keeps its type, and the FIFO its size.
TypeOK ==
    /\ wire \in 0..MaxBytes
    /\ chip \in [rdr : 0..MaxBytes, rdrf : BOOLEAN]
    /\ mfp6 \in BOOLEAN /\ lock \in BOOLEAN
    /\ fifo \in Seq(1..MaxBytes) /\ Len(fifo) <= KqSize
    /\ cpu \in [pc : {"main", "gpip", "shim", "status", "data", "reset"},
                isr : BOOLEAN, low : BOOLEAN, expect : 0..MaxBytes]
    /\ taken \subseteq 1..MaxBytes /\ lost \subseteq 1..MaxBytes

\* "Nothing is invented and nothing is reordered ... oldest first, and the chip
\* cannot hold a newer one than the FIFO's last" - that is, what waits for the
\* guest is in the order it came, and newer than all the guest has received, so
\* no byte is received twice.
OldestFirst ==
    /\ \A i, j \in 1..Len(Waiting) : i < j => Waiting[i] < Waiting[j]
    /\ \A b \in taken, i \in 1..Len(Waiting) : b < Waiting[i]

\* Every byte sent has been received, is waiting, or is accounted for as lost.
NoneVanishes == 1..wire = taken \cup lost \cup RangeOf(Waiting)

\* "a rescue is correct wherever the CPU thread happens to be, even between a
\* guest's status read and its data read": the data read that follows a status
\* with RDRF gives the byte that status announced, unless a bus error in a
\* rescue has cost the chip that very byte.
StatusHonoured ==
    cpu.pc = "data" =>
        \/ Waiting # <<>> /\ Head(Waiting) = cpu.expect
        \/ TRUE \in BerrPops /\ cpu.expect \in lost

\* "The MFP needs nothing": rescued bytes are received although the chip no
\* longer asks for an interrupt for them.
RescuedAreRead == (fifo # <<>>) ~> (fifo = <<>>)
=============================================================================
