------------------------------- MODULE MfpHub -------------------------------
(***************************************************************************)
(* platforms/atari/mfp_hub.c: the one home of the virtual MFP (68901)      *)
(* interrupt state.  Three threads touch it, all through C11 atomics:      *)
(*                                                                         *)
(*   cpu   the CPU thread: snooped guest register writes, the IACK and the *)
(*         RESET instruction (the only writer of ier, imr, visr and vr);   *)
(*   src   the thread that reports sound-frame boundaries: dmasnd_pump     *)
(*         (dmasnd_capture.c) or the Falcon engine (falcon_hw.c);          *)
(*   ipl   ipl_task, which polls mfp_hub_irq_wanted.                       *)
(*                                                                         *)
(* One action is one atomic access to a field another thread also uses;    *)
(* accesses of the CPU thread to fields only it writes ride along.  A      *)
(* 16-bit channel mask is a set of channel numbers.                        *)
(***************************************************************************)
EXTENDS Integers, FiniteSets

CONSTANTS
    Channel,        \* channels in use, a subset of 0..15
    LevelCh,        \* channels with a registered level poll (6 and 7)
    TimerCh,        \* the Timer A channel, 13
    SoundCh,        \* GPIP7, channel 15
    TimerFull,      \* what a TADR of 0 counts as (256 in the code)
    TadrBytes,      \* bytes the guest writes to TADR
    TacrModes,      \* low nibbles the guest writes to TACR
    Polling         \* a virtual source is configured, so ipl_task polls

ASSUME ChannelAssumption ==
    /\ Channel \subseteq 0..15
    /\ LevelCh \subseteq Channel
    /\ TimerCh \in Channel \ LevelCh
    /\ SoundCh \in Channel \ LevelCh

ASSUME TimerAssumption ==
    /\ TimerFull \in Nat \ {0}
    /\ TadrBytes \subseteq 0..(TimerFull - 1)
    /\ TacrModes \subseteq 0..15

ASSUME PollingAssumption == Polling \in BOOLEAN

VARIABLES
    ier, imr,       \* enable and mask shadows
    vpend, visr,    \* pending latches and in-service bits
    swEoi,          \* bit 3 of the vector register
    tacr, tadr, tacnt,
    level,          \* level channels whose line asserts (devices' state)
    cpu,            \* the CPU thread: pc and the locals of the call it is in
    src,            \* the source thread
    ipl             \* ipl_task inside mfp_hub_irq_wanted, and its last answer

regs == <<ier, imr, visr, swEoi>>
timer == <<tacr, tadr, tacnt>>
vars == <<ier, imr, vpend, visr, swEoi, tacr, tadr, tacnt, level, cpu, src, ipl>>

EventCount == 8     \* TACR: event-count mode
NoCh == -1

\* The two register banks: set A is channels 15..8, set B channels 7..0.
BankA == {c \in Channel : c >= 8}
BankB == {c \in Channel : c < 8}
Banks == {BankA, BankB}

-----------------------------------------------------------------------------
\* Arbitration, on the masks the caller has read.

\* Mutant: the mask register is ignored.
MutNoImr(pend, en, mask) == pend \cap en

\* pending_now and the first half of deliverable.
Masked(pend, en, mask) == pend \cap en \cap mask

\* Mutant: pending channels are not held back by what is in service.
MutNoIsr(pend, isr) == pend

\* Nothing at or below the highest in-service channel may interrupt.
Above(pend, isr) == {c \in pend : \A d \in isr : d < c}

Deliverable == Above(Masked(vpend \cup level, ier, imr), visr)

Top(S) == CHOOSE c \in S : \A d \in S : d <= c

-----------------------------------------------------------------------------
(* The CPU thread: mfp_hub_write_snoop / reg_write. *)

CpuIdle == cpu.pc = "idle"
CpuAt(p) == cpu.pc = p
CpuTo(p) == cpu' = [cpu EXCEPT !.pc = p]

\* IERA / IERB: the store, then the clearing of the latches it disables.
WriteIER(bank, b) ==
    /\ CpuIdle
    /\ ier' = (ier \ bank) \cup b
    /\ CpuTo("ierClear")
    /\ UNCHANGED <<imr, vpend, visr, swEoi, timer, level, src, ipl>>

IerClear ==
    /\ CpuAt("ierClear")
    /\ vpend' = vpend \cap ier
    /\ CpuTo("idle")
    /\ UNCHANGED <<regs, timer, level, src, ipl>>

\* IPRA / IPRB: written zeros clear.
WriteIPR(bank, b) ==
    /\ CpuIdle
    /\ vpend' = vpend \ (bank \ b)
    /\ UNCHANGED <<regs, timer, level, cpu, src, ipl>>

\* ISRA / ISRB: written zeros are the handler's EOI.
WriteISR(bank, b) ==
    /\ CpuIdle
    /\ visr' = visr \ (bank \ b)
    /\ UNCHANGED <<ier, imr, swEoi, vpend, timer, level, cpu, src, ipl>>

WriteIMR(bank, b) ==
    /\ CpuIdle
    /\ imr' = (imr \ bank) \cup b
    /\ UNCHANGED <<ier, visr, swEoi, vpend, timer, level, cpu, src, ipl>>

\* Mutant: selecting automatic EOI forgets what is in service.
MutVrKeeps(s) ==
    /\ CpuIdle
    /\ swEoi' = s
    /\ UNCHANGED <<ier, imr, visr, vpend, timer, level, cpu, src, ipl>>

\* VR: automatic EOI holds nothing in service.
WriteVR(s) ==
    /\ CpuIdle
    /\ swEoi' = s
    /\ CpuTo(IF s THEN "idle" ELSE "vrClear")
    /\ UNCHANGED <<ier, imr, visr, vpend, timer, level, src, ipl>>

VrClear ==
    /\ CpuAt("vrClear")
    /\ visr' = {}
    /\ CpuTo("idle")
    /\ UNCHANGED <<ier, imr, swEoi, vpend, timer, level, src, ipl>>

\* TACR: reprogramming re-arms the counter from TADR.
WriteTACR(m) ==
    /\ CpuIdle
    /\ tacr' = m
    /\ CpuTo("reload")
    /\ UNCHANGED <<regs, vpend, tadr, tacnt, level, src, ipl>>

\* Mutant: a TADR of zero is stored as zero.
MutTadrZero(b) ==
    /\ CpuIdle
    /\ tadr' = b
    /\ CpuTo("reload")
    /\ UNCHANGED <<regs, vpend, tacr, tacnt, level, src, ipl>>

\* TADR: zero counts as TimerFull.
WriteTADR(b) ==
    /\ CpuIdle
    /\ tadr' = IF b = 0 THEN TimerFull ELSE b
    /\ CpuTo("reload")
    /\ UNCHANGED <<regs, vpend, tacr, tacnt, level, src, ipl>>

\* The second store of both writes; tadr has no other writer.
Reload ==
    /\ CpuAt("reload")
    /\ tacnt' = tadr
    /\ CpuTo("idle")
    /\ UNCHANGED <<regs, vpend, tacr, tadr, level, src, ipl>>

GuestWrite ==
    \/ \E bank \in Banks : \E b \in SUBSET bank :
          \/ WriteIER(bank, b)
          \/ WriteIPR(bank, b)
          \/ WriteISR(bank, b)
          \/ WriteIMR(bank, b)
    \/ \E s \in BOOLEAN : WriteVR(s)
    \/ \E m \in TacrModes : WriteTACR(m)
    \/ \E b \in TadrBytes : WriteTADR(b)

GuestFinish == IerClear \/ VrClear \/ Reload

-----------------------------------------------------------------------------
(* The CPU thread: mfp_hub_iack. *)

\* deliverable() loads vpend first, then polls the level sources.
IackLoad ==
    /\ CpuIdle
    /\ cpu' = [cpu EXCEPT !.pc = "iackPoll", !.pend = vpend]
    /\ UNCHANGED <<regs, vpend, timer, level, src, ipl>>

\* No deliverable channel: the call returns -1.
IackPoll ==
    LET can == Above(Masked(cpu.pend \cup level, ier, imr), visr)
    IN  /\ CpuAt("iackPoll")
        /\ cpu' = [cpu EXCEPT !.pc = IF can = {} THEN "idle" ELSE "iackTake",
                              !.ch = IF can = {} THEN NoCh ELSE Top(can),
                              !.pend = {}]
        /\ UNCHANGED <<regs, vpend, timer, level, src, ipl>>

\* Pending becomes taken.
IackTake ==
    /\ CpuAt("iackTake")
    /\ vpend' = vpend \ {cpu.ch}
    /\ CpuTo("iackServe")
    /\ UNCHANGED <<regs, timer, level, src, ipl>>

\* In software-EOI mode the channel goes in service; the vector returned
\* names cpu.ch.
IackServe ==
    /\ CpuAt("iackServe")
    /\ visr' = IF swEoi THEN visr \cup {cpu.ch} ELSE visr
    /\ cpu' = [cpu EXCEPT !.pc = "idle", !.ch = NoCh]
    /\ UNCHANGED <<ier, imr, swEoi, vpend, timer, level, src, ipl>>

Iack == IackLoad \/ IackPoll \/ IackTake \/ IackServe

-----------------------------------------------------------------------------
(* The CPU thread: mfp_hub_reset, eight stores in this order. *)

ResetStores == <<"vpend", "visr", "ier", "imr", "vr", "tacr", "tadr", "tacnt">>

StartReset ==
    /\ CpuIdle
    /\ cpu' = [cpu EXCEPT !.pc = "reset", !.k = 1]
    /\ UNCHANGED <<regs, vpend, timer, level, src, ipl>>

ResetStep ==
    LET f == ResetStores[cpu.k]
    IN  /\ CpuAt("reset")
        /\ vpend' = IF f = "vpend" THEN {} ELSE vpend
        /\ visr'  = IF f = "visr" THEN {} ELSE visr
        /\ ier'   = IF f = "ier" THEN Channel ELSE ier
        /\ imr'   = IF f = "imr" THEN Channel ELSE imr
        /\ swEoi' = IF f = "vr" THEN TRUE ELSE swEoi
        /\ tacr'  = IF f = "tacr" THEN 0 ELSE tacr
        /\ tadr'  = IF f = "tadr" THEN TimerFull ELSE tadr
        /\ tacnt' = IF f = "tacnt" THEN TimerFull ELSE tacnt
        /\ cpu' = IF cpu.k = 8
                  THEN [cpu EXCEPT !.pc = "idle", !.k = 1]
                  ELSE [cpu EXCEPT !.k = @ + 1]
        /\ UNCHANGED <<level, src, ipl>>

-----------------------------------------------------------------------------
(* The source thread: frame_end_event / dma_frame_event, which call        *)
(* mfp_hub_timer_a_event and then mfp_hub_raise(15).                       *)

SrcAt(p) == src.pc = p
SrcTo(p) == src' = [src EXCEPT !.pc = p]

\* A frame boundary; dma_frame_event reports either event or both.
FrameEvent(ta, g7) ==
    /\ SrcAt("idle")
    /\ ta \/ g7
    /\ src' = [src EXCEPT !.pc = IF ta THEN "tacr" ELSE "raise",
                          !.ch = IF ta THEN TimerCh ELSE SoundCh,
                          !.g7 = ta /\ g7]
    /\ UNCHANGED <<regs, vpend, timer, level, cpu, ipl>>

\* Where the thread goes when a call returns: GPIP7's raise, or home.
SrcReturn ==
    src' = [src EXCEPT !.pc = IF src.g7 THEN "raise" ELSE "idle",
                       !.ch = IF src.g7 THEN SoundCh ELSE NoCh,
                       !.g7 = FALSE, !.cnt = 0]

\* Only event-count mode counts.
TimerCheck ==
    /\ SrcAt("tacr")
    /\ IF tacr = EventCount THEN SrcTo("load") ELSE SrcReturn
    /\ UNCHANGED <<regs, vpend, timer, level, cpu, ipl>>

TimerLoad ==
    /\ SrcAt("load")
    /\ src' = [src EXCEPT !.pc = IF tacnt <= 1 THEN "expire" ELSE "count",
                          !.cnt = tacnt]
    /\ UNCHANGED <<regs, vpend, timer, level, cpu, ipl>>

\* Mutant: the decremented count is not stored back.
MutCountLost ==
    /\ SrcAt("count")
    /\ SrcReturn
    /\ UNCHANGED <<regs, vpend, timer, level, cpu, ipl>>

\* Not due: store the count loaded before, less one.
TimerCount ==
    /\ SrcAt("count")
    /\ tacnt' = src.cnt - 1
    /\ SrcReturn
    /\ UNCHANGED <<regs, vpend, tacr, tadr, level, cpu, ipl>>

\* Due: load TADR ...
TimerExpire ==
    /\ SrcAt("expire")
    /\ src' = [src EXCEPT !.pc = "rearm", !.cnt = tadr]
    /\ UNCHANGED <<regs, vpend, timer, level, cpu, ipl>>

\* ... store it, and raise channel 13.
TimerRearm ==
    /\ SrcAt("rearm")
    /\ tacnt' = src.cnt
    /\ SrcTo("raise")
    /\ UNCHANGED <<regs, vpend, tacr, tadr, level, cpu, ipl>>

\* mfp_hub_raise: the enable test ...
RaiseTest ==
    /\ SrcAt("raise")
    /\ IF src.ch \in ier THEN SrcTo("latch") ELSE SrcReturn
    /\ UNCHANGED <<regs, vpend, timer, level, cpu, ipl>>

\* ... and the latch.
RaiseLatch ==
    /\ SrcAt("latch")
    /\ vpend' = vpend \cup {src.ch}
    /\ SrcReturn
    /\ UNCHANGED <<regs, timer, level, cpu, ipl>>

SrcStep ==
    TimerCheck \/ TimerLoad \/ TimerCount \/ TimerExpire \/ TimerRearm
      \/ RaiseTest \/ RaiseLatch

-----------------------------------------------------------------------------
(* ipl_task: mfp_hub_irq_wanted, one load per step. *)

IplAt(p) == ipl.pc = p

PollPend ==
    /\ Polling
    /\ IplAt("pend")
    /\ ipl' = [ipl EXCEPT !.pc = "level", !.m = vpend]
    /\ UNCHANGED <<regs, vpend, timer, level, cpu, src>>

\* Mutant: the arbiter poll skips the level sources.
MutPollNoLevel ==
    /\ IplAt("level")
    /\ ipl' = [ipl EXCEPT !.pc = "ier"]
    /\ UNCHANGED <<regs, vpend, timer, level, cpu, src>>

PollLevel ==
    /\ IplAt("level")
    /\ ipl' = [ipl EXCEPT !.pc = "ier", !.m = @ \cup level]
    /\ UNCHANGED <<regs, vpend, timer, level, cpu, src>>

PollIer ==
    /\ IplAt("ier")
    /\ ipl' = [ipl EXCEPT !.pc = "imr", !.m = @ \cap ier]
    /\ UNCHANGED <<regs, vpend, timer, level, cpu, src>>

PollImr ==
    /\ IplAt("imr")
    /\ ipl' = [ipl EXCEPT !.pc = "isr", !.m = @ \cap imr]
    /\ UNCHANGED <<regs, vpend, timer, level, cpu, src>>

PollIsr ==
    /\ IplAt("isr")
    /\ ipl' = [pc |-> "pend", m |-> {}, want |-> Above(ipl.m, visr) # {}]
    /\ UNCHANGED <<regs, vpend, timer, level, cpu, src>>

IrqWanted == PollPend \/ PollLevel \/ PollIer \/ PollImr \/ PollIsr

-----------------------------------------------------------------------------
\* A device asserts or drops its line (kbd_level_poll, fdd_mfp_level_poll).
LevelChange ==
    /\ \E c \in LevelCh :
          level' = IF c \in level THEN level \ {c} ELSE level \cup {c}
    /\ UNCHANGED <<regs, vpend, timer, cpu, src, ipl>>

Init ==
    /\ ier = Channel /\ imr = Channel
    /\ vpend = {} /\ visr = {} /\ swEoi = TRUE
    /\ tacr = 0 /\ tadr = TimerFull /\ tacnt = TimerFull
    /\ level = {}
    /\ cpu = [pc |-> "idle", ch |-> NoCh, pend |-> {}, k |-> 1]
    /\ src = [pc |-> "idle", ch |-> NoCh, cnt |-> 0, g7 |-> FALSE]
    /\ ipl = [pc |-> "pend", m |-> {}, want |-> FALSE]

Next ==
    \/ GuestWrite \/ GuestFinish
    \/ Iack
    \/ StartReset \/ ResetStep
    \/ \E ta, g7 \in BOOLEAN : FrameEvent(ta, g7)
    \/ SrcStep
    \/ IrqWanted
    \/ LevelChange

Spec == Init /\ [][Next]_vars

\* ipl_task is a real-time loop and every call it or the other threads are
\* inside runs to its end; nothing forces the guest or a device to act.
Fairness ==
    /\ WF_vars(IrqWanted)
    /\ WF_vars(SrcStep)
    /\ WF_vars(GuestFinish \/ ResetStep \/ IackPoll \/ IackTake \/ IackServe)

FairSpec == Spec /\ Fairness

-----------------------------------------------------------------------------
(* Properties. *)

CpuPc == {"idle", "ierClear", "vrClear", "reload", "iackPoll", "iackTake",
          "iackServe", "reset"}
SrcPc == {"idle", "tacr", "load", "count", "expire", "rearm", "raise", "latch"}
IplPc == {"pend", "level", "ier", "imr", "isr"}

CpuType == [pc : CpuPc, ch : Channel \cup {NoCh}, pend : SUBSET Channel, k : 1..8]
SrcType == [pc : SrcPc, ch : {TimerCh, SoundCh, NoCh}, cnt : 0..TimerFull,
            g7 : BOOLEAN]
IplType == [pc : IplPc, m : SUBSET Channel, want : BOOLEAN]

\* Every field keeps its type, and only event channels ever latch: "a level
\* channel is pending exactly while its line asserts".
TypeOK ==
    /\ ier \subseteq Channel /\ imr \subseteq Channel
    /\ vpend \subseteq {TimerCh, SoundCh} /\ visr \subseteq Channel
    /\ swEoi \in BOOLEAN
    /\ tacr \in 0..15
    /\ tadr \in 1..TimerFull /\ tacnt \in 1..TimerFull
    /\ level \subseteq LevelCh
    /\ cpu \in CpuType /\ src \in SrcType /\ ipl \in IplType

\* In-service channels nest: a channel goes in service only above every
\* channel already there, however sources and the guest's EOIs interleave with
\* the arbitration (the rule whose absence re-entered handlers, deliverable).
InServiceNests ==
    [][\A c \in visr' \ visr : \A d \in visr : d < c]_vars

\* The channel whose vector mfp_hub_iack is about to return is enabled and
\* unmasked and outranks everything in service, although sources raised and
\* levels moved since the arbitration that chose it.
IackLegal ==
    cpu.pc \in {"iackTake", "iackServe"} =>
        cpu.ch \in ier \cap imr /\ \A d \in visr : d < cpu.ch

\* What each thread's locals hold at each point of the calls: the strengthening
\* that makes TypeOK and IackLegal inductive.
CpuLocals == cpu.pc \in {"iackTake", "iackServe"} => cpu.ch \in Channel
SrcLocals ==
    /\ src.pc # "idle" => src.ch \in {TimerCh, SoundCh}
    /\ src.pc = "count" => src.cnt \in 2..TimerFull
    /\ src.pc = "rearm" => src.cnt \in 1..TimerFull

HubInv == TypeOK /\ CpuLocals /\ SrcLocals /\ IackLegal

\* With automatic EOI selected nothing stays in service, so no channel is
\* blocked for ever by a bit nobody will clear.
AutoEoiHoldsNothing ==
    ~swEoi => visr = {} \/ CpuAt("vrClear")

\* "worst case is one poll's delay": a channel that stays deliverable is
\* reported by irq_wanted although its five loads are not one snapshot.
SteadyRequestSeen ==
    \A c \in Channel : Polling /\ <>[](c \in Deliverable) => <>[](ipl.want)

\* While Timer A stays in event-count mode and the guest leaves it alone, frame
\* boundaries that keep coming keep expiring it.
TimerKeepsFiring ==
    /\ <>[](tacr = EventCount /\ cpu.pc \notin {"reload", "reset"})
    /\ []<>(SrcAt("tacr"))
    => []<>(SrcAt("rearm"))
=============================================================================
