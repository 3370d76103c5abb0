----------------------------- MODULE IplDelivery -----------------------------
(***************************************************************************)
(* From the Atari's interrupt lines to the 68k exception.                  *)
(*                                                                         *)
(*   ipl   ipl_task (emulator.c) samples the IPL lines, filters and latches*)
(*         a level in g_irq, adds the virtual level 6, and asks the JIT to *)
(*         leave compiled code;                                            *)
(*   cpu   the CPU thread (newcpu.cpp, jit_glue.cpp) runs compiled blocks, *)
(*         checks g_irq against its mask when it leaves them, acknowledges,*)
(*         builds the frame and clears the latch;                          *)
(*   net   the network receive thread, which requests a level on its own   *)
(*         (atari_request_irq_level).                                      *)
(*                                                                         *)
(* One action is one access to g_irq, g_irq_mask or the exit request.  Time*)
(* is abstracted to what the code compares it with: `settled` (the candi-  *)
(* date level is older than the confirm window) and `refr` (the level-4    *)
(* refractory runs).                                                       *)
(***************************************************************************)
EXTENDS Integers

CONSTANTS
    Sources,        \* subset of {"vbl", "hbl", "mfp", "virt"} that occur
    NetLevel,       \* level of the network interrupt, 0 when there is none
    GuestMasks,     \* interrupt masks the guest loads into SR
    Phantoms,       \* levels the IPL lines pass through on an edge
    HoldUntilAck,   \* the GLUE holds a VBL until it is acknowledged
    Countdown       \* compiled code also leaves when its budget runs out

ASSUME SourcesAssumption == Sources \subseteq {"vbl", "hbl", "mfp", "virt"}
ASSUME LevelsAssumption ==
    /\ NetLevel \in {0, 2, 4, 6}
    /\ GuestMasks \subseteq 0..7
    /\ Phantoms \subseteq {2, 4}
ASSUME FlagsAssumption == HoldUntilAck \in BOOLEAN /\ Countdown \in BOOLEAN

VARIABLES
    dev,        \* the Atari: asserted sources, blanking, phantom on the lines
    g_irq,      \* the latched level
    mask,       \* regs.intmask and its mirror g_irq_mask
    exit,       \* compiled code has been asked to leave (countdown negative)
    stopped,    \* the guest executed STOP
    ipl, cpu, net,
    vblog       \* which VBL assertion was latched and taken (for properties)

vars == <<dev, g_irq, mask, exit, stopped, ipl, cpu, net, vblog>>

Levels == {0, 2, 4, 6}

\* Mutant: the status bits shifted one place too far.
MutLineShift ==
    IF dev.mfp THEN 3 ELSE IF dev.vbl THEN 2 ELSE IF dev.hbl THEN 1 ELSE 0

\* The encoded IPL shows the highest level asserted; an edge passes through
\* the codes of Phantoms.
Line ==
    IF dev.phantom # 0 THEN dev.phantom
    ELSE IF dev.mfp THEN 6 ELSE IF dev.vbl THEN 4 ELSE IF dev.hbl THEN 2 ELSE 0

-----------------------------------------------------------------------------
(* The Atari and the virtual sources. *)

\* A frame is much longer than a pass: ipl_task has seen the line of the last
\* VBL fall, unless it never fell.
VblStart ==
    /\ "vbl" \in Sources /\ ~dev.blank
    /\ dev.vbl \/ ipl.g_ipl # 4
    /\ dev' = [dev EXCEPT !.vbl = TRUE, !.acked = FALSE, !.blank = TRUE]
    /\ vblog' = [latched |-> FALSE, served |-> FALSE]
    /\ UNCHANGED <<g_irq, mask, exit, stopped, ipl, cpu, net>>

\* The blanking interval ends; the refractory is longer than it, so a latch
\* made inside it is still in its refractory now.
BlankEnd ==
    /\ dev.blank
    /\ dev' = [dev EXCEPT !.blank = FALSE, !.vbl = HoldUntilAck /\ ~dev.acked]
    /\ ipl' = [ipl EXCEPT !.inblank = FALSE]
    /\ UNCHANGED <<g_irq, mask, exit, stopped, cpu, net, vblog>>

HblEdge ==
    /\ "hbl" \in Sources
    /\ dev' = [dev EXCEPT !.hbl = ~@]
    /\ UNCHANGED <<g_irq, mask, exit, stopped, ipl, cpu, net, vblog>>

\* The MFP requests, or the guest removes the cause by polling the device.  The
\* lines do not switch atomically: the edge may show a phantom level first.
MfpEdge ==
    /\ "mfp" \in Sources /\ dev.phantom = 0
    /\ \E p \in Phantoms \cup {0} : dev' = [dev EXCEPT !.mfp = ~@, !.phantom = p]
    /\ UNCHANGED <<g_irq, mask, exit, stopped, ipl, cpu, net, vblog>>

\* mfp_hub_irq_wanted (MfpHub) or falcon_hreq changes.
VirtEdge ==
    /\ "virt" \in Sources
    /\ dev' = [dev EXCEPT !.virt = ~@]
    /\ UNCHANGED <<g_irq, mask, exit, stopped, ipl, cpu, net, vblog>>

PhantomEnds ==
    /\ dev.phantom # 0
    /\ dev' = [dev EXCEPT !.phantom = 0]
    /\ UNCHANGED <<g_irq, mask, exit, stopped, ipl, cpu, net, vblog>>

Device == VblStart \/ BlankEnd \/ HblEdge \/ MfpEdge \/ VirtEdge \/ PhantomEnds

\* The confirm window passes while the candidate stands.  A phantom is shorter
\* than the window.
Settle ==
    /\ ~ipl.settled /\ dev.phantom = 0
    /\ ipl' = [ipl EXCEPT !.settled = TRUE]
    /\ UNCHANGED <<dev, g_irq, mask, exit, stopped, cpu, net, vblog>>

\* The refractory outlasts a blanking interval by more than one pass takes.
RefractoryEnds ==
    /\ ipl.refr /\ ~ipl.inblank /\ ipl.pc = "top"
    /\ ipl' = [ipl EXCEPT !.refr = FALSE]
    /\ UNCHANGED <<dev, g_irq, mask, exit, stopped, cpu, net, vblog>>

-----------------------------------------------------------------------------
(* ipl_task *)

IplAt(p) == ipl.pc = p

\* The pending-interrupt follow-up: load g_irq while a latch is outstanding ...
FollowLoad ==
    /\ IplAt("top")
    /\ ipl' = IF ipl.kick THEN [ipl EXCEPT !.pc = "follow", !.seen = g_irq]
                          ELSE [ipl EXCEPT !.pc = "sample"]
    /\ UNCHANGED <<dev, g_irq, mask, exit, stopped, cpu, net, vblog>>

\* ... it was taken, or is masked now ...
FollowDone ==
    /\ IplAt("follow")
    /\ ipl.seen <= mask
    /\ ipl' = [ipl EXCEPT !.pc = "sample", !.kick = FALSE]
    /\ UNCHANGED <<dev, g_irq, mask, exit, stopped, cpu, net, vblog>>

\* Mutant: the exit request is fire-and-forget.
MutNoRekick ==
    /\ IplAt("follow")
    /\ ipl.seen > mask
    /\ ipl' = [ipl EXCEPT !.pc = "sample"]
    /\ UNCHANGED <<dev, g_irq, mask, exit, stopped, cpu, net, vblog>>

\* ... or the exit is asked for again.
FollowKick ==
    /\ IplAt("follow")
    /\ ipl.seen > mask
    /\ exit' = TRUE
    /\ ipl' = [ipl EXCEPT !.pc = "sample"]
    /\ UNCHANGED <<dev, g_irq, mask, stopped, cpu, net, vblog>>

\* The -1 stored into the countdown falls between the load and the store of a
\* block's end, and is overwritten.
FollowKickLost ==
    /\ IplAt("follow")
    /\ ipl.seen > mask
    /\ cpu.pc = "run"
    /\ ipl' = [ipl EXCEPT !.pc = "sample"]
    /\ UNCHANGED <<dev, g_irq, mask, exit, stopped, cpu, net, vblog>>

\* A transaction owns the bus, or one is in progress: no sample this pass.
SampleBusy ==
    /\ IplAt("sample")
    /\ ipl' = [ipl EXCEPT !.pc = "top"]
    /\ UNCHANGED <<dev, g_irq, mask, exit, stopped, cpu, net, vblog>>

\* A changed level becomes the candidate.
SampleNew ==
    /\ IplAt("sample")
    /\ Line # ipl.cand
    /\ ipl' = [ipl EXCEPT !.pc = "top", !.cand = Line, !.settled = FALSE]
    /\ UNCHANGED <<dev, g_irq, mask, exit, stopped, cpu, net, vblog>>

\* A candidate not yet old enough waits; an old enough one is the level.  The
\* line having left the level latched in this episode re-arms it.
SampleSame ==
    /\ IplAt("sample")
    /\ Line = ipl.cand
    /\ ipl' = IF Line # ipl.g_ipl /\ ~ipl.settled
              THEN [ipl EXCEPT !.pc = "top"]
              ELSE [ipl EXCEPT !.pc = "test", !.g_ipl = Line, !.lvl = Line,
                               !.held = IF Line # @ THEN 0 ELSE @]
    /\ UNCHANGED <<dev, g_irq, mask, exit, stopped, cpu, net, vblog>>

\* ipl != 0 && ipl > g_irq && ... ipl != av_held
LatchTest ==
    /\ IplAt("test")
    /\ ipl' = [ipl EXCEPT !.pc =
                 IF ipl.lvl > g_irq /\ ipl.lvl # ipl.held THEN "mask" ELSE "virt"]
    /\ UNCHANGED <<dev, g_irq, mask, exit, stopped, cpu, net, vblog>>

\* ... && ipl > g_irq_mask
LatchMasked ==
    /\ IplAt("mask")
    /\ ipl.lvl <= mask
    /\ ipl' = [ipl EXCEPT !.pc = "virt"]
    /\ UNCHANGED <<dev, g_irq, mask, exit, stopped, cpu, net, vblog>>

\* Mutant: the bare-RTE test does not ask whether the CPU sleeps in STOP.
MutRejectAsleep ==
    /\ IplAt("mask")
    /\ ipl.lvl > mask /\ ipl.lvl = 2
    /\ ipl' = [ipl EXCEPT !.pc = "top", !.held = 2]
    /\ UNCHANGED <<dev, g_irq, mask, exit, stopped, cpu, net, vblog>>

\* The guest's HBL handler is a bare RTE: skip it once per line, unless the CPU
\* sleeps in STOP and the interrupt is what wakes it.
HblReject ==
    /\ IplAt("mask")
    /\ ipl.lvl > mask /\ ipl.lvl = 2 /\ ~stopped
    /\ ipl' = [ipl EXCEPT !.pc = "top", !.held = 2]
    /\ UNCHANGED <<dev, g_irq, mask, exit, stopped, cpu, net, vblog>>

\* Still the same blanking interval.
VblRefractory ==
    /\ IplAt("mask")
    /\ ipl.lvl > mask /\ ipl.lvl = 4 /\ ipl.refr
    /\ ipl' = [ipl EXCEPT !.pc = "top"]
    /\ UNCHANGED <<dev, g_irq, mask, exit, stopped, cpu, net, vblog>>

\* Mutant: no level-4 refractory.
MutNoRefractory ==
    /\ IplAt("mask")
    /\ ipl.lvl > mask
    /\ ipl' = [ipl EXCEPT !.pc = "store",
                          !.held = IF ipl.lvl = 6 THEN @ ELSE ipl.lvl]
    /\ UNCHANGED <<dev, g_irq, mask, exit, stopped, cpu, net, vblog>>

LatchAccept ==
    /\ IplAt("mask")
    /\ ipl.lvl > mask
    /\ ipl.lvl = 4 => ~ipl.refr
    /\ ipl' = [ipl EXCEPT !.pc = "store",
                          !.refr = @ \/ ipl.lvl = 4,
                          !.inblank = IF ipl.lvl = 4 THEN dev.blank ELSE @,
                          !.held = IF ipl.lvl = 6 THEN @ ELSE ipl.lvl]
    /\ UNCHANGED <<dev, g_irq, mask, exit, stopped, cpu, net, vblog>>

LatchStore ==
    /\ IplAt("store")
    /\ g_irq' = ipl.lvl
    /\ vblog' = [vblog EXCEPT !.latched = @ \/ ipl.lvl = 4]
    /\ ipl' = [ipl EXCEPT !.pc = "kick"]
    /\ UNCHANGED <<dev, mask, exit, stopped, cpu, net>>

\* IPL_KICK
Kick ==
    /\ IplAt("kick") \/ IplAt("vkick")
    /\ exit' = TRUE
    /\ ipl' = [ipl EXCEPT !.kick = TRUE, !.pc = IF @ = "kick" THEN "virt" ELSE "top"]
    /\ UNCHANGED <<dev, g_irq, mask, stopped, cpu, net, vblog>>

KickLost ==
    /\ IplAt("kick") \/ IplAt("vkick")
    /\ cpu.pc = "run"
    /\ ipl' = [ipl EXCEPT !.kick = TRUE, !.pc = IF @ = "kick" THEN "virt" ELSE "top"]
    /\ UNCHANGED <<dev, g_irq, mask, exit, stopped, cpu, net, vblog>>

\* The virtual level 6: wanted, and above both the latch and the mask.
VirtTest ==
    /\ IplAt("virt")
    /\ ipl' = [ipl EXCEPT !.pc =
                 IF dev.virt /\ 6 > g_irq /\ 6 > mask THEN "rearm" ELSE "top"]
    /\ UNCHANGED <<dev, g_irq, mask, exit, stopped, cpu, net, vblog>>

\* Mutant: a pre-empted VBL stays "latched this episode".
MutNoRearm ==
    /\ IplAt("rearm")
    /\ ipl' = [ipl EXCEPT !.pc = "vstore"]
    /\ UNCHANGED <<dev, g_irq, mask, exit, stopped, cpu, net, vblog>>

\* A VBL or HBL latched and not yet taken is pre-empted: re-arm it.
VirtRearm ==
    /\ IplAt("rearm")
    /\ ipl' = [ipl EXCEPT !.pc = "vstore",
                          !.held = IF g_irq \in {2, 4} THEN 0 ELSE @,
                          !.refr = @ /\ g_irq # 4]
    /\ UNCHANGED <<dev, g_irq, mask, exit, stopped, cpu, net, vblog>>

VirtStore ==
    /\ IplAt("vstore")
    /\ g_irq' = 6
    /\ ipl' = [ipl EXCEPT !.pc = "vkick"]
    /\ UNCHANGED <<dev, mask, exit, stopped, cpu, net, vblog>>

IplStep ==
    \/ FollowLoad \/ FollowDone \/ FollowKick
    \/ SampleNew \/ SampleSame
    \/ LatchTest \/ LatchMasked \/ HblReject \/ VblRefractory \/ LatchAccept
    \/ LatchStore \/ Kick
    \/ VirtTest \/ VirtRearm \/ VirtStore

IplLoses == FollowKickLost \/ KickLost \/ SampleBusy

-----------------------------------------------------------------------------
(* The CPU thread *)

CpuAt(p) == cpu.pc = p

\* Mutant: lowering the mask does not ask for the exit.
MutNoUnmaskExit(m) ==
    /\ CpuAt("run") /\ ~stopped
    /\ cpu' = [cpu EXCEPT !.pc = "sr", !.nr = m]
    /\ UNCHANGED <<dev, g_irq, mask, exit, stopped, ipl, net, vblog>>

\* MakeFromSR: the mask came down past a latched level, so ask for the exit on
\* the CPU thread itself, where it cannot be lost ...
SetSRTest(m) ==
    /\ CpuAt("run") /\ ~stopped
    /\ exit' = (exit \/ (m < mask /\ g_irq > m))
    /\ cpu' = [cpu EXCEPT !.pc = "sr", !.nr = m]
    /\ UNCHANGED <<dev, g_irq, mask, stopped, ipl, net, vblog>>

\* ... and store the mask.  STOP loads SR and sleeps.
SetSRStore ==
    /\ CpuAt("sr")
    /\ mask' = cpu.nr
    /\ stopped' \in BOOLEAN
    /\ cpu' = [cpu EXCEPT !.pc = "run", !.nr = 0]
    /\ UNCHANGED <<dev, g_irq, exit, ipl, net, vblog>>

\* A block end finds the countdown negative; do_cycles refills it before the
\* dispatcher looks at g_irq.  The STOP loop polls by itself.
LeaveBlock ==
    /\ CpuAt("run")
    /\ exit \/ stopped
    /\ exit' = FALSE
    /\ cpu' = [cpu EXCEPT !.pc = "check"]
    /\ UNCHANGED <<dev, g_irq, mask, stopped, ipl, net, vblog>>

\* Mutant: the budget is refilled and the chain goes on.
MutBudgetChains ==
    /\ CpuAt("run") /\ Countdown
    /\ exit' = FALSE
    /\ UNCHANGED <<dev, g_irq, mask, stopped, ipl, cpu, net, vblog>>

BudgetSpent ==
    /\ CpuAt("run") /\ Countdown
    /\ exit' = FALSE
    /\ cpu' = [cpu EXCEPT !.pc = "check"]
    /\ UNCHANGED <<dev, g_irq, mask, stopped, ipl, net, vblog>>

\* intlev
Intlev ==
    /\ CpuAt("check")
    /\ cpu' = IF g_irq > mask THEN [cpu EXCEPT !.pc = "ack", !.nr = g_irq]
                              ELSE [cpu EXCEPT !.pc = "run"]
    /\ UNCHANGED <<dev, g_irq, mask, exit, stopped, ipl, net, vblog>>

\* intlev_ack for the autovectored levels.  Acknowledging a VBL ends the GLUE's
\* request, except that the line stays up for the rest of the blanking interval.
AckAuto ==
    /\ CpuAt("ack") /\ cpu.nr \in {2, 4}
    /\ dev' = IF cpu.nr = 4
              THEN [dev EXCEPT !.acked = dev.vbl, !.vbl = @ /\ dev.blank]
              ELSE dev
    /\ cpu' = [cpu EXCEPT !.pc = "exc"]
    /\ UNCHANGED <<g_irq, mask, exit, stopped, ipl, net, vblog>>

\* intlev_ack, level 6: the virtual cause, unless a real one races it and the
\* virtual channel does not outrank it.
AckVirtual ==
    /\ CpuAt("ack") /\ cpu.nr = 6 /\ dev.virt
    /\ dev' = [dev EXCEPT !.virt = FALSE]
    /\ cpu' = [cpu EXCEPT !.pc = "exc", !.tries = 0]
    /\ UNCHANGED <<g_irq, mask, exit, stopped, ipl, net, vblog>>

\* The MFP answers the bus IACK with a vector and drops its request.
AckMfp ==
    /\ CpuAt("ack") /\ cpu.nr = 6 /\ dev.mfp
    /\ dev' = [dev EXCEPT !.mfp = FALSE]
    /\ cpu' = [cpu EXCEPT !.pc = "exc", !.tries = 0]
    /\ UNCHANGED <<g_irq, mask, exit, stopped, ipl, net, vblog>>

\* Nobody answered (0xFFFE): retry once with the latch kept, then keep it only
\* while the line is still at the level.
AckNone ==
    /\ CpuAt("ack") /\ cpu.nr = 6
    /\ ~dev.virt \/ dev.mfp
    /\ LET keep == cpu.tries = 0 \/ Line = 6
       IN  cpu' = [cpu EXCEPT !.pc = "clear", !.keep = keep,
                              !.tries = IF keep THEN 1 ELSE 0]
    /\ UNCHANGED <<dev, g_irq, mask, exit, stopped, ipl, net, vblog>>

\* do_interrupt, level 2: the handler's whole effect is known, so apply it
\* without the exception; never while the CPU is stopped.
HblSuppress ==
    /\ CpuAt("exc") /\ cpu.nr = 2 /\ ~stopped
    /\ mask' \in (IF mask = 0 THEN {0, 3} ELSE {mask})
    /\ cpu' = [cpu EXCEPT !.pc = "clear"]
    /\ UNCHANGED <<dev, g_irq, exit, stopped, ipl, net, vblog>>

\* Exception: the mask rises to the level and a stopped CPU wakes.
TakeException ==
    /\ CpuAt("exc")
    /\ mask' = cpu.nr
    /\ stopped' = FALSE
    /\ vblog' = [vblog EXCEPT !.served = @ \/ (cpu.nr = 4 /\ vblog.latched)]
    /\ cpu' = [cpu EXCEPT !.pc = "clear"]
    /\ UNCHANGED <<dev, g_irq, exit, ipl, net>>

\* Mutant: the latch is cleared with a plain store.
MutPlainClear ==
    /\ CpuAt("clear") /\ ~cpu.keep
    /\ g_irq' = 0
    /\ cpu' = [cpu EXCEPT !.pc = "run", !.nr = 0]
    /\ UNCHANGED <<dev, mask, exit, stopped, ipl, net, vblog>>

\* Clear only what was taken: a higher level latched meanwhile stays.
ClearLatch ==
    /\ CpuAt("clear") /\ ~cpu.keep
    /\ g_irq' = IF g_irq = cpu.nr THEN 0 ELSE g_irq
    /\ cpu' = [cpu EXCEPT !.pc = "run", !.nr = 0]
    /\ UNCHANGED <<dev, mask, exit, stopped, ipl, net, vblog>>

\* Not acknowledged: keep the level pending and come back at once.
KeepLatch ==
    /\ CpuAt("clear") /\ cpu.keep
    /\ g_irq' = IF g_irq < cpu.nr THEN cpu.nr ELSE g_irq
    /\ exit' = TRUE
    /\ cpu' = [cpu EXCEPT !.pc = "run", !.nr = 0, !.keep = FALSE]
    /\ UNCHANGED <<dev, mask, stopped, ipl, net, vblog>>

Deliver ==
    \/ SetSRStore \/ LeaveBlock \/ Intlev
    \/ AckAuto \/ AckVirtual \/ AckMfp \/ AckNone
    \/ HblSuppress \/ TakeException \/ ClearLatch \/ KeepLatch

-----------------------------------------------------------------------------
(* The network receive thread: atari_request_irq_level *)

NetTest ==
    /\ NetLevel # 0 /\ net.pc = "idle"
    /\ net' = [pc |-> IF NetLevel > g_irq THEN "store" ELSE "brk"]
    /\ UNCHANGED <<dev, g_irq, mask, exit, stopped, ipl, cpu, vblog>>

NetStore ==
    /\ net.pc = "store"
    /\ g_irq' = NetLevel
    /\ net' = [pc |-> "brk"]
    /\ UNCHANGED <<dev, mask, exit, stopped, ipl, cpu, vblog>>

\* set_special: the countdown store can be lost here too.
NetBrk ==
    /\ net.pc = "brk"
    /\ exit' \in (IF CpuAt("run") THEN {TRUE, exit} ELSE {TRUE})
    /\ net' = [pc |-> "idle"]
    /\ UNCHANGED <<dev, g_irq, mask, stopped, ipl, cpu, vblog>>

-----------------------------------------------------------------------------
Init ==
    /\ dev = [vbl |-> FALSE, acked |-> FALSE, blank |-> FALSE, hbl |-> FALSE,
              mfp |-> FALSE, virt |-> FALSE, phantom |-> 0]
    /\ g_irq = 0 /\ mask = 7 /\ exit = FALSE /\ stopped = FALSE
    /\ ipl = [pc |-> "top", cand |-> 0, settled |-> TRUE, g_ipl |-> 0, lvl |-> 0,
              held |-> 0, refr |-> FALSE, inblank |-> FALSE, kick |-> FALSE,
              seen |-> 0]
    /\ cpu = [pc |-> "run", nr |-> 0, keep |-> FALSE, tries |-> 0]
    /\ net = [pc |-> "idle"]
    /\ vblog = [latched |-> FALSE, served |-> FALSE]

Next ==
    \/ Device \/ Settle \/ RefractoryEnds
    \/ IplStep \/ IplLoses
    \/ (\E m \in GuestMasks : SetSRTest(m)) \/ BudgetSpent \/ Deliver
    \/ NetTest \/ NetStore \/ NetBrk

Spec == Init /\ [][Next]_vars

\* Both threads are real-time loops that never block; a repeated exit request
\* cannot fall into a block's load/store window for ever, the bus is released
\* between transactions (busy_spin_after), every guest loop has block ends, the
\* budget is finite and time passes.
Fairness ==
    /\ WF_vars(IplStep)
    /\ SF_vars(FollowKick)
    /\ SF_vars(SampleNew) /\ SF_vars(SampleSame)
    /\ WF_vars(Deliver) /\ SF_vars(LeaveBlock) /\ SF_vars(BudgetSpent)
    /\ WF_vars(NetStore \/ NetBrk)
    /\ WF_vars(Settle) /\ SF_vars(RefractoryEnds) /\ WF_vars(BlankEnd)

FairSpec == Spec /\ Fairness

-----------------------------------------------------------------------------
(* Properties *)

\* What IplDeliveryProofs proves inductive when no network interrupt exists.
Kicking == exit \/ ipl.kick \/ ipl.pc \in {"kick", "vkick"}
Taking == cpu.pc \in {"ack", "exc", "clear"}

DevType == [vbl : BOOLEAN, acked : BOOLEAN, blank : BOOLEAN, hbl : BOOLEAN,
            mfp : BOOLEAN, virt : BOOLEAN, phantom : {0, 2, 4}]
IplType == [pc : {"top", "follow", "sample", "test", "mask", "store", "kick",
                  "virt", "rearm", "vstore", "vkick"},
            cand : Levels, settled : BOOLEAN, g_ipl : Levels, lvl : Levels,
            held : {0, 2, 4}, refr : BOOLEAN, inblank : BOOLEAN, kick : BOOLEAN,
            seen : Levels]
CpuType == [pc : {"run", "sr", "check", "ack", "exc", "clear"}, nr : 0..7,
            keep : BOOLEAN, tries : {0, 1}]

\* Every variable keeps its type; g_irq only ever holds a level the Atari has.
TypeOK ==
    /\ dev \in DevType
    /\ g_irq \in Levels /\ mask \in 0..7
    /\ exit \in BOOLEAN /\ stopped \in BOOLEAN
    /\ ipl \in IplType /\ cpu \in CpuType
    /\ net \in [pc : {"idle", "store", "brk"}]
    /\ vblog \in [latched : BOOLEAN, served : BOOLEAN]

\* "a request is not fire-and-forget": an unmasked latch the CPU is not looking
\* at always has somebody left to take compiled code out of its chain - an exit
\* request that has landed, or the follow-up of ipl_task - although requests are
\* lost, the mask moves up and down and levels pre-empt each other.
LatchNeverForgotten ==
    g_irq > mask /\ cpu.pc = "run" /\ ~stopped =>
        exit \/ ipl.kick \/ ipl.pc \in {"kick", "vkick"} \/ net.pc = "brk"

\* "clear only what we took, and never lower it": a latched level leaves g_irq
\* only when the CPU has taken it, or under a higher one.
LatchNeverLowered ==
    [][g_irq' < g_irq => g_irq' = 0 /\ cpu.pc = "clear" /\ cpu.nr = g_irq]_vars

\* "one latch per ASSERTION EPISODE": a VBL the guest has taken is not latched
\* again while the GLUE still holds the same assertion.
VblLatchedOnce ==
    [][ipl.pc = "store" /\ ipl'.pc = "kick" /\ ipl.lvl = 4 => ~vblog.served]_vars

\* An unmasked latch is taken, or masked - for ipl_task's own latches without
\* waiting for a block budget, for the network thread's with it.
LatchIsServed ==
    (g_irq > mask) ~> (g_irq <= mask \/ cpu.pc \in {"ack", "exc", "clear"})

\* A VBL pre-empted by a virtual or a real level 6 is still delivered once the
\* others fall silent and the guest lets level 4 in.
VblDelivered ==
    <>[](/\ ~dev.mfp /\ ~dev.virt /\ ~dev.hbl
         /\ dev.vbl /\ ~dev.acked => mask < 4)
    => (dev.vbl /\ ~dev.acked ~> dev.acked)

\* "any unmasked interrupt WAKES a stopped CPU": a CPU in STOP whose mask lets
\* level 2 in does not sleep through scan lines that ipl_task sees come and go,
\* although the guest's HBL handler is a bare RTE.
HblWakesStopped ==
    /\ []<>(ipl.pc = "test" /\ ipl.lvl = 2)
    /\ []<>(ipl.pc = "test" /\ ipl.lvl = 0)
    => []<>(~(stopped /\ mask < 2))
=============================================================================
