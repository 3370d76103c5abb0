------------------------------ MODULE DmaSound ------------------------------
(***************************************************************************)
(* The STE DMA sound engine (platforms/atari/audio/dmasnd_capture.c), which *)
(* exists only on the host.  Three threads share it through atomics:       *)
(*                                                                         *)
(*   cpu   the CPU thread: guest writes of the sound registers             *)
(*         (dmasnd_snoop8), which stage a frame and start and stop the     *)
(*         sound, and RESET (dmasnd_capture_reset);                        *)
(*   ipl   ipl_task: the frame clock (dmasnd_pump, frames_advance), which  *)
(*         latches the staged frame at every boundary and reports it to    *)
(*         the hub (MfpHub!FrameEvent);                                    *)
(*   pump  the capture thread, which copies what became active.            *)
(*                                                                         *)
(* One action is one access to a field another thread writes.  Addresses   *)
(* are small numbers and a byte plays for one tick, so a frame lasts as    *)
(* long as it is; no tick falls inside a pass of the frame clock.  The     *)
(* eventfd only shortens the wait of the pump, which looks every 100 ms    *)
(* anyhow.                                                                 *)
(***************************************************************************)
EXTENDS Naturals

CONSTANTS
    Starts, Ends,   \* frame addresses the guest writes
    Guard,          \* boundaries of one pass, and copies of one wake (64)
    GenMod,         \* g_gen wraps at this (2^32)
    MaxOwed,        \* bound on the generations the pump is behind
    MaxAge          \* bound on the ticks since the active frame began

ASSUME AddressAssumption == Starts \subseteq Nat /\ Ends \subseteq Nat
ASSUME BoundAssumption ==
    /\ Guard \in Nat \ {0} /\ MaxAge \in Nat
    /\ GenMod \in Nat /\ MaxOwed \in Nat /\ 0 < MaxOwed /\ MaxOwed < GenMod

VARIABLES
    reg,            \* the staged frame: start and end registers
    enabled, repeat, parked,
    actS, actE,     \* the active frame
    age,            \* ticks since g_ft0
    gen,            \* g_gen
    cpu, ipl, pump,
    owed,           \* generations since the pump last looked (for properties)
    cleared         \* g_gen was reset since the pump last looked

frame == <<actS, actE, age>>
ctrl == <<enabled, repeat, parked>>
count == <<gen, owed, cleared>>
vars == <<reg, enabled, repeat, parked, actS, actE, age, gen, cpu, ipl, pump,
          owed, cleared>>

AddrS == Starts \cup {0}
AddrE == Ends \cup {0}

Playing == enabled /\ ~parked

\* gen - last_gen, unsigned.
Behind == IF gen >= pump.last THEN gen - pump.last ELSE gen + GenMod - pump.last

Least(a, b) == IF a < b THEN a ELSE b

-----------------------------------------------------------------------------
(* The CPU thread *)

CpuAt(p) == cpu.pc = p
CpuTo(p) == cpu' = [cpu EXCEPT !.pc = p]
CpuHome == cpu' = [pc |-> "idle", was |-> FALSE, silent |-> FALSE, k |-> 1]

StageStart(a) ==
    /\ CpuAt("idle")
    /\ reg' = [reg EXCEPT !.s = a]
    /\ UNCHANGED <<ctrl, frame, count, cpu, ipl, pump>>

StageEnd(a) ==
    /\ CpuAt("idle")
    /\ reg' = [reg EXCEPT !.e = a]
    /\ UNCHANGED <<ctrl, frame, count, cpu, ipl, pump>>

\* $FF8901: the repeat bit is stored first.  was_enabled is the CPU thread's own.
CtrlWrite(en, rep) ==
    /\ CpuAt("idle")
    /\ repeat' = rep
    /\ IF en \/ enabled
       THEN cpu' = [cpu EXCEPT !.pc = IF en THEN "enable" ELSE "disable",
                               !.was = enabled, !.silent = ~Playing]
       ELSE CpuHome
    /\ UNCHANGED <<reg, enabled, parked, frame, count, ipl, pump>>

CtrlDisable ==
    /\ CpuAt("disable")
    /\ enabled' = FALSE
    /\ CpuHome
    /\ UNCHANGED <<reg, repeat, parked, frame, count, ipl, pump>>

\* The enable edge commits.
CtrlEnable ==
    /\ CpuAt("enable")
    /\ enabled' = TRUE
    /\ IF cpu.was THEN CpuHome ELSE cpu' = [cpu EXCEPT !.pc = "commitS", !.silent = FALSE]
    /\ UNCHANGED <<reg, repeat, parked, frame, count, ipl, pump>>

\* dmasnd_commit, is_enable: the staged frame becomes active now.
CommitS ==
    /\ CpuAt("commitS")
    /\ actS' = reg.s
    /\ CpuTo("commitE")
    /\ UNCHANGED <<reg, ctrl, actE, age, count, ipl, pump>>

CommitE ==
    /\ CpuAt("commitE")
    /\ actE' = reg.e
    /\ CpuTo("commitT")
    /\ UNCHANGED <<reg, ctrl, actS, age, count, ipl, pump>>

CommitT ==
    /\ CpuAt("commitT")
    /\ age' = 0
    /\ CpuTo("unpark")
    /\ UNCHANGED <<reg, ctrl, actS, actE, count, ipl, pump>>

CommitUnpark ==
    /\ CpuAt("unpark")
    /\ parked' = FALSE
    /\ CpuTo("commitGen")
    /\ UNCHANGED <<reg, enabled, repeat, frame, count, ipl, pump>>

\* g_gen, which never laps the pump (2^32 boundaries within 100 ms).
NewGeneration ==
    /\ Behind < MaxOwed
    /\ gen' = IF gen + 1 = GenMod THEN 0 ELSE gen + 1
    /\ owed' = Least(owed + 1, MaxOwed)

CommitGen ==
    /\ CpuAt("commitGen")
    /\ NewGeneration
    /\ CpuHome
    /\ UNCHANGED <<reg, ctrl, frame, cleared, ipl, pump>>

\* dmasnd_capture_reset, store by store.
ResetStores == <<"reg", "enabled", "gen", "repeat", "parked", "actS", "actE">>

StartReset ==
    /\ CpuAt("idle")
    /\ cpu' = [cpu EXCEPT !.pc = "reset", !.k = 1]
    /\ UNCHANGED <<reg, ctrl, frame, count, ipl, pump>>

ResetStep ==
    LET f == ResetStores[cpu.k]
    IN  /\ CpuAt("reset")
        /\ reg' = IF f = "reg" THEN [s |-> 0, e |-> 0] ELSE reg
        /\ enabled' = (enabled /\ f # "enabled")
        /\ gen' = IF f = "gen" THEN 0 ELSE gen
        /\ cleared' = (cleared \/ f = "gen")
        /\ repeat' = (repeat /\ f # "repeat")
        /\ parked' = (parked \/ f = "parked")
        /\ actS' = IF f = "actS" THEN 0 ELSE actS
        /\ actE' = IF f = "actE" THEN 0 ELSE actE
        /\ IF cpu.k = 7 THEN CpuHome ELSE cpu' = [cpu EXCEPT !.k = @ + 1]
        /\ UNCHANGED <<age, owed, ipl, pump>>

GuestWrite ==
    \/ \E a \in Starts : StageStart(a)
    \/ \E a \in Ends : StageEnd(a)
    \/ \E en, rep \in BOOLEAN : CtrlWrite(en, rep)

CpuFinish ==
    \/ CtrlDisable \/ CtrlEnable
    \/ CommitS \/ CommitE \/ CommitT \/ CommitUnpark \/ CommitGen
    \/ ResetStep

-----------------------------------------------------------------------------
(* ipl_task: the frame clock *)

IplAt(p) == ipl.pc = p
IplTo(p) == ipl' = [ipl EXCEPT !.pc = p]
IplHome == ipl' = [pc |-> "idle", s |-> 0, e |-> 0, t |-> 0, n |-> 0]

\* dmasnd_pump
PassStart ==
    /\ IplAt("idle") /\ Playing
    /\ IplTo("loadS")
    /\ UNCHANGED <<reg, ctrl, frame, count, cpu, pump>>

\* frames_advance loads the active frame and its start ...
LoadS ==
    /\ IplAt("loadS")
    /\ ipl' = [ipl EXCEPT !.pc = "loadE", !.s = actS]
    /\ UNCHANGED <<reg, ctrl, frame, count, cpu, pump>>

LoadE ==
    /\ IplAt("loadE")
    /\ ipl' = [ipl EXCEPT !.pc = "loadT", !.e = actE]
    /\ UNCHANGED <<reg, ctrl, frame, count, cpu, pump>>

\* ... and an empty frame parks.
LoadT ==
    /\ IplAt("loadT")
    /\ ipl' = [ipl EXCEPT !.pc = IF ipl.e <= ipl.s THEN "park" ELSE "loop", !.t = age]
    /\ UNCHANGED <<reg, ctrl, frame, count, cpu, pump>>

Due == ipl.t >= ipl.e - ipl.s /\ ipl.n < Guard

PassEnd ==
    /\ IplAt("loop") /\ ~Due
    /\ IplHome
    /\ UNCHANGED <<reg, ctrl, frame, count, cpu, pump>>

\* Mutant: a boundary does not wait for the frame to end.
MutBoundaryEarly ==
    /\ IplAt("loop") /\ ipl.n < Guard
    /\ ipl' = [ipl EXCEPT !.pc = "stageE", !.t = @ + ipl.s - ipl.e,
                          !.n = @ + 1, !.s = reg.s]
    /\ UNCHANGED <<reg, ctrl, frame, count, cpu, pump>>

\* A boundary: the clock moves by the length of the frame that ended, and the
\* staged registers are read ...
Boundary ==
    /\ IplAt("loop") /\ Due
    /\ ipl' = [ipl EXCEPT !.pc = "stageE", !.t = @ + ipl.s - ipl.e,
                          !.n = @ + 1, !.s = reg.s]
    /\ UNCHANGED <<reg, ctrl, frame, count, cpu, pump>>

StageE ==
    /\ IplAt("stageE")
    /\ ipl' = [ipl EXCEPT !.pc = "storeS", !.e = reg.e]
    /\ UNCHANGED <<reg, ctrl, frame, count, cpu, pump>>

\* ... and latched, ...
StoreS ==
    /\ IplAt("storeS")
    /\ actS' = ipl.s
    /\ IplTo("storeE")
    /\ UNCHANGED <<reg, ctrl, actE, age, count, cpu, pump>>

StoreE ==
    /\ IplAt("storeE")
    /\ actE' = ipl.e
    /\ IplTo("storeT")
    /\ UNCHANGED <<reg, ctrl, actS, age, count, cpu, pump>>

StoreT ==
    /\ IplAt("storeT")
    /\ age' = ipl.t
    /\ IplTo("gen")
    /\ UNCHANGED <<reg, ctrl, actS, actE, count, cpu, pump>>


\* ... the pump is told, ...
StoreGen ==
    /\ IplAt("gen")
    /\ NewGeneration
    /\ IplTo("event")
    /\ UNCHANGED <<reg, ctrl, frame, cleared, cpu, pump>>

\* Mutant: only an empty frame ends the sound.
MutNeverParks ==
    /\ IplAt("event")
    /\ IplTo(IF ipl.e <= ipl.s THEN "park" ELSE "loop")
    /\ UNCHANGED <<reg, ctrl, frame, count, cpu, pump>>

\* ... frame_end_event reports to the hub, and a single shot, or an empty frame,
\* ends the sound.
FrameEnd ==
    /\ IplAt("event")
    /\ IplTo(IF ~repeat \/ ipl.e <= ipl.s THEN "park" ELSE "loop")
    /\ UNCHANGED <<reg, ctrl, frame, count, cpu, pump>>

Park ==
    /\ IplAt("park")
    /\ parked' = TRUE
    /\ IplHome
    /\ UNCHANGED <<reg, enabled, repeat, frame, count, cpu, pump>>

IplStep ==
    \/ PassStart \/ LoadS \/ LoadE \/ LoadT \/ PassEnd
    \/ Boundary \/ StageE \/ StoreS \/ StoreE \/ StoreT \/ StoreGen \/ FrameEnd
    \/ Park

\* Time passes.
Tick ==
    /\ IplAt("idle") /\ age < MaxAge
    /\ age' = age + 1
    /\ UNCHANGED <<reg, ctrl, actS, actE, count, cpu, ipl, pump>>

-----------------------------------------------------------------------------
(* pump_thread *)

PumpAt(p) == pump.pc = p

\* Mutant: one copy per wakeup.
MutOnePerWake ==
    /\ PumpAt("look") /\ gen # pump.last
    /\ pump' = [pump EXCEPT !.pc = "loadS", !.last = gen, !.n = 1]
    /\ owed' = 0 /\ cleared' = FALSE
    /\ UNCHANGED <<reg, ctrl, frame, gen, cpu, ipl>>

\* One copy per generation, Guard at most.
PumpLook ==
    /\ PumpAt("look") /\ gen # pump.last
    /\ pump' = [pump EXCEPT !.pc = "loadS", !.last = gen, !.n = Least(Behind, Guard)]
    /\ owed' = 0 /\ cleared' = FALSE
    /\ UNCHANGED <<reg, ctrl, frame, gen, cpu, ipl>>

PumpS ==
    /\ PumpAt("loadS")
    /\ pump' = [pump EXCEPT !.pc = "copy", !.s = actS]
    /\ UNCHANGED <<reg, ctrl, frame, count, cpu, ipl>>

\* The active frame goes to the output pump.n times, unless it is empty.
PumpCopy ==
    /\ PumpAt("copy")
    /\ pump' = [pump EXCEPT !.pc = "look", !.s = 0, !.n = 0]
    /\ UNCHANGED <<reg, ctrl, frame, count, cpu, ipl>>

PumpStep == PumpLook \/ PumpS \/ PumpCopy

-----------------------------------------------------------------------------
Init ==
    /\ reg = [s |-> 0, e |-> 0]
    /\ enabled = FALSE /\ repeat = FALSE /\ parked = FALSE
    /\ actS = 0 /\ actE = 0 /\ age = 0 /\ gen = 0
    /\ cpu = [pc |-> "idle", was |-> FALSE, silent |-> FALSE, k |-> 1]
    /\ ipl = [pc |-> "idle", s |-> 0, e |-> 0, t |-> 0, n |-> 0]
    /\ pump = [pc |-> "look", last |-> 0, n |-> 0, s |-> 0]
    /\ owed = 0 /\ cleared = FALSE

Next ==
    \/ GuestWrite \/ StartReset \/ CpuFinish
    \/ IplStep \/ Tick
    \/ PumpStep

Spec == Init /\ [][Next]_vars

\* The threads go on with what they have begun, ipl_task never rests, and time
\* passes; nothing makes the guest act.
FairSpec ==
    /\ Spec
    /\ WF_vars(CpuFinish) /\ WF_vars(IplStep) /\ WF_vars(PumpStep)
    /\ SF_vars(Tick)

-----------------------------------------------------------------------------
(* Properties *)

Frames == [s : AddrS, e : AddrE]
CpuType == [pc : {"idle", "enable", "disable", "commitS", "commitE", "commitT",
                  "unpark", "commitGen", "reset"},
            was : BOOLEAN, silent : BOOLEAN, k : 1..7]
IplType == [pc : {"idle", "loadS", "loadE", "loadT", "loop", "stageE", "storeS",
                  "storeE", "storeT", "gen", "event", "park"},
            s : AddrS, e : AddrE, t : 0..MaxAge, n : 0..Guard]
PumpType == [pc : {"look", "loadS", "copy"}, last : 0..(GenMod - 1),
             n : 0..Guard, s : AddrS]

\* Every variable keeps its type; in particular the clock is never ahead of time.
TypeOK ==
    /\ reg \in Frames
    /\ enabled \in BOOLEAN /\ repeat \in BOOLEAN /\ parked \in BOOLEAN
    /\ actS \in AddrS /\ actE \in AddrE
    /\ age \in 0..MaxAge /\ gen \in 0..(GenMod - 1)
    /\ cpu \in CpuType /\ ipl \in IplType /\ pump \in PumpType
    /\ owed \in 0..MaxOwed /\ cleared \in BOOLEAN

\* What DmaSoundProofs shows to be inductive: the loop of a pass has a frame, and
\* the count the pump computes is the count of generations it owes.
LoopHasFrame == ipl.pc = "loop" => ipl.s < ipl.e
CountExact == ~cleared => Behind = owed
SoundInv == TypeOK /\ LoopHasFrame /\ CountExact

\* "one copy PER GENERATION, not per wakeup": however late the pump is, and
\* although two threads count generations, it copies once for every frame that
\* became active since it last looked, up to its limit - as long as no reset has
\* set the count back under it.
OneCopyPerGeneration ==
    [][pump.pc = "look" /\ pump'.pc = "loadS" /\ ~cleared
        => pump'.n = Least(owed, Guard)]_vars

\* "self-clears at frame end in non-repeat mode": a sound left alone in single-
\* shot mode comes to its end, although starting it races with the frame clock.
SingleShotEnds ==
    <>[](enabled /\ ~repeat /\ CpuAt("idle")) => <>[]parked


\* "the play bit, which self-clears at frame end in non-repeat mode exactly like
\* the real hardware": so setting it when it reads 0 starts a frame.
PlayBitStarts ==
    [][cpu.pc = "enable" /\ cpu'.pc = "idle" /\ reg.s < reg.e => ~cpu.silent]_vars
=============================================================================
