------------------------------- MODULE MfpIack -------------------------------
(***************************************************************************)
(* The acknowledge of the real MFP (68901) across a bus that can fail:     *)
(* intlev_ack (jit_glue.cpp), the level-6 repair in do_interrupt           *)
(* (newcpu.cpp) and the orphan watchdog of ipl_task (emulator.c).          *)
(*                                                                         *)
(*   chip    the 68901 on the Atari's board, in software-EOI mode;         *)
(*   cpu     the CPU thread: one level-6 do_interrupt;                     *)
(*   guest   the interrupt handlers the guest runs;                        *)
(*   wd      the watchdog, in ipl_task.                                    *)
(*                                                                         *)
(* One action is one bus cycle and the thread-local decisions after it.    *)
(***************************************************************************)
EXTENDS FiniteSetsExt

CONSTANTS
    Channel,        \* channels in use, a subset of 0..15; 8 and up in bank A
    MaxFault        \* bound on the bus cycles that go wrong

ASSUME ChannelAssumption == Channel \subseteq 0..15
ASSUME BoundsAssumption == MaxFault \in Nat

VARIABLES
    chip,       \* pending and in-service channels: [ipr, isr]
    latch,      \* g_irq holds level 6
    cpu,        \* [pc, why, vec]: where do_interrupt is
    noack,      \* noack_retries, 2 standing for any more
    guest,      \* [busy, open]: the handler at mask 6, handlers below it
    wd,         \* [pc, isr, ipr, bad, prev]: the sample being taken, wd_prev
    faults,     \* bus cycles that went wrong so far
    board,      \* [fast, live]: isr_fast and the live-level check
    owed        \* acknowledged by the chip and not delivered (for properties)

vars == <<chip, latch, cpu, noack, guest, wd, faults, board, owed>>

NoCh == -1

BankA == {c \in Channel : c >= 8}
BankB == Channel \ BankA

-----------------------------------------------------------------------------
(* The chip *)

\* A channel asks when it is pending and nothing as high is in service.
Asking == {c \in chip.ipr : \A d \in chip.isr : c > d}

Line == Asking # {}

Raise(c) ==
    /\ c \notin chip.ipr
    /\ chip' = [chip EXCEPT !.ipr = @ \cup {c}]
    /\ UNCHANGED <<latch, cpu, noack, guest, wd, faults, board, owed>>

\* A cycle goes wrong.
Fault == faults < MaxFault /\ faults' = faults + 1

-----------------------------------------------------------------------------
(* The guest *)

Running == cpu.pc = "run"

\* It clears a pending bit.
Withdraw(c) ==
    /\ Running /\ c \in chip.ipr
    /\ chip' = [chip EXCEPT !.ipr = @ \ {c}]
    /\ UNCHANGED <<latch, cpu, noack, guest, wd, faults, board, owed>>

\* A handler writes its EOI and returns, the innermost one first.
Return ==
    /\ Running
    /\ \E c \in Channel :
         /\ \/ c = guest.busy /\ guest' = [guest EXCEPT !.busy = NoCh]
            \/ /\ guest.busy = NoCh /\ guest.open # {} /\ c = Max(guest.open)
               /\ guest' = [guest EXCEPT !.open = @ \ {c}]
         /\ chip' = [chip EXCEPT !.isr = @ \ {c}]
    /\ UNCHANGED <<latch, cpu, noack, wd, faults, board, owed>>

\* A handler lets higher channels in while it is in service.
Lower ==
    /\ Running /\ guest.busy # NoCh
    /\ guest' = [busy |-> NoCh, open |-> guest.open \cup {guest.busy}]
    /\ UNCHANGED <<chip, latch, cpu, noack, wd, faults, board, owed>>

-----------------------------------------------------------------------------
(* The CPU thread *)

\* ipl_task latches the level it samples.
Latch ==
    /\ Line /\ ~latch
    /\ latch' = TRUE
    /\ UNCHANGED <<chip, cpu, noack, guest, wd, faults, board, owed>>

Go(pc, why, vec) == cpu' = [pc |-> pc, why |-> why, vec |-> vec]

\* interrupt_taken = false, clear_irq_latch = false: intlev tries again.
Keep == Go("run", "", NoCh)

\* Mutant: a cycle without an answer is never counted.
MutRetry == Keep /\ noack' = noack

\* "++noack_retries < 2", else what is in service is looked up.
Retry ==
    IF noack = 0 THEN Keep /\ noack' = 1
    ELSE Go("isra", "last", NoCh) /\ noack' = 2

\* pistorm_iack_vector = 0xFFFE.
NoAnswer ==
    IF board.fast THEN Go("isra", "fast", NoCh) /\ noack' = noack ELSE Retry

\* A vector outside 0x40..0x4F.
Garbled == Go("isra", "garbled", NoCh) /\ noack' = 0

\* intlev: level 6 is latched and not masked.
Takes == Running /\ latch /\ guest.busy = NoCh

\* The live-level check: no bus cycle.
Phantom ==
    /\ Takes /\ board.live /\ ~Line
    /\ NoAnswer
    /\ UNCHANGED <<chip, latch, guest, wd, faults, board, owed>>

\* The chip acknowledges its highest request; its vector may be lost on the way.
Serviced ==
    /\ Takes /\ Line
    /\ LET c == Max(Asking)
       IN  /\ chip' = [ipr |-> chip.ipr \ {c}, isr |-> chip.isr \cup {c}]
           /\ owed' = owed \cup {c}
           /\ \/ Go("exc", "", c) /\ UNCHANGED <<noack, faults>>
              \/ Garbled /\ Fault
              \/ NoAnswer /\ Fault
    /\ UNCHANGED <<latch, guest, wd, board>>

\* The cycle does not reach the chip.
Unreached ==
    /\ Takes /\ Line
    /\ NoAnswer /\ Fault
    /\ UNCHANGED <<chip, latch, guest, wd, board, owed>>

\* The chip has nothing to say: a time-out, or whatever the lines float at.
IdleCycle ==
    /\ Takes /\ ~Line /\ ~board.live
    /\ \/ NoAnswer /\ UNCHANGED faults
       \/ Garbled /\ Fault
    /\ UNCHANGED <<chip, latch, guest, wd, board, owed>>

\* atari_recover_mfp_vector_from_isrb returned 0.
Unrecovered ==
    CASE cpu.why = "fast" -> Retry
      [] cpu.why = "last" -> Go("live", "", NoCh) /\ noack' = noack
      [] cpu.why = "garbled" -> Keep /\ noack' = noack

\* Mutant: the pending channels are taken for the ones in service.
MutRecoverFrom(bank) == chip.ipr \cap bank

\* What the read of ISRA or ISRB sees.
RecoverFrom(bank) == chip.isr \cap bank

\* ISRA first: it outranks all of ISRB.
ReadISRA ==
    /\ cpu.pc = "isra"
    /\ LET found == RecoverFrom(BankA)
       IN  \/ found # {} /\ Go("exc", "", Max(found)) /\ UNCHANGED <<noack, faults>>
           \/ found = {} /\ Go("isrb", cpu.why, NoCh) /\ UNCHANGED <<noack, faults>>
           \/ Unrecovered /\ Fault
    /\ UNCHANGED <<chip, latch, guest, wd, board, owed>>

ReadISRB ==
    /\ cpu.pc = "isrb"
    /\ LET found == RecoverFrom(BankB)
       IN  \/ found # {} /\ Go("exc", "", Max(found)) /\ UNCHANGED <<noack, faults>>
           \/ found = {} /\ Unrecovered /\ UNCHANGED faults
           \/ Unrecovered /\ Fault
    /\ UNCHANGED <<chip, latch, guest, wd, board, owed>>

\* atari_live_ipl_level: the request is dropped unless the line still asks for
\* it (or the level cannot be read).
LiveLevel ==
    /\ cpu.pc = "live"
    /\ \/ Line /\ UNCHANGED <<latch, noack, faults>>
       \/ ~Line /\ latch' = FALSE /\ noack' = 0 /\ UNCHANGED faults
       \/ Fault /\ UNCHANGED <<latch, noack>>
    /\ Keep
    /\ UNCHANGED <<chip, guest, wd, board, owed>>

\* Exception, then the latch is cleared.
TakeException ==
    /\ cpu.pc = "exc"
    /\ guest' = [guest EXCEPT !.busy = cpu.vec]
    /\ owed' = owed \ {cpu.vec}
    /\ latch' = FALSE /\ noack' = 0
    /\ Keep
    /\ UNCHANGED <<chip, wd, faults, board>>

Cpu ==
    \/ Phantom \/ Serviced \/ Unreached \/ IdleCycle
    \/ ReadISRA \/ ReadISRB \/ LiveLevel \/ TakeException

-----------------------------------------------------------------------------
(* The watchdog, about once a second: four reads, in this order. *)

WdAt(pc) == wd.pc = pc

\* One read; one that fails, or reads all ones, spoils the sample.
WdRead ==
    /\ wd' \in {[wd EXCEPT !.pc = CASE WdAt("isra") -> "isrb" [] WdAt("isrb") -> "ipra"
                                    [] WdAt("ipra") -> "iprb" [] OTHER -> "judge",
                           !.isr = CASE WdAt("isra") -> chip.isr \cap BankA
                                     [] WdAt("isrb") -> @ \cup (chip.isr \cap BankB)
                                     [] OTHER -> @,
                           !.ipr = CASE WdAt("ipra") -> chip.ipr \cap BankA
                                     [] WdAt("iprb") -> @ \cup (chip.ipr \cap BankB)
                                     [] OTHER -> @,
                           !.bad = wd.bad \/ b] : b \in BOOLEAN}
    /\ ~WdAt("judge")
    /\ IF wd'.bad /\ ~wd.bad THEN Fault ELSE UNCHANGED faults
    /\ UNCHANGED <<chip, latch, cpu, noack, guest, board, owed>>

\* In service and pending again.
Orphans == wd.isr \cap wd.ipr

\* Mutant: an implausible sample is believed.
MutPlausible == ~wd.bad

\* The sanity gate.
Plausible == ~wd.bad /\ Cardinality(Orphans) <= 1

NextSample(prev) ==
    wd' = [pc |-> "isra", isr |-> {}, ipr |-> {}, bad |-> FALSE, prev |-> prev]

\* Mutant: a sample is not remembered.
MutWdJudge ==
    /\ WdAt("judge")
    /\ NextSample({})
    /\ LET fire == IF Plausible THEN Orphans \cap wd.prev ELSE {}
       IN  chip' = [chip EXCEPT !.isr = @ \ fire]
    /\ UNCHANGED <<latch, cpu, noack, guest, faults, board, owed>>

\* The same channel in two samples running is given its EOI.
WdJudge ==
    /\ WdAt("judge")
    /\ LET fire == IF Plausible THEN Orphans \cap wd.prev ELSE {}
       IN  /\ chip' = [chip EXCEPT !.isr = @ \ fire]
           /\ NextSample(IF Plausible /\ fire = {} THEN Orphans ELSE {})
    /\ UNCHANGED <<latch, cpu, noack, guest, faults, board, owed>>

Watchdog == WdRead \/ WdJudge

-----------------------------------------------------------------------------
Init ==
    /\ chip = [ipr |-> {}, isr |-> {}] /\ latch = FALSE
    /\ cpu = [pc |-> "run", why |-> "", vec |-> NoCh] /\ noack = 0
    /\ guest = [busy |-> NoCh, open |-> {}]
    /\ wd = [pc |-> "isra", isr |-> {}, ipr |-> {}, bad |-> FALSE, prev |-> {}]
    /\ faults = 0 /\ owed = {}
    /\ board \in [fast : BOOLEAN, live : BOOLEAN]

Next ==
    \/ \E c \in Channel : Raise(c) \/ Withdraw(c)
    \/ Return \/ Lower
    \/ Latch \/ Cpu \/ Watchdog

Spec == Init /\ [][Next]_vars

\* The threads run, and handlers return.
FairSpec ==
    /\ Spec
    /\ WF_vars(Cpu) /\ WF_vars(Latch) /\ WF_vars(Watchdog) /\ WF_vars(Return)

-----------------------------------------------------------------------------
(* Properties *)

\* Every variable keeps its type; the watchdog remembers one channel at most.
TypeOK ==
    /\ chip \in [ipr : SUBSET Channel, isr : SUBSET Channel]
    /\ latch \in BOOLEAN
    /\ cpu \in [pc : {"run", "isra", "isrb", "live", "exc"},
                why : {"", "fast", "last", "garbled"}, vec : Channel \cup {NoCh}]
    /\ noack \in 0..2
    /\ guest \in [busy : Channel \cup {NoCh}, open : SUBSET Channel]
    /\ wd \in [pc : {"isra", "isrb", "ipra", "iprb", "judge"}, isr : SUBSET Channel,
               ipr : SUBSET Channel, bad : BOOLEAN, prev : SUBSET Channel]
    /\ Cardinality(wd.prev) <= 1
    /\ faults \in 0..MaxFault
    /\ board \in [fast : BOOLEAN, live : BOOLEAN]
    /\ owed \subseteq Channel

\* "Only if nothing is in service did the cycle not reach the MFP": whatever
\* the cycle answered, a handler runs only for a channel the chip acknowledged,
\* and once for each acknowledge.
DeliverOwed ==
    [][\A c \in Channel : guest.busy # c /\ guest'.busy = c => c \in owed]_vars

\* The same where no other handler has let the interrupt in: then what is in
\* service is what a failed cycle has acknowledged, and its handler runs.
FlatDeliverOwed ==
    [][\A c \in Channel :
         guest.open = {} /\ guest.busy # c /\ guest'.busy = c => c \in owed]_vars

\* "that channel and everything below it then go silent forever": no channel
\* stays in service and pending for ever, no handler being there to write its
\* EOI, while nothing above it is served.
WedgeBroken ==
    \A c \in Channel :
        ~<>[](chip.isr = {c} /\ c \in chip.ipr /\ guest.busy # c /\ c \notin guest.open)

\* A request whose line has gone is not acknowledged for ever.
RetryEnds == ~<>[](latch /\ ~Line)
=============================================================================
