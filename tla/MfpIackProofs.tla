--------------------------- MODULE MfpIackProofs ---------------------------
(***************************************************************************)
(* Proofs about the repair of the real MFP's acknowledge, for every set of *)
(* channels and every number of failing bus cycles: what a handler that    *)
(* interrupts no other is entered for.                                     *)
(***************************************************************************)
EXTENDS MfpIack, FiniteSetTheorems, TLAPS

USE ChannelAssumption DEF NoCh

LEMMA NoChIsNone == NoCh \notin Channel
  OBVIOUS

\* The search of atari_recover_mfp_vector_from_isrb from bit 7 down, and the
\* chip's own priority, pick a member of the set.
LEMMA MaxIsMember ==
    ASSUME NEW S, S \subseteq Channel, S # {}
    PROVE  Max(S) \in S /\ Max(S) \in Channel
  <1> DEFINE T == {15 - c : c \in S}
  <1>1. \A c \in S : c \in 0..15 /\ 15 - c \in Nat
    OBVIOUS
  <1>2. T \subseteq Nat /\ T # {}
    BY <1>1
  <1>3. \E x \in T : \A y \in T : ~(<<y, x>> \in OpToRel(<, Nat))
    <2> HIDE DEF T
    <2> QED
      BY <1>2, NatLessThanWellFounded, WFMin
  <1>4. PICK x \in T : \A y \in T : ~(y < x)
    BY <1>2, <1>3 DEF OpToRel
  <1>5. PICK c \in S : x = 15 - c
    OBVIOUS
  <1>6. \A d \in S : c >= d
    <2> SUFFICES ASSUME NEW d \in S PROVE c >= d
      OBVIOUS
    <2>1. 15 - d \in T
      OBVIOUS
    <2>2. ~(15 - d < 15 - c)
      BY <2>1, <1>4, <1>5
    <2> HIDE DEF T
    <2> QED
      BY <1>1, <2>2
  <1> HIDE DEF T
  <1> QED
    BY <1>6 DEF Max

-----------------------------------------------------------------------------
(* The types *)

Chips == [ipr : SUBSET Channel, isr : SUBSET Channel]
Cpus == [pc : {"run", "isra", "isrb", "live", "exc"},
         why : {"", "fast", "last", "garbled"}, vec : Channel \cup {NoCh}]
Guests == [busy : Channel \cup {NoCh}, open : SUBSET Channel]

\* What is in service is owed a handler or has one; do_interrupt runs at a mask
\* that lets level 6 in; a vector looked up belongs to something in service.
InServiceInv ==
    /\ chip \in Chips /\ cpu \in Cpus /\ guest \in Guests
    /\ owed \subseteq Channel
    /\ chip.isr \subseteq owed \cup guest.open \cup {guest.busy}
    /\ cpu.pc # "run" => guest.busy = NoCh
    /\ cpu.pc = "exc" => cpu.vec \in owed \cup guest.open
    /\ cpu.pc \in {"isra", "isrb"} => cpu.why \in {"fast", "last", "garbled"}

LEMMA InServiceInit == Init => InServiceInv
  <1> SUFFICES ASSUME Init PROVE InServiceInv
    OBVIOUS
  <1>1. chip \in Chips /\ guest \in Guests
    BY DEF Init, Chips, Guests
  <1>2. cpu \in Cpus
    BY DEF Init, Cpus
  <1> QED
    BY <1>1, <1>2 DEF Init, InServiceInv

\* Where do_interrupt goes when the cycle delivers nothing: back, or on to the
\* next read.
Onward(c) ==
    /\ c \in Cpus /\ c.pc \in {"run", "isra", "live"}
    /\ c.pc = "isra" => c.why \in {"fast", "last", "garbled"}

LEMMA GoesOn ==
    ASSUME NEW p \in {"run", "isra", "live"}, NEW w \in {"", "fast", "last", "garbled"},
           p = "isra" => w # "", Go(p, w, NoCh)
    PROVE  Onward(cpu')
  <1>1. cpu' = [pc |-> p, why |-> w, vec |-> NoCh]
    BY DEF Go
  <1>2. NoCh \in Channel \cup {NoCh}
    OBVIOUS
  <1>3. cpu' \in Cpus
    BY <1>1, <1>2, Zenon DEF Cpus
  <1>4. cpu'.pc = p /\ cpu'.why = w
    BY <1>1
  <1> QED
    BY <1>3, <1>4 DEF Onward

LEMMA KeepGoesOn == Keep => Onward(cpu')
  BY GoesOn DEF Keep

LEMMA RetryGoesOn == Retry => Onward(cpu')
  BY GoesOn, KeepGoesOn DEF Retry

LEMMA NoAnswerGoesOn == NoAnswer \/ Garbled => Onward(cpu')
  BY GoesOn, RetryGoesOn DEF NoAnswer, Garbled

LEMMA UnrecoveredGoesOn ==
    ASSUME cpu.why \in {"fast", "last", "garbled"}, Unrecovered
    PROVE  Onward(cpu')
  <1>1. CASE cpu.why = "fast"
    BY <1>1, RetryGoesOn DEF Unrecovered
  <1>2. CASE cpu.why = "last"
    BY <1>2, GoesOn DEF Unrecovered
  <1>3. CASE cpu.why = "garbled"
    BY <1>3, KeepGoesOn DEF Unrecovered
  <1> QED
    BY <1>1, <1>2, <1>3

\* A step that goes on and changes nothing else that matters.
LEMMA OnwardKeeps ==
    ASSUME InServiceInv, Onward(cpu'), guest.busy = NoCh, UNCHANGED <<chip, guest, owed>>
    PROVE  InServiceInv'
  BY DEF InServiceInv, Onward

\* A look-up that finds a channel in service delivers that channel.
LEMMA FoundKeeps ==
    ASSUME InServiceInv, guest.busy = NoCh, UNCHANGED <<chip, guest, owed>>,
           NEW bank, RecoverFrom(bank) # {}, Go("exc", "", Max(RecoverFrom(bank)))
    PROVE  InServiceInv'
  <1>1. RecoverFrom(bank) \subseteq chip.isr /\ chip.isr \subseteq Channel
    BY DEF RecoverFrom, InServiceInv, Chips
  <1>2. Max(RecoverFrom(bank)) \in chip.isr /\ Max(RecoverFrom(bank)) \in Channel
    BY <1>1, MaxIsMember
  <1> DEFINE c == Max(RecoverFrom(bank))
  <1>3. c \in chip.isr /\ c \in Channel
    BY <1>2
  <1>4. cpu' = [pc |-> "exc", why |-> "", vec |-> c]
    BY DEF Go
  <1> HIDE DEF c
  <1>5. c \in owed \cup guest.open
    <2>1. c # NoCh
      BY <1>3, NoChIsNone, Zenon
    <2> QED
      BY <1>3, <2>1 DEF InServiceInv
  <1>6. cpu' \in Cpus /\ cpu'.pc = "exc" /\ cpu'.vec = c
    BY <1>3, <1>4 DEF Cpus
  <1> QED
    BY <1>5, <1>6 DEF InServiceInv

LEMMA ServicedKeeps ==
    ASSUME InServiceInv, Serviced
    PROVE  InServiceInv'
  <1> DEFINE c == Max(Asking)
  <1>1. Asking # {} /\ Asking \subseteq Channel
    BY DEF Serviced, Line, Asking, InServiceInv, Chips
  <1>2. c \in Channel
    BY <1>1, MaxIsMember
  <1>3. /\ chip' = [ipr |-> chip.ipr \ {c}, isr |-> chip.isr \cup {c}]
        /\ owed' = owed \cup {c}
        /\ guest' = guest /\ guest.busy = NoCh
        /\ Go("exc", "", c) \/ NoAnswer \/ Garbled
    BY DEF Serviced, Takes
  <1> HIDE DEF c
  <1>4. chip' \in Chips /\ owed' \subseteq Channel
    BY <1>2, <1>3 DEF InServiceInv, Chips
  <1>5. chip'.isr \subseteq owed' \cup guest'.open \cup {guest'.busy}
    BY <1>3 DEF InServiceInv
  <1>6. CASE Go("exc", "", c)
    <2>1. cpu' \in Cpus /\ cpu'.pc = "exc" /\ cpu'.vec = c
      BY <1>2, <1>6 DEF Go, Cpus
    <2> QED
      BY <1>3, <1>4, <1>5, <2>1 DEF InServiceInv
  <1>7. CASE Onward(cpu')
    BY <1>3, <1>4, <1>5, <1>7 DEF InServiceInv, Onward
  <1> QED
    BY <1>3, <1>6, <1>7, NoAnswerGoesOn

LEMMA InServiceStep == InServiceInv /\ [Next]_vars => InServiceInv'
  <1> SUFFICES ASSUME InServiceInv, [Next]_vars PROVE InServiceInv'
    OBVIOUS
  <1>1. ASSUME NEW c \in Channel, Raise(c) \/ Withdraw(c) PROVE InServiceInv'
    <2>1. chip' \in Chips /\ chip'.isr = chip.isr
      BY <1>1 DEF Raise, Withdraw, InServiceInv, Chips
    <2> QED
      BY <1>1, <2>1 DEF Raise, Withdraw, InServiceInv
  <1>2. CASE Return
    <2>1. PICK c \in Channel :
            /\ \/ c = guest.busy /\ guest' = [guest EXCEPT !.busy = NoCh]
               \/ guest' = [guest EXCEPT !.open = @ \ {c}]
            /\ chip' = [chip EXCEPT !.isr = @ \ {c}]
      BY <1>2 DEF Return
    <2>2. guest' \in Guests /\ chip' \in Chips
      BY <2>1 DEF InServiceInv, Guests, Chips
    <2>3. chip'.isr = chip.isr \ {c} /\ guest.open \subseteq guest'.open \cup {c}
      BY <2>1 DEF InServiceInv, Guests, Chips
    <2>4. guest.busy = c \/ guest.busy = guest'.busy
      BY <2>1 DEF InServiceInv, Guests
    <2>5. chip'.isr \subseteq owed \cup guest'.open \cup {guest'.busy}
      BY <2>3, <2>4 DEF InServiceInv
    <2> QED
      BY <1>2, <2>2, <2>5 DEF Return, Running, InServiceInv
  <1>3. CASE Lower
    <2>1. guest' \in Guests /\ guest'.open = guest.open \cup {guest.busy}
      BY <1>3 DEF Lower, InServiceInv, Guests
    <2> QED
      BY <1>3, <2>1 DEF Lower, Running, InServiceInv
  <1>4. CASE Latch
    BY <1>4 DEF Latch, InServiceInv
  <1>5. CASE Phantom \/ Unreached \/ IdleCycle
    BY <1>5, NoAnswerGoesOn, OnwardKeeps DEF Phantom, Unreached, IdleCycle, Takes
  <1>6. CASE Serviced
    BY <1>6, ServicedKeeps
  <1>7. CASE ReadISRA
    <2>1. guest.busy = NoCh /\ cpu.why \in {"fast", "last", "garbled"}
      BY <1>7 DEF ReadISRA, InServiceInv
    <2>2. UNCHANGED <<chip, guest, owed>>
      BY <1>7 DEF ReadISRA
    <2>3. CASE RecoverFrom(BankA) # {} /\ Go("exc", "", Max(RecoverFrom(BankA)))
      BY <2>1, <2>2, <2>3, FoundKeeps
    <2>4. CASE Go("isrb", cpu.why, NoCh)
      <3>1. cpu' \in Cpus /\ cpu'.pc = "isrb" /\ cpu'.why = cpu.why
        BY <2>1, <2>4 DEF Go, Cpus
      <3> QED
        BY <2>1, <2>2, <3>1 DEF InServiceInv
    <2>5. CASE Unrecovered
      BY <2>1, <2>2, <2>5, UnrecoveredGoesOn, OnwardKeeps
    <2> QED
      BY <1>7, <2>3, <2>4, <2>5 DEF ReadISRA
  <1>8. CASE ReadISRB
    <2>1. guest.busy = NoCh /\ cpu.why \in {"fast", "last", "garbled"}
      BY <1>8 DEF ReadISRB, InServiceInv
    <2>2. UNCHANGED <<chip, guest, owed>>
      BY <1>8 DEF ReadISRB
    <2>3. CASE RecoverFrom(BankB) # {} /\ Go("exc", "", Max(RecoverFrom(BankB)))
      BY <2>1, <2>2, <2>3, FoundKeeps
    <2>4. CASE Unrecovered
      BY <2>1, <2>2, <2>4, UnrecoveredGoesOn, OnwardKeeps
    <2> QED
      BY <1>8, <2>3, <2>4 DEF ReadISRB
  <1>9. CASE LiveLevel
    BY <1>9, KeepGoesOn, OnwardKeeps DEF LiveLevel, InServiceInv
  <1>10. CASE TakeException
    <2>1. cpu.pc = "exc" /\ cpu.vec \in owed \cup guest.open /\ cpu.vec \in Channel
          /\ guest.busy = NoCh
      BY <1>10 DEF TakeException, InServiceInv, Guests
    <2>2. guest' \in Guests /\ guest'.busy = cpu.vec /\ guest'.open = guest.open
      BY <1>10, <2>1 DEF TakeException, InServiceInv, Guests
    <2>3. NoCh \notin chip.isr
      BY DEF InServiceInv, Chips
    <2>4. chip'.isr \subseteq owed' \cup guest'.open \cup {guest'.busy}
      BY <1>10, <2>1, <2>2, <2>3 DEF TakeException, InServiceInv
    <2>5. cpu' \in Cpus /\ cpu'.pc = "run"
      BY <1>10 DEF TakeException, Keep, Go, Cpus
    <2> QED
      BY <1>10, <2>2, <2>4, <2>5 DEF TakeException, InServiceInv
  <1>11. CASE WdRead
    BY <1>11 DEF WdRead, InServiceInv
  <1>12. CASE WdJudge
    <2>1. chip' \in Chips /\ chip'.isr \subseteq chip.isr
      BY <1>12 DEF WdJudge, InServiceInv, Chips
    <2> QED
      BY <1>12, <2>1 DEF WdJudge, InServiceInv
  <1>13. CASE UNCHANGED vars
    BY <1>13 DEF vars, InServiceInv
  <1> QED
    BY <1>1, <1>2, <1>3, <1>4, <1>5, <1>6, <1>7, <1>8, <1>9, <1>10, <1>11, <1>12, <1>13
    DEF Next, Cpu, Watchdog

\* However many bus cycles fail, and whatever the watchdog and the repair do: a
\* handler that interrupts no other is entered for a channel that the chip has
\* acknowledged and that no handler has run for.
THEOREM FlatDelivery == Spec => FlatDeliverOwed
  <1>1. ASSUME InServiceInv, [Next]_vars
        PROVE  [\A c \in Channel :
                  guest.open = {} /\ guest.busy # c /\ guest'.busy = c => c \in owed]_vars
    <2> SUFFICES ASSUME Next, NEW c \in Channel,
                        guest.open = {}, guest.busy # c, guest'.busy = c
                 PROVE  c \in owed
      BY <1>1
    <2>1. ~Return /\ ~Lower
      BY <1>1 DEF Return, Lower, InServiceInv, Guests
    <2>2. TakeException
      BY <2>1 DEF Next, Cpu, Watchdog, Raise, Withdraw, Latch, Phantom, Serviced, Unreached,
            IdleCycle, ReadISRA, ReadISRB, LiveLevel, WdRead, WdJudge
    <2>3. c = cpu.vec /\ cpu.pc = "exc"
      BY <1>1, <2>2 DEF TakeException, InServiceInv, Guests
    <2> QED
      BY <1>1, <2>3 DEF InServiceInv
  <1> QED
    BY <1>1, InServiceInit, InServiceStep, PTL DEF Spec, FlatDeliverOwed

-----------------------------------------------------------------------------
(* Types, and the one channel the watchdog remembers *)

Samples == [pc : {"isra", "isrb", "ipra", "iprb", "judge"}, isr : SUBSET Channel,
            ipr : SUBSET Channel, bad : BOOLEAN, prev : SUBSET Channel]

RestOK ==
    /\ latch \in BOOLEAN /\ noack \in 0..2 /\ faults \in 0..MaxFault
    /\ board \in [fast : BOOLEAN, live : BOOLEAN]

WdOK == wd \in Samples /\ Cardinality(wd.prev) <= 1

LEMMA WdReadKeeps ==
    ASSUME InServiceInv, WdOK, WdRead
    PROVE  WdOK'
  <1> DEFINE p == CASE WdAt("isra") -> "isrb" [] WdAt("isrb") -> "ipra"
                    [] WdAt("ipra") -> "iprb" [] OTHER -> "judge"
             I == CASE WdAt("isra") -> chip.isr \cap BankA
                    [] WdAt("isrb") -> wd.isr \cup (chip.isr \cap BankB)
                    [] OTHER -> wd.isr
             P == CASE WdAt("ipra") -> chip.ipr \cap BankA
                    [] WdAt("iprb") -> wd.ipr \cup (chip.ipr \cap BankB)
                    [] OTHER -> wd.ipr
  <1>1. chip.isr \subseteq Channel /\ chip.ipr \subseteq Channel
        /\ wd.isr \subseteq Channel /\ wd.ipr \subseteq Channel
    BY DEF InServiceInv, Chips, WdOK, Samples
  <1>2. p \in {"isrb", "ipra", "iprb", "judge"}
    BY DEF WdAt
  <1>3. I \in SUBSET Channel
    BY <1>1 DEF WdAt
  <1>4. P \in SUBSET Channel
    BY <1>1 DEF WdAt
  <1>5. \E b \in BOOLEAN :
          wd' = [wd EXCEPT !.pc = p, !.isr = I, !.ipr = P, !.bad = wd.bad \/ b]
    BY Zenon DEF WdRead
  <1> HIDE DEF p, I, P
  <1>6. PICK b \in BOOLEAN :
          wd' = [wd EXCEPT !.pc = p, !.isr = I, !.ipr = P, !.bad = wd.bad \/ b]
    BY <1>5
  <1>7. (wd.bad \/ b) \in BOOLEAN
    OBVIOUS
  <1>8. wd' \in Samples /\ wd'.prev = wd.prev
    BY <1>2, <1>3, <1>4, <1>6, <1>7 DEF WdOK, Samples
  <1> QED
    BY <1>8 DEF WdOK

LEMMA NextSampleKeeps ==
    ASSUME NEW prev \in SUBSET Channel, Cardinality(prev) <= 1, NextSample(prev)
    PROVE  WdOK'
  <1>1. wd' \in Samples
    BY Zenon DEF NextSample, Samples
  <1>2. wd'.prev = prev
    BY DEF NextSample
  <1> QED
    BY <1>1, <1>2 DEF WdOK

LEMMA WdJudgeKeeps ==
    ASSUME WdOK, WdJudge
    PROVE  WdOK'
  <1>1. Orphans \in SUBSET Channel /\ {} \in SUBSET Channel
    BY DEF Orphans, WdOK, Samples
  <1>2. Cardinality({}) <= 1
    BY FS_EmptySet
  <1>3. Plausible => Cardinality(Orphans) <= 1
    BY DEF Plausible
  <1>4. (Plausible /\ NextSample(Orphans)) \/ NextSample({})
    BY DEF WdJudge
  <1> QED
    BY <1>1, <1>2, <1>3, <1>4, NextSampleKeeps

LEMMA NoackKept ==
    ASSUME noack \in 0..2
    PROVE  /\ NoAnswer \/ Garbled => noack' \in 0..2
           /\ cpu.why \in {"fast", "last", "garbled"} /\ Unrecovered => noack' \in 0..2
  <1>1. Retry => noack' \in 0..2
    BY DEF Retry
  <1>2. NoAnswer \/ Garbled => noack' \in 0..2
    BY <1>1 DEF NoAnswer, Garbled
  <1>3. ASSUME cpu.why \in {"fast", "last", "garbled"}, Unrecovered PROVE noack' \in 0..2
    <2>1. CASE cpu.why = "fast"
      BY <1>1, <1>3, <2>1 DEF Unrecovered
    <2>2. CASE cpu.why = "last"
      BY <1>3, <2>2 DEF Unrecovered
    <2>3. CASE cpu.why = "garbled"
      BY <1>3, <2>3 DEF Unrecovered
    <2> QED
      BY <1>3, <2>1, <2>2, <2>3
  <1> QED
    BY <1>2, <1>3

LEMMA FaultKept ==
    ASSUME faults \in 0..MaxFault, Fault \/ UNCHANGED faults
    PROVE  faults' \in 0..MaxFault
  BY BoundsAssumption DEF Fault

LEMMA RestStep ==
    ASSUME InServiceInv, RestOK, [Next]_vars
    PROVE  RestOK'
  <1>1. board' = board
    BY DEF Next, Cpu, Watchdog, vars, Raise, Withdraw, Return, Lower, Latch, Phantom, Serviced,
           Unreached, IdleCycle, ReadISRA, ReadISRB, LiveLevel, TakeException, WdRead, WdJudge
  <1>2. latch' \in BOOLEAN
    <2>1. latch' = latch \/ latch' = TRUE \/ latch' = FALSE
      BY DEF Next, Cpu, Watchdog, vars, Raise, Withdraw, Return, Lower, Latch, Phantom, Serviced,
           Unreached, IdleCycle, ReadISRA, ReadISRB, LiveLevel, TakeException, WdRead, WdJudge
    <2> QED
      BY <2>1 DEF RestOK
  <1>3. faults' \in 0..MaxFault
    <2>1. Fault \/ UNCHANGED faults
      BY DEF Next, Cpu, Watchdog, vars, Raise, Withdraw, Return, Lower, Latch, Phantom, Serviced,
           Unreached, IdleCycle, ReadISRA, ReadISRB, LiveLevel, TakeException, WdRead, WdJudge
    <2> QED
      BY <2>1, FaultKept DEF RestOK
  <1>4. noack' \in 0..2
    <2>1. noack \in 0..2
      BY DEF RestOK
    <2>2. CASE Phantom \/ Serviced \/ Unreached \/ IdleCycle
      BY <2>1, <2>2, NoackKept DEF Phantom, Serviced, Unreached, IdleCycle
    <2>3. CASE ReadISRA \/ ReadISRB
      BY <2>1, <2>3, NoackKept DEF ReadISRA, ReadISRB, InServiceInv
    <2>4. CASE LiveLevel \/ TakeException
      BY <2>1, <2>4 DEF LiveLevel, TakeException
    <2>5. CASE UNCHANGED noack
      BY <2>1, <2>5
    <2> QED
      BY <2>2, <2>3, <2>4, <2>5
      DEF Next, Cpu, Watchdog, vars, Raise, Withdraw, Return, Lower, Latch, WdRead, WdJudge
  <1> QED
    BY <1>1, <1>2, <1>3, <1>4 DEF RestOK

\* The types hold; in particular the sanity gate leaves the watchdog of ipl_task at
\* most one channel to remember, so that it never clears two in-service bits.
THEOREM TypeCorrect == Spec => []TypeOK
  <1>1. Init => RestOK /\ WdOK
    <2> SUFFICES ASSUME Init PROVE RestOK /\ WdOK
      OBVIOUS
    <2>1. RestOK
      <3>1. 0 \in 0..2 /\ 0 \in 0..MaxFault
        BY BoundsAssumption
      <3> QED
        BY <3>1, Zenon DEF Init, RestOK
    <2>2. wd \in Samples /\ wd.prev = {}
      BY DEF Init, Samples
    <2> QED
      BY <2>1, <2>2, FS_EmptySet DEF WdOK
  <1>2. InServiceInv /\ WdOK /\ [Next]_vars => WdOK'
    <2> SUFFICES ASSUME InServiceInv, WdOK, [Next]_vars PROVE WdOK'
      OBVIOUS
    <2>1. WdRead \/ WdJudge \/ UNCHANGED wd
      BY DEF Next, Cpu, Watchdog, vars, Raise, Withdraw, Return, Lower, Latch, Phantom, Serviced,
           Unreached, IdleCycle, ReadISRA, ReadISRB, LiveLevel, TakeException
    <2>2. CASE UNCHANGED wd
      BY <2>2 DEF WdOK
    <2> QED
      BY <2>1, <2>2, WdReadKeeps, WdJudgeKeeps
  <1>3. InServiceInv /\ RestOK /\ WdOK => TypeOK
    BY DEF InServiceInv, RestOK, WdOK, TypeOK, Chips, Cpus, Guests, Samples
  <1> QED
    BY <1>1, <1>2, <1>3, InServiceInit, InServiceStep, RestStep, PTL DEF Spec
=============================================================================
