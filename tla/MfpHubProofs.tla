---------------------------- MODULE MfpHubProofs ----------------------------
(***************************************************************************)
(* Theorems about the virtual MFP for every set of channels and every      *)
(* timer width.                                                            *)
(***************************************************************************)
EXTENDS MfpHub, WellFoundedInduction, TLAPS

\* A non-empty set of channel numbers has a greatest member, so the downward
\* scan of mfp_hub_iack stops on it.
LEMMA TopIsGreatest ==
    ASSUME NEW S, S \subseteq 0..15, S # {}
    PROVE  Top(S) \in S /\ \A d \in S : d <= Top(S)
<1> DEFINE T == {15 - c : c \in S}
<1>0. \A c \in S : c \in 0..15 /\ 15 - c \in Nat
  OBVIOUS
<1>1. T \subseteq Nat /\ T # {}
  BY <1>0
<1>2. \E x \in T : \A y \in T : ~(<<y, x>> \in OpToRel(<, Nat))
  <2> HIDE DEF T
  <2> QED BY <1>1, NatLessThanWellFounded, WFMin
<1>3. PICK x \in T : \A y \in T : ~(y < x)
  BY <1>1, <1>2 DEF OpToRel
<1>4. PICK c \in S : x = 15 - c
  OBVIOUS
<1>5. \A d \in S : d <= c
  <2> SUFFICES ASSUME NEW d \in S PROVE d <= c
    OBVIOUS
  <2>1. 15 - d \in T
    OBVIOUS
  <2>2. ~(15 - d < 15 - c)
    BY <2>1, <1>3, <1>4
  <2> HIDE DEF T
  <2> QED BY <2>2, <1>0
<1> QED BY <1>5 DEF Top

USE ChannelAssumption, TimerAssumption DEF NoCh

\* Arbitration only ever selects among the channels it was given.
LEMMA DeliverableIsLegal ==
    ASSUME NEW P, NEW E, NEW M, NEW I,
           P \subseteq Channel, Above(Masked(P, E, M), I) # {}
    PROVE  LET t == Top(Above(Masked(P, E, M), I))
           IN  t \in Channel /\ t \in P /\ t \in E \cap M /\ \A d \in I : d < t
<1> DEFINE can == Above(Masked(P, E, M), I)
<1>0. can # {}
  OBVIOUS
<1>1. can \subseteq 0..15
  BY DEF Above, Masked
<1>2. Top(can) \in can
  <2> HIDE DEF can
  <2> QED BY <1>0, <1>1, TopIsGreatest
<1> QED BY <1>2 DEF Above, Masked

\* Going home, or on to the raise of GPIP7, keeps the source's type.
LEMMA SrcReturnType ==
    ASSUME src \in SrcType, SrcReturn
    PROVE  src' \in SrcType /\ (src'.pc # "idle" => src'.pc = "raise" /\ src'.ch = SoundCh)
<1>1. /\ (IF src.g7 THEN "raise" ELSE "idle") \in SrcPc
      /\ (IF src.g7 THEN SoundCh ELSE NoCh) \in {TimerCh, SoundCh, NoCh}
      /\ 0 \in 0..TimerFull
      /\ FALSE \in BOOLEAN
  BY DEF SrcPc
<1>2. src' \in SrcType
  BY <1>1, Zenon DEF SrcReturn, SrcType
<1>3. src'.pc # "idle" => src'.pc = "raise" /\ src'.ch = SoundCh
  BY DEF SrcReturn, SrcType
<1> QED BY <1>2, <1>3

\* Moving the source's program counter keeps its type.
LEMMA SrcToType ==
    ASSUME src \in SrcType, NEW q \in SrcPc, SrcTo(q)
    PROVE  /\ src' \in SrcType /\ src'.pc = q
           /\ src'.ch = src.ch /\ src'.cnt = src.cnt
BY Zenon DEF SrcTo, SrcType

\* The boot state satisfies the invariant.
LEMMA HubInit == Init => HubInv
<1> SUFFICES ASSUME Init PROVE HubInv
  OBVIOUS
<1>1. TypeOK
  BY DEF Init, TypeOK, CpuType, SrcType, IplType, CpuPc, SrcPc, IplPc
<1>2. CpuLocals /\ SrcLocals /\ IackLegal
  BY DEF Init, CpuLocals, SrcLocals, IackLegal
<1> QED BY <1>1, <1>2 DEF HubInv

\* Every atomic access of every thread preserves it.
LEMMA HubStep == HubInv /\ [Next]_vars => HubInv'
<1> SUFFICES ASSUME HubInv, [Next]_vars PROVE HubInv'
  OBVIOUS
<1> USE DEF HubInv
<1>1. CASE \E bank \in Banks : \E b \in SUBSET bank : WriteIER(bank, b)
  <2>1. TypeOK'
    BY <1>1 DEF TypeOK, WriteIER, Banks, BankA, BankB, CpuIdle, CpuAt, CpuTo, CpuLocals, SrcLocals, regs, timer, CpuType, SrcType, IplType, CpuPc, SrcPc, IplPc
  <2>2. CpuLocals' /\ SrcLocals' /\ IackLegal'
    BY <1>1 DEF TypeOK, WriteIER, Banks, BankA, BankB, CpuIdle, CpuAt, CpuTo, CpuLocals, SrcLocals, IackLegal, regs, timer
  <2> QED BY <2>1, <2>2
<1>2. CASE \E bank \in Banks : \E b \in SUBSET bank : WriteIPR(bank, b)
  <2>1. TypeOK'
    BY <1>2 DEF TypeOK, WriteIPR, Banks, BankA, BankB, CpuIdle, CpuAt, CpuTo, CpuLocals, SrcLocals, regs, timer, CpuType, SrcType, IplType, CpuPc, SrcPc, IplPc
  <2>2. CpuLocals' /\ SrcLocals' /\ IackLegal'
    BY <1>2 DEF TypeOK, WriteIPR, Banks, BankA, BankB, CpuIdle, CpuAt, CpuTo, CpuLocals, SrcLocals, IackLegal, regs, timer
  <2> QED BY <2>1, <2>2
<1>3. CASE \E bank \in Banks : \E b \in SUBSET bank : WriteISR(bank, b)
  <2>1. TypeOK'
    BY <1>3 DEF TypeOK, WriteISR, Banks, BankA, BankB, CpuIdle, CpuAt, CpuTo, CpuLocals, SrcLocals, regs, timer, CpuType, SrcType, IplType, CpuPc, SrcPc, IplPc
  <2>2. CpuLocals' /\ SrcLocals' /\ IackLegal'
    BY <1>3 DEF TypeOK, WriteISR, Banks, BankA, BankB, CpuIdle, CpuAt, CpuTo, CpuLocals, SrcLocals, IackLegal, regs, timer
  <2> QED BY <2>1, <2>2
<1>4. CASE \E bank \in Banks : \E b \in SUBSET bank : WriteIMR(bank, b)
  <2>1. TypeOK'
    BY <1>4 DEF TypeOK, WriteIMR, Banks, BankA, BankB, CpuIdle, CpuAt, CpuTo, CpuLocals, SrcLocals, regs, timer, CpuType, SrcType, IplType, CpuPc, SrcPc, IplPc
  <2>2. CpuLocals' /\ SrcLocals' /\ IackLegal'
    BY <1>4 DEF TypeOK, WriteIMR, Banks, BankA, BankB, CpuIdle, CpuAt, CpuTo, CpuLocals, SrcLocals, IackLegal, regs, timer
  <2> QED BY <2>1, <2>2
<1>5. CASE \E s \in BOOLEAN : WriteVR(s)
  <2>1. TypeOK'
    BY <1>5 DEF TypeOK, WriteVR, CpuIdle, CpuAt, CpuTo, CpuLocals, SrcLocals, regs, timer, CpuType, SrcType, IplType, CpuPc, SrcPc, IplPc
  <2>2. CpuLocals' /\ SrcLocals' /\ IackLegal'
    BY <1>5 DEF TypeOK, WriteVR, CpuIdle, CpuAt, CpuTo, CpuLocals, SrcLocals, IackLegal, regs, timer
  <2> QED BY <2>1, <2>2
<1>6. CASE \E m \in TacrModes : WriteTACR(m)
  <2>1. TypeOK'
    BY <1>6 DEF TypeOK, WriteTACR, CpuIdle, CpuAt, CpuTo, CpuLocals, SrcLocals, regs, timer, CpuType, SrcType, IplType, CpuPc, SrcPc, IplPc
  <2>2. CpuLocals' /\ SrcLocals' /\ IackLegal'
    BY <1>6 DEF TypeOK, WriteTACR, CpuIdle, CpuAt, CpuTo, CpuLocals, SrcLocals, IackLegal, regs, timer
  <2> QED BY <2>1, <2>2
<1>7. CASE \E b \in TadrBytes : WriteTADR(b)
  <2>1. TypeOK'
    BY <1>7 DEF TypeOK, WriteTADR, CpuIdle, CpuAt, CpuTo, CpuLocals, SrcLocals, regs, timer, CpuType, SrcType, IplType, CpuPc, SrcPc, IplPc
  <2>2. CpuLocals' /\ SrcLocals' /\ IackLegal'
    BY <1>7 DEF TypeOK, WriteTADR, CpuIdle, CpuAt, CpuTo, CpuLocals, SrcLocals, IackLegal, regs, timer
  <2> QED BY <2>1, <2>2
<1>8. CASE IerClear
  <2>1. TypeOK'
    BY <1>8 DEF TypeOK, IerClear, CpuIdle, CpuAt, CpuTo, CpuLocals, SrcLocals, regs, timer, CpuType, SrcType, IplType, CpuPc, SrcPc, IplPc
  <2>2. CpuLocals' /\ SrcLocals' /\ IackLegal'
    BY <1>8 DEF TypeOK, IerClear, CpuIdle, CpuAt, CpuTo, CpuLocals, SrcLocals, IackLegal, regs, timer
  <2> QED BY <2>1, <2>2
<1>9. CASE VrClear
  <2>1. TypeOK'
    BY <1>9 DEF TypeOK, VrClear, CpuIdle, CpuAt, CpuTo, CpuLocals, SrcLocals, regs, timer, CpuType, SrcType, IplType, CpuPc, SrcPc, IplPc
  <2>2. CpuLocals' /\ SrcLocals' /\ IackLegal'
    BY <1>9 DEF TypeOK, VrClear, CpuIdle, CpuAt, CpuTo, CpuLocals, SrcLocals, IackLegal, regs, timer
  <2> QED BY <2>1, <2>2
<1>10. CASE Reload
  <2>1. TypeOK'
    BY <1>10 DEF TypeOK, Reload, CpuIdle, CpuAt, CpuTo, CpuLocals, SrcLocals, regs, timer, CpuType, SrcType, IplType, CpuPc, SrcPc, IplPc
  <2>2. CpuLocals' /\ SrcLocals' /\ IackLegal'
    BY <1>10 DEF TypeOK, Reload, CpuIdle, CpuAt, CpuTo, CpuLocals, SrcLocals, IackLegal, regs, timer
  <2> QED BY <2>1, <2>2
<1>11. CASE IackLoad
  <2>1. TypeOK'
    BY <1>11 DEF TypeOK, IackLoad, CpuIdle, CpuAt, CpuTo, CpuLocals, SrcLocals, regs, timer, CpuType, SrcType, IplType, CpuPc, SrcPc, IplPc
  <2>2. CpuLocals' /\ SrcLocals' /\ IackLegal'
    BY <1>11 DEF TypeOK, IackLoad, CpuIdle, CpuAt, CpuTo, CpuLocals, SrcLocals, IackLegal, regs, timer
  <2> QED BY <2>1, <2>2
<1>12. CASE IackPoll
  <2> DEFINE can == Above(Masked(cpu.pend \cup level, ier, imr), visr)
  <2>1. can # {} => /\ Top(can) \in Channel
                    /\ Top(can) \in ier \cap imr
                    /\ \A d \in visr : d < Top(can)
    <3>1. cpu.pend \cup level \subseteq Channel
      BY DEF TypeOK, CpuType
    <3> QED BY <3>1, DeliverableIsLegal
  <2> HIDE DEF can
  <2>2. /\ cpu' = [cpu EXCEPT !.pc = IF can = {} THEN "idle" ELSE "iackTake",
                              !.ch = IF can = {} THEN NoCh ELSE Top(can),
                              !.pend = {}]
        /\ UNCHANGED <<regs, vpend, timer, level, src, ipl>>
    BY <1>12 DEF IackPoll, can
  <2>3. TypeOK'
    BY <2>1, <2>2 DEF TypeOK, CpuType, regs, timer, CpuPc
  <2>4. CpuLocals' /\ SrcLocals' /\ IackLegal'
    BY <2>1, <2>2 DEF TypeOK, CpuType, CpuLocals, SrcLocals, IackLegal, regs, timer
  <2> QED BY <2>3, <2>4
<1>13. CASE IackTake
  <2>1. TypeOK'
    BY <1>13 DEF TypeOK, IackTake, CpuIdle, CpuAt, CpuTo, CpuLocals, SrcLocals, regs, timer, CpuType, SrcType, IplType, CpuPc, SrcPc, IplPc
  <2>2. CpuLocals' /\ SrcLocals' /\ IackLegal'
    BY <1>13 DEF TypeOK, IackTake, CpuIdle, CpuAt, CpuTo, CpuLocals, SrcLocals, IackLegal, regs, timer
  <2> QED BY <2>1, <2>2
<1>14. CASE IackServe
  <2>1. TypeOK'
    BY <1>14 DEF TypeOK, IackServe, CpuIdle, CpuAt, CpuTo, CpuLocals, SrcLocals, regs, timer, CpuType, SrcType, IplType, CpuPc, SrcPc, IplPc
  <2>2. CpuLocals' /\ SrcLocals' /\ IackLegal'
    BY <1>14 DEF TypeOK, IackServe, CpuIdle, CpuAt, CpuTo, CpuLocals, SrcLocals, IackLegal, regs, timer
  <2> QED BY <2>1, <2>2
<1>15. CASE StartReset
  <2> USE <1>15 DEF StartReset, CpuIdle, regs, timer
  <2>1. 1 \in 1..8 /\ "reset" \in CpuPc
    BY DEF CpuPc
  <2>2. cpu' \in CpuType
    BY <2>1, Zenon DEF TypeOK, CpuType
  <2>3. TypeOK'
    BY <2>2 DEF TypeOK
  <2>4. CpuLocals' /\ SrcLocals' /\ IackLegal'
    BY DEF TypeOK, CpuType, CpuLocals, SrcLocals, IackLegal
  <2> QED BY <2>3, <2>4
<1>16. CASE ResetStep
  <2> USE <1>16 DEF ResetStep, CpuAt
  <2>1. cpu' \in CpuType
    <3>1. 1 \in 1..8 /\ "idle" \in CpuPc /\ cpu.k \in 1..8
      BY DEF CpuPc, TypeOK, CpuType
    <3>2. CASE cpu.k = 8
      BY <3>1, <3>2, Zenon DEF TypeOK, CpuType
    <3>3. CASE cpu.k # 8
      <4>1. cpu.k + 1 \in 1..8
        BY <3>1, <3>3
      <4> QED BY <4>1, <3>3, Zenon DEF TypeOK, CpuType
    <3> QED BY <3>2, <3>3
  <2>2. src' \in SrcType /\ SrcLocals'
    BY DEF TypeOK, SrcType, SrcLocals
  <2>3. /\ ier' \subseteq Channel /\ imr' \subseteq Channel
        /\ vpend' \subseteq {TimerCh, SoundCh} /\ visr' \subseteq Channel
        /\ swEoi' \in BOOLEAN
    BY DEF TypeOK
  <2>4. tacr' \in 0..15 /\ tadr' \in 1..TimerFull /\ tacnt' \in 1..TimerFull
    BY DEF TypeOK
  <2>5. TypeOK'
    BY <2>1, <2>2, <2>3, <2>4 DEF TypeOK
  <2>6. CpuLocals' /\ IackLegal'
    BY DEF TypeOK, CpuType, CpuLocals, IackLegal
  <2> QED BY <2>2, <2>5, <2>6
<1>17. CASE \E ta, g7 \in BOOLEAN : FrameEvent(ta, g7)
  <2>1. TypeOK'
    BY <1>17 DEF TypeOK, FrameEvent, SrcAt, SrcTo, SrcReturn, CpuLocals, SrcLocals, regs, timer, CpuType, SrcType, IplType, CpuPc, SrcPc, IplPc
  <2>2. CpuLocals' /\ SrcLocals' /\ IackLegal'
    BY <1>17 DEF TypeOK, FrameEvent, SrcAt, SrcTo, SrcReturn, CpuLocals, SrcLocals, IackLegal, regs, timer
  <2> QED BY <2>1, <2>2
<1>18. CASE TimerCheck
  <2> USE <1>18 DEF TimerCheck, EventCount, SrcAt, regs, timer
  <2>1. src' \in SrcType /\ SrcLocals'
    <3>1. CASE tacr = EventCount
      BY <3>1, SrcToType DEF TypeOK, SrcPc, SrcLocals
    <3>2. CASE tacr # EventCount
      BY <3>2, SrcReturnType DEF TypeOK, SrcLocals
    <3> QED BY <3>1, <3>2
  <2>2. TypeOK'
    BY <2>1 DEF TypeOK, SrcLocals, SrcType
  <2>4. CpuLocals' /\ IackLegal'
    BY DEF CpuLocals, IackLegal
  <2> QED BY <2>1, <2>2, <2>4
<1>19. CASE TimerLoad
  <2> USE <1>19 DEF TimerLoad, EventCount, SrcAt, regs, timer
  <2>1. src' \in SrcType /\ SrcLocals'
    <3>1. tacnt \in 0..TimerFull /\ (IF tacnt <= 1 THEN "expire" ELSE "count") \in SrcPc
      BY DEF TypeOK, SrcPc
    <3>2. src' \in SrcType
      BY <3>1, Zenon DEF TypeOK, SrcType
    <3>3. SrcLocals'
      BY DEF TypeOK, SrcType, SrcLocals
    <3> QED BY <3>2, <3>3
  <2>2. TypeOK'
    BY <2>1 DEF TypeOK, SrcLocals, SrcType
  <2>4. CpuLocals' /\ IackLegal'
    BY DEF CpuLocals, IackLegal
  <2> QED BY <2>1, <2>2, <2>4
<1>20. CASE TimerCount
  <2> USE <1>20 DEF TimerCount, EventCount, SrcAt, regs, timer
  <2>1. src' \in SrcType /\ SrcLocals'
    BY SrcReturnType DEF TypeOK, SrcLocals
  <2>2. TypeOK'
    BY <2>1 DEF TypeOK, SrcLocals, SrcType
  <2>4. CpuLocals' /\ IackLegal'
    BY DEF CpuLocals, IackLegal
  <2> QED BY <2>1, <2>2, <2>4
<1>21. CASE TimerExpire
  <2> USE <1>21 DEF TimerExpire, EventCount, SrcAt, regs, timer
  <2>1. src' \in SrcType /\ SrcLocals'
    <3>1. tadr \in 0..TimerFull /\ "rearm" \in SrcPc
      BY DEF TypeOK, SrcPc
    <3>2. src' \in SrcType
      BY <3>1, Zenon DEF TypeOK, SrcType
    <3>3. SrcLocals'
      BY DEF TypeOK, SrcType, SrcLocals
    <3> QED BY <3>2, <3>3
  <2>2. TypeOK'
    BY <2>1 DEF TypeOK, SrcLocals, SrcType
  <2>4. CpuLocals' /\ IackLegal'
    BY DEF CpuLocals, IackLegal
  <2> QED BY <2>1, <2>2, <2>4
<1>22. CASE TimerRearm
  <2> USE <1>22 DEF TimerRearm, EventCount, SrcAt, regs, timer
  <2>1. src' \in SrcType /\ SrcLocals'
    BY SrcToType DEF TypeOK, SrcPc, SrcLocals
  <2>2. TypeOK'
    BY <2>1 DEF TypeOK, SrcLocals, SrcType
  <2>4. CpuLocals' /\ IackLegal'
    BY DEF CpuLocals, IackLegal
  <2> QED BY <2>1, <2>2, <2>4
<1>23. CASE RaiseTest
  <2> USE <1>23 DEF RaiseTest, EventCount, SrcAt, regs, timer
  <2>1. src' \in SrcType /\ SrcLocals'
    <3>1. CASE src.ch \in ier
      BY <3>1, SrcToType DEF TypeOK, SrcPc, SrcLocals
    <3>2. CASE src.ch \notin ier
      BY <3>2, SrcReturnType DEF TypeOK, SrcLocals
    <3> QED BY <3>1, <3>2
  <2>2. TypeOK'
    BY <2>1 DEF TypeOK, SrcLocals, SrcType
  <2>4. CpuLocals' /\ IackLegal'
    BY DEF CpuLocals, IackLegal
  <2> QED BY <2>1, <2>2, <2>4
<1>24. CASE RaiseLatch
  <2> USE <1>24 DEF RaiseLatch, EventCount, SrcAt, regs, timer
  <2>1. src' \in SrcType /\ SrcLocals'
    BY SrcReturnType DEF TypeOK, SrcLocals
  <2>2. TypeOK'
    BY <2>1 DEF TypeOK, SrcLocals, SrcType
  <2>4. CpuLocals' /\ IackLegal'
    BY DEF CpuLocals, IackLegal
  <2> QED BY <2>1, <2>2, <2>4
<1>25. CASE PollPend
  <2>1. TypeOK'
    BY <1>25 DEF TypeOK, PollPend, IplAt, CpuLocals, SrcLocals, regs, timer, CpuType, SrcType, IplType, CpuPc, SrcPc, IplPc
  <2>2. CpuLocals' /\ SrcLocals' /\ IackLegal'
    BY <1>25 DEF TypeOK, PollPend, IplAt, CpuLocals, SrcLocals, IackLegal, regs, timer
  <2> QED BY <2>1, <2>2
<1>26. CASE PollLevel
  <2>1. TypeOK'
    BY <1>26 DEF TypeOK, PollLevel, IplAt, CpuLocals, SrcLocals, regs, timer, CpuType, SrcType, IplType, CpuPc, SrcPc, IplPc
  <2>2. CpuLocals' /\ SrcLocals' /\ IackLegal'
    BY <1>26 DEF TypeOK, PollLevel, IplAt, CpuLocals, SrcLocals, IackLegal, regs, timer
  <2> QED BY <2>1, <2>2
<1>27. CASE PollIer
  <2>1. TypeOK'
    BY <1>27 DEF TypeOK, PollIer, IplAt, CpuLocals, SrcLocals, regs, timer, CpuType, SrcType, IplType, CpuPc, SrcPc, IplPc
  <2>2. CpuLocals' /\ SrcLocals' /\ IackLegal'
    BY <1>27 DEF TypeOK, PollIer, IplAt, CpuLocals, SrcLocals, IackLegal, regs, timer
  <2> QED BY <2>1, <2>2
<1>28. CASE PollImr
  <2>1. TypeOK'
    BY <1>28 DEF TypeOK, PollImr, IplAt, CpuLocals, SrcLocals, regs, timer, CpuType, SrcType, IplType, CpuPc, SrcPc, IplPc
  <2>2. CpuLocals' /\ SrcLocals' /\ IackLegal'
    BY <1>28 DEF TypeOK, PollImr, IplAt, CpuLocals, SrcLocals, IackLegal, regs, timer
  <2> QED BY <2>1, <2>2
<1>29. CASE PollIsr
  <2>1. TypeOK'
    BY <1>29 DEF TypeOK, PollIsr, IplAt, CpuLocals, SrcLocals, regs, timer, CpuType, SrcType, IplType, CpuPc, SrcPc, IplPc
  <2>2. CpuLocals' /\ SrcLocals' /\ IackLegal'
    BY <1>29 DEF TypeOK, PollIsr, IplAt, CpuLocals, SrcLocals, IackLegal, regs, timer
  <2> QED BY <2>1, <2>2
<1>30. CASE LevelChange
  <2>1. TypeOK'
    BY <1>30 DEF TypeOK, LevelChange, CpuLocals, SrcLocals, regs, timer, CpuType, SrcType, IplType, CpuPc, SrcPc, IplPc
  <2>2. CpuLocals' /\ SrcLocals' /\ IackLegal'
    BY <1>30 DEF TypeOK, LevelChange, CpuLocals, SrcLocals, IackLegal, regs, timer
  <2> QED BY <2>1, <2>2
<1>31. CASE UNCHANGED vars
  <2>1. TypeOK'
    BY <1>31 DEF TypeOK, vars, CpuLocals, SrcLocals, regs, timer, CpuType, SrcType, IplType, CpuPc, SrcPc, IplPc
  <2>2. CpuLocals' /\ SrcLocals' /\ IackLegal'
    BY <1>31 DEF TypeOK, vars, CpuLocals, SrcLocals, IackLegal, regs, timer
  <2> QED BY <2>1, <2>2
<1> QED
  BY <1>1, <1>2, <1>3, <1>4, <1>5, <1>6, <1>7, <1>8, <1>9, <1>10, <1>11, <1>12, <1>13, <1>14, <1>15, <1>16, <1>17, <1>18, <1>19, <1>20, <1>21, <1>22, <1>23, <1>24, <1>25, <1>26, <1>27, <1>28, <1>29, <1>30, <1>31
     DEF Next, GuestWrite, GuestFinish, Iack, SrcStep, IrqWanted

\* The invariant holds in every reachable state.
THEOREM HubInvariant == Spec => []HubInv
<1> QED BY HubInit, HubStep, PTL DEF Spec

\* The hub's fields keep their types: the timer's count stays in 1..TimerFull and
\* only event channels latch, whatever guest, sources, poll and RESET do.
THEOREM TypeCorrect == Spec => []TypeOK
<1>1. HubInv => TypeOK
  BY DEF HubInv
<1> QED BY <1>1, HubInvariant, PTL

\* mfp_hub_iack returns the vector of a channel that is enabled, unmasked and
\* above everything in service, whatever the sources did since it arbitrated.
THEOREM IackIsLegal == Spec => []IackLegal
<1>1. HubInv => IackLegal
  BY DEF HubInv
<1> QED BY <1>1, HubInvariant, PTL

\* In-service channels nest strictly.
THEOREM ServiceNests == Spec => InServiceNests
<1>1. HubInv /\ [Next]_vars => [\A c \in visr' \ visr : \A d \in visr : d < c]_vars
  <2> SUFFICES ASSUME HubInv, Next, NEW c \in visr' \ visr, NEW d \in visr
               PROVE  d < c
    OBVIOUS
  <2>1. visr' \subseteq visr \/ IackServe
    BY DEF Next, GuestWrite, GuestFinish, Iack, SrcStep, IrqWanted, regs,
           WriteIER, IerClear, WriteIPR, WriteISR, WriteIMR, WriteVR, VrClear,
           WriteTACR, WriteTADR, Reload, IackLoad, IackPoll, IackTake,
           StartReset, ResetStep, FrameEvent, TimerCheck, TimerLoad, TimerCount,
           TimerExpire, TimerRearm, RaiseTest, RaiseLatch, PollPend, PollLevel,
           PollIer, PollImr, PollIsr, LevelChange
  <2>2. CASE IackServe
    BY <2>2 DEF IackServe, CpuAt, HubInv, IackLegal
  <2> QED BY <2>1, <2>2
<1> QED BY <1>1, HubInvariant, PTL DEF Spec, InServiceNests

\* A write of VR that selects automatic EOI takes everything out of service, and
\* nothing that races it or follows it puts a channel back.
THEOREM AutoEoiIsEmpty == Spec => []AutoEoiHoldsNothing
<1>1. Init => AutoEoiHoldsNothing
  BY DEF Init, AutoEoiHoldsNothing
<1>2. TypeOK /\ AutoEoiHoldsNothing /\ [Next]_vars => AutoEoiHoldsNothing'
  <2> SUFFICES ASSUME TypeOK, AutoEoiHoldsNothing, [Next]_vars PROVE AutoEoiHoldsNothing'
    OBVIOUS
  <2> USE DEF TypeOK, CpuType, AutoEoiHoldsNothing, CpuAt, CpuIdle, CpuTo
  <2>1. CASE \E bank \in Banks : \E b \in SUBSET bank : WriteISR(bank, b)
    <3>1. visr' \subseteq visr /\ cpu.pc = "idle" /\ swEoi' = swEoi
      BY <2>1 DEF WriteISR
    <3> QED BY <3>1
  <2>2. CASE \E s \in BOOLEAN : WriteVR(s)
    BY <2>2 DEF WriteVR
  <2>3. CASE VrClear
    BY <2>3 DEF VrClear
  <2>4. CASE IackServe
    BY <2>4 DEF IackServe
  <2>5. CASE ResetStep
    BY <2>5 DEF ResetStep
  <2>6. CASE UNCHANGED <<visr, swEoi>> /\ (cpu' = cpu \/ cpu.pc # "vrClear")
    BY <2>6
  <2>7. CASE UNCHANGED vars
    BY <2>7 DEF vars, regs
  <2>8. \/ \E bank \in Banks : \E b \in SUBSET bank : WriteISR(bank, b)
        \/ \E s \in BOOLEAN : WriteVR(s)
        \/ VrClear \/ IackServe \/ ResetStep \/ UNCHANGED vars
        \/ UNCHANGED <<visr, swEoi>> /\ (cpu' = cpu \/ cpu.pc # "vrClear")
    BY DEF Next, GuestWrite, GuestFinish, Iack, SrcStep, IrqWanted, regs,
           WriteIER, IerClear, WriteIPR, WriteIMR, WriteTACR, WriteTADR, Reload,
           IackLoad, IackPoll, IackTake, StartReset, FrameEvent, TimerCheck,
           TimerLoad, TimerCount, TimerExpire, TimerRearm, RaiseTest, RaiseLatch,
           PollPend, PollLevel, PollIer, PollImr, PollIsr, LevelChange
  <2> QED BY <2>1, <2>2, <2>3, <2>4, <2>5, <2>6, <2>7, <2>8
<1> QED BY <1>1, <1>2, TypeCorrect, PTL DEF Spec
=============================================================================
