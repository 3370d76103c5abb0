-------------------------- MODULE IplDeliveryProofs --------------------------
(***************************************************************************)
(* Proofs about IplDelivery: for every set of sources, masks and phantoms, *)
(* when no network interrupt exists (NetLevel = 0), ipl_task never forgets *)
(* a latch and nobody lowers one that was not taken; and without virtual   *)
(* interrupts, network or not, a VBL that was taken is not latched again.  *)
(***************************************************************************)
EXTENDS IplDelivery, TLAPS

\* What ipl_task has tested against g_irq still holds when it stores: only the
\* CPU thread touches the latch meanwhile, and it only clears it.
TestStillHolds ==
    /\ ipl.pc \in {"mask", "store"} => g_irq < ipl.lvl
    /\ ipl.pc \in {"rearm", "vstore"} => g_irq < 6
    /\ ipl.pc = "follow" => g_irq <= ipl.seen

\* The CPU thread only takes levels the Atari has.
TakenLevel == Taking => cpu.nr \in {2, 4, 6}

\* The level being taken is still latched, or a higher one is; in the second
\* case somebody will make the CPU thread come back for it, and the mask raised
\* for the first does not hide it.
TakingInv ==
    Taking =>
        /\ cpu.nr <= g_irq
        /\ mask <= cpu.nr \/ (cpu.nr = 2 /\ mask = 3)
        /\ g_irq > cpu.nr => Kicking

\* Between MakeFromSR's test and its store: a latch the new mask lets through
\* has its exit request on the way, and when the mask comes down it has landed.
SetSRInv ==
    cpu.pc = "sr" /\ g_irq > cpu.nr =>
        \/ exit
        \/ ipl.pc \in {"kick", "vkick"}
        \/ ipl.kick /\ cpu.nr >= mask

\* LatchNeverForgotten without the network thread.
RunInv == g_irq > mask /\ cpu.pc = "run" /\ ~stopped => Kicking

KickInv ==
    /\ TypeOK /\ TakenLevel
    /\ TestStillHolds /\ TakingInv /\ SetSRInv /\ RunInv
    /\ net.pc = "idle"

-----------------------------------------------------------------------------
(* Types *)

LEMMA LineLevel == TypeOK => Line \in Levels
BY DEF TypeOK, DevType, Line, Levels

LEMMA TypeInit == Init => TypeOK /\ TakenLevel
<1> SUFFICES ASSUME Init PROVE TypeOK /\ TakenLevel
  OBVIOUS
<1>1. dev \in DevType
  BY DEF Init, DevType
<1>2. ipl \in IplType
  BY DEF Init, IplType, Levels
<1>3. cpu \in CpuType
  <2>1. 0 \in 0..7 /\ 0 \in {0, 1}
    OBVIOUS
  <2> QED
    BY <2>1, Zenon DEF Init, CpuType
<1> QED
  <2>1. mask \in 0..7 /\ g_irq \in Levels
    BY DEF Init, Levels
  <2>2. net \in [pc : {"idle", "store", "brk"}] /\ exit \in BOOLEAN /\ stopped \in BOOLEAN
    BY DEF Init
  <2>3. vblog \in [latched : BOOLEAN, served : BOOLEAN]
    BY DEF Init
  <2>4. TakenLevel
    BY DEF Init, TakenLevel, Taking
  <2> QED
    BY <1>1, <1>2, <1>3, <2>1, <2>2, <2>3, <2>4 DEF TypeOK

LEMMA TypeStep == TypeOK /\ TakenLevel /\ [Next]_vars => TypeOK'
<1> SUFFICES ASSUME TypeOK, TakenLevel, [Next]_vars PROVE TypeOK'
  OBVIOUS
<1> USE LevelsAssumption DEF TypeOK, Levels
<1>1. CASE VblStart
  BY <1>1 DEF VblStart, DevType
<1>2. CASE BlankEnd
  BY <1>2 DEF BlankEnd, DevType, IplType
<1>3. CASE HblEdge
  BY <1>3 DEF HblEdge, DevType
<1>4. CASE MfpEdge
  <2>1. PICK p \in Phantoms \cup {0} : dev' = [dev EXCEPT !.mfp = ~@, !.phantom = p]
    BY <1>4 DEF MfpEdge
  <2>2. p \in {0, 2, 4}
    OBVIOUS
  <2>3. dev' \in DevType
    BY <2>1, <2>2 DEF DevType
  <2> QED
    BY <1>4, <2>3 DEF MfpEdge
<1>5. CASE VirtEdge
  BY <1>5 DEF VirtEdge, DevType
<1>6. CASE PhantomEnds
  BY <1>6 DEF PhantomEnds, DevType
<1>7. CASE Settle
  BY <1>7 DEF Settle, IplAt, CpuAt, IplType
<1>8. CASE RefractoryEnds
  BY <1>8 DEF RefractoryEnds, IplAt, CpuAt, IplType
<1>9. CASE FollowLoad
  BY <1>9 DEF FollowLoad, IplAt, CpuAt, IplType
<1>10. CASE FollowDone
  BY <1>10 DEF FollowDone, IplAt, CpuAt, IplType
<1>11. CASE FollowKick
  BY <1>11 DEF FollowKick, IplAt, CpuAt, IplType
<1>12. CASE FollowKickLost
  BY <1>12 DEF FollowKickLost, IplAt, CpuAt, IplType
<1>13. CASE SampleBusy
  BY <1>13, LineLevel DEF SampleBusy, IplAt, CpuAt, IplType
<1>14. CASE SampleNew
  BY <1>14, LineLevel DEF SampleNew, IplAt, CpuAt, IplType
<1>15. CASE SampleSame
  BY <1>15, LineLevel DEF SampleSame, IplAt, CpuAt, IplType
<1>16. CASE LatchTest
  BY <1>16 DEF LatchTest, IplAt, CpuAt, IplType
<1>17. CASE LatchMasked
  BY <1>17 DEF LatchMasked, IplAt, CpuAt, IplType
<1>18. CASE HblReject
  BY <1>18 DEF HblReject, IplAt, CpuAt, IplType
<1>19. CASE VblRefractory
  BY <1>19 DEF VblRefractory, IplAt, CpuAt, IplType
<1>20. CASE LatchAccept
  <2>1. (IF ipl.lvl = 6 THEN ipl.held ELSE ipl.lvl) \in {0, 2, 4}
    BY DEF IplType
  <2>2. (IF ipl.lvl = 4 THEN dev.blank ELSE ipl.inblank) \in BOOLEAN
    BY DEF IplType, DevType
  <2>3. (ipl.refr \/ ipl.lvl = 4) \in BOOLEAN
    OBVIOUS
  <2>4. ipl' \in IplType
    BY <1>20, <2>1, <2>2, <2>3 DEF LatchAccept, IplType
  <2> QED
    BY <1>20, <2>4 DEF LatchAccept
<1>21. CASE LatchStore
  BY <1>21 DEF LatchStore, IplAt, CpuAt, IplType
<1>22. CASE Kick
  BY <1>22 DEF Kick, IplAt, CpuAt, IplType
<1>23. CASE KickLost
  BY <1>23 DEF KickLost, IplAt, CpuAt, IplType
<1>24. CASE VirtTest
  BY <1>24 DEF VirtTest, IplAt, CpuAt, IplType
<1>25. CASE VirtRearm
  BY <1>25 DEF VirtRearm, IplAt, CpuAt, IplType
<1>26. CASE VirtStore
  BY <1>26 DEF VirtStore, IplAt, CpuAt, IplType
<1>27. CASE \E m \in GuestMasks : SetSRTest(m)
  BY <1>27 DEF SetSRTest, CpuAt, CpuType
<1>28. CASE SetSRStore
  <2>1. 0 \in 0..7 /\ mask' \in 0..7
    BY <1>28 DEF SetSRStore, CpuType
  <2>2. cpu' \in CpuType
    BY <1>28, <2>1, Zenon DEF SetSRStore, CpuType
  <2> QED
    BY <1>28, <2>1, <2>2 DEF SetSRStore
<1>29. CASE LeaveBlock
  BY <1>29 DEF LeaveBlock, CpuAt, CpuType
<1>30. CASE BudgetSpent
  BY <1>30 DEF BudgetSpent, CpuAt, CpuType
<1>31. CASE Intlev
  <2>1. g_irq \in 0..7
    OBVIOUS
  <2>2. cpu' \in CpuType
    BY <1>31, <2>1, Zenon DEF Intlev, CpuType
  <2> QED
    BY <1>31, <2>2 DEF Intlev
<1>32. CASE AckAuto
  BY <1>32 DEF AckAuto, CpuAt, CpuType, DevType
<1>33. CASE AckVirtual
  BY <1>33 DEF AckVirtual, CpuAt, CpuType, DevType
<1>34. CASE AckMfp
  BY <1>34 DEF AckMfp, CpuAt, CpuType, DevType
<1>35. CASE AckNone
  <2>1. cpu' \in CpuType
    BY <1>35, Zenon DEF AckNone, CpuType
  <2> QED
    BY <1>35, <2>1 DEF AckNone
<1>36. CASE HblSuppress
  BY <1>36 DEF HblSuppress, CpuAt, CpuType
<1>37. CASE TakeException
  BY <1>37 DEF TakeException, CpuAt, CpuType
<1>38. CASE ClearLatch
  <2>1. 0 \in 0..7
    OBVIOUS
  <2>2. cpu' \in CpuType
    BY <1>38, <2>1, Zenon DEF ClearLatch, CpuType
  <2> QED
    BY <1>38, <2>2 DEF ClearLatch
<1>39. CASE KeepLatch
  <2>1. 0 \in 0..7
    OBVIOUS
  <2>2. cpu' \in CpuType
    BY <1>39, <2>1, Zenon DEF KeepLatch, CpuType
  <2>3. g_irq' \in Levels
    BY <1>39 DEF KeepLatch, CpuAt, TakenLevel, Taking
  <2> QED
    BY <1>39, <2>2, <2>3 DEF KeepLatch
<1>40. CASE NetTest
  BY <1>40 DEF NetTest, CpuAt
<1>41. CASE NetStore
  BY <1>41 DEF NetStore, CpuAt
<1>42. CASE NetBrk
  BY <1>42 DEF NetBrk, CpuAt
<1>43. CASE UNCHANGED vars
  BY <1>43 DEF vars
<1>44. QED
  BY <1>1, <1>2, <1>3, <1>4, <1>5, <1>6, <1>7, <1>8, <1>9, <1>10, <1>11, <1>12, <1>13, <1>14, <1>15, <1>16, <1>17, <1>18, <1>19, <1>20, <1>21, <1>22, <1>23, <1>24, <1>25, <1>26, <1>27, <1>28, <1>29, <1>30, <1>31, <1>32, <1>33, <1>34, <1>35, <1>36, <1>37, <1>38, <1>39, <1>40, <1>41, <1>42, <1>43 DEF Next, Device, IplStep, IplLoses, Deliver

LEMMA TakenStep == TypeOK /\ TakenLevel /\ [Next]_vars => TakenLevel'
<1> SUFFICES ASSUME TypeOK, TakenLevel, [Next]_vars PROVE TakenLevel'
  OBVIOUS
<1> USE DEF TakenLevel, Taking
<1>1. CASE UNCHANGED cpu
  BY <1>1
<1>2. CASE \E m \in GuestMasks : SetSRTest(m)
  BY <1>2 DEF SetSRTest, TypeOK, CpuType
<1>3. CASE Intlev
  BY <1>3 DEF Intlev, TypeOK, CpuType, Levels
<1>4. CASE SetSRStore \/ LeaveBlock \/ BudgetSpent
  BY <1>4 DEF SetSRStore, LeaveBlock, BudgetSpent, TypeOK, CpuType
<1>5. CASE AckAuto \/ AckVirtual \/ AckMfp \/ AckNone
  BY <1>5 DEF AckAuto, AckVirtual, AckMfp, AckNone, CpuAt, TypeOK, CpuType
<1>6. CASE HblSuppress \/ TakeException
  BY <1>6 DEF HblSuppress, TakeException, CpuAt, TypeOK, CpuType
<1>7. CASE ClearLatch \/ KeepLatch
  BY <1>7 DEF ClearLatch, KeepLatch, TypeOK, CpuType
<1>8. QED
  <2>1. Device \/ Settle \/ RefractoryEnds => UNCHANGED cpu
    BY DEF Device, VblStart, BlankEnd, HblEdge, MfpEdge, VirtEdge, PhantomEnds,
           Settle, RefractoryEnds
  <2>2. IplStep \/ IplLoses => UNCHANGED cpu
    BY DEF IplStep, IplLoses, FollowLoad, FollowDone, FollowKick, FollowKickLost,
           SampleBusy, SampleNew, SampleSame, LatchTest, LatchMasked, HblReject,
           VblRefractory, LatchAccept, LatchStore, Kick, KickLost, VirtTest,
           VirtRearm, VirtStore
  <2>3. NetTest \/ NetStore \/ NetBrk => UNCHANGED cpu
    BY DEF NetTest, NetStore, NetBrk
  <2> QED
    BY <1>1, <1>2, <1>3, <1>4, <1>5, <1>6, <1>7, <2>1, <2>2, <2>3
       DEF Next, Deliver, vars

\* Type correctness of the interrupt path, for every set of sources and masks:
\* g_irq, the mask mirror and the registers of both threads keep their types.
THEOREM TypeCorrect == Spec => []TypeOK
<1>1. Spec => [](TypeOK /\ TakenLevel)
  BY TypeInit, TypeStep, TakenStep, PTL DEF Spec
<1> QED
  BY <1>1, PTL

-----------------------------------------------------------------------------
(* The latch, when only ipl_task raises it *)

LEMMA KickInit == Init => KickInv
BY TypeInit DEF Init, KickInv, TestStillHolds, TakingInv, Taking, SetSRInv, RunInv

LEMMA KickStep ==
    ASSUME NetLevel = 0, KickInv, [Next]_vars
    PROVE  KickInv'
<1> SUFFICES (TestStillHolds /\ TakingInv /\ SetSRInv /\ RunInv /\ net.pc = "idle")'
  BY TypeStep, TakenStep DEF KickInv
<1>t. /\ g_irq \in Levels /\ mask \in 0..7 /\ cpu.nr \in 0..7
      /\ ipl.lvl \in Levels /\ ipl.seen \in Levels
      /\ exit \in BOOLEAN /\ ipl.kick \in BOOLEAN
  BY DEF KickInv, TypeOK, IplType, CpuType
<1>r. ipl \in IplType /\ cpu \in CpuType
  BY DEF KickInv, TypeOK
<1> USE <1>t, <1>r DEF KickInv, TestStillHolds, TakingInv, Taking, SetSRInv, RunInv,
                      Kicking, Levels
<1>1. CASE Device
  BY <1>1 DEF Device, VblStart, BlankEnd, HblEdge, MfpEdge, VirtEdge, PhantomEnds, IplType
<1>2. CASE Settle \/ RefractoryEnds
  BY <1>2 DEF Settle, RefractoryEnds, IplType
<1>3. CASE FollowLoad
  BY <1>3 DEF FollowLoad, IplAt, CpuAt, IplType
<1>4. CASE FollowDone
  BY <1>4 DEF FollowDone, IplAt, CpuAt, IplType
<1>5. CASE FollowKick \/ FollowKickLost
  BY <1>5 DEF FollowKick, FollowKickLost, IplAt, CpuAt, IplType
<1>6. CASE SampleBusy \/ SampleNew
  BY <1>6 DEF SampleBusy, SampleNew, IplAt, CpuAt, IplType
<1>7. CASE SampleSame
  BY <1>7 DEF SampleSame, IplAt, CpuAt, IplType
<1>8. CASE LatchTest
  BY <1>8 DEF LatchTest, IplAt, CpuAt, IplType
<1>9. CASE LatchMasked \/ HblReject \/ VblRefractory
  BY <1>9 DEF LatchMasked, HblReject, VblRefractory, IplAt, CpuAt, IplType
<1>10. CASE LatchAccept
  BY <1>10 DEF LatchAccept, IplAt, CpuAt, IplType
<1>11. CASE LatchStore
  BY <1>11 DEF LatchStore, IplAt, CpuAt, IplType
<1>12. CASE Kick
  BY <1>12 DEF Kick, IplAt, CpuAt, IplType
<1>13. CASE KickLost
  BY <1>13 DEF KickLost, IplAt, CpuAt, IplType
<1>14. CASE VirtTest
  BY <1>14 DEF VirtTest, IplAt, CpuAt, IplType
<1>15. CASE VirtRearm
  BY <1>15 DEF VirtRearm, IplAt, CpuAt, IplType
<1>16. CASE VirtStore
  BY <1>16 DEF VirtStore, IplAt, CpuAt, IplType
<1>17. CASE \E m \in GuestMasks : SetSRTest(m)
  <2>1. PICK m \in GuestMasks : SetSRTest(m)
    BY <1>17
  <2>2. m \in 0..7
    BY LevelsAssumption
  <2>3. cpu'.pc = "sr" /\ cpu'.nr = m /\ cpu.pc = "run" /\ ~stopped
    BY <2>1 DEF SetSRTest, CpuAt, CpuType
  <2>4. /\ UNCHANGED <<g_irq, mask, stopped, ipl, net>>
        /\ exit' = (exit \/ (m < mask /\ g_irq > m))
    BY <2>1 DEF SetSRTest
  <2>5. (TestStillHolds /\ TakingInv /\ RunInv /\ net.pc = "idle")'
    BY <2>3, <2>4
  <2>6. SetSRInv'
    <3>1. CASE m < mask
      BY <2>2, <2>3, <2>4, <3>1
    <3>2. CASE ~(m < mask)
      <4>1. g_irq > m => g_irq > mask /\ m >= mask
        BY <2>2, <3>2
      <4> QED
        BY <2>2, <2>3, <2>4, <4>1
    <3> QED
      BY <3>1, <3>2
  <2> QED
    BY <2>5, <2>6
<1>18. CASE SetSRStore
  BY <1>18 DEF SetSRStore, CpuAt, CpuType, TakenLevel
<1>19. CASE LeaveBlock
  BY <1>19 DEF LeaveBlock, CpuAt, CpuType, TakenLevel
<1>20. CASE BudgetSpent
  BY <1>20 DEF BudgetSpent, CpuAt, CpuType, TakenLevel
<1>21. CASE Intlev
  BY <1>21 DEF Intlev, CpuAt, CpuType, TakenLevel
<1>22. CASE AckAuto \/ AckVirtual \/ AckMfp
  BY <1>22 DEF AckAuto, AckVirtual, AckMfp, CpuAt, CpuType, TakenLevel
<1>23. CASE AckNone
  BY <1>23 DEF AckNone, CpuAt, CpuType, TakenLevel
<1>24. CASE HblSuppress
  BY <1>24 DEF HblSuppress, CpuAt, CpuType, TakenLevel
<1>25. CASE TakeException
  BY <1>25 DEF TakeException, CpuAt, CpuType, TakenLevel
<1>26. CASE ClearLatch
  BY <1>26 DEF ClearLatch, CpuAt, CpuType, TakenLevel
<1>27. CASE KeepLatch
  BY <1>27 DEF KeepLatch, CpuAt, CpuType, TakenLevel
<1>28. CASE NetTest \/ NetStore \/ NetBrk
  BY <1>28 DEF NetTest, NetStore, NetBrk
<1>29. CASE UNCHANGED vars
  BY <1>29 DEF vars
<1>30. QED
  BY <1>1, <1>2, <1>3, <1>4, <1>5, <1>6, <1>7, <1>8, <1>9, <1>10, <1>11, <1>12, <1>13, <1>14, <1>15, <1>16, <1>17, <1>18, <1>19, <1>20, <1>21, <1>22, <1>23, <1>24, <1>25, <1>26, <1>27, <1>28, <1>29 DEF Next, IplStep, IplLoses, Deliver

\* With no network interrupt the inductive invariant holds for ever.
LEMMA KickInvariant == ASSUME NetLevel = 0 PROVE Spec => []KickInv
<1>1. KickInv /\ [Next]_vars => KickInv'
  BY KickStep
<1> QED
  BY <1>1, KickInit, PTL DEF Spec

\* ipl_task's exit requests may be lost in a block's load/store window, the
\* guest may move its mask between any two accesses and levels may pre-empt each
\* other: an unmasked latch always has an exit request landed, in hand, or due
\* from the follow-up of ipl_task.
THEOREM NeverForgotten == ASSUME NetLevel = 0 PROVE Spec => []LatchNeverForgotten
<1>1. KickInv => LatchNeverForgotten
  BY DEF KickInv, RunInv, Kicking, LatchNeverForgotten
<1> QED
  BY <1>1, KickInvariant, PTL

\* do_interrupt clears exactly the level it took, and ipl_task's three stores -
\* made after tests that other steps may have separated from them - only raise.
THEOREM NeverLowered == ASSUME NetLevel = 0 PROVE Spec => LatchNeverLowered
<1> DEFINE Cleared == g_irq' < g_irq => g_irq' = 0 /\ cpu.pc = "clear" /\ cpu.nr = g_irq
<1>1. ASSUME KickInv, [Next]_vars PROVE [Cleared]_vars
  <2>t. /\ g_irq \in Levels /\ cpu.nr \in 0..7 /\ ipl.lvl \in Levels
    BY <1>1 DEF KickInv, TypeOK, IplType, CpuType
  <2> USE <2>t DEF Levels
  <2>1. CASE UNCHANGED g_irq
    BY <2>1
  <2>2. CASE LatchStore \/ VirtStore
    BY <1>1, <2>2 DEF LatchStore, VirtStore, IplAt, KickInv, TestStillHolds
  <2>3. CASE ClearLatch
    BY <2>3 DEF ClearLatch, CpuAt
  <2>4. CASE KeepLatch
    BY <2>4 DEF KeepLatch
  <2>5. CASE NetStore
    BY <1>1, <2>5 DEF NetStore, KickInv
  <2> QED
    <3>1. Device \/ Settle \/ RefractoryEnds => UNCHANGED g_irq
      BY DEF Device, VblStart, BlankEnd, HblEdge, MfpEdge, VirtEdge, PhantomEnds,
             Settle, RefractoryEnds
    <3>2. IplStep \/ IplLoses => LatchStore \/ VirtStore \/ UNCHANGED g_irq
      BY DEF IplStep, IplLoses, FollowLoad, FollowDone, FollowKick, FollowKickLost,
             SampleBusy, SampleNew, SampleSame, LatchTest, LatchMasked, HblReject,
             VblRefractory, LatchAccept, Kick, KickLost, VirtTest, VirtRearm
    <3>3. /\ (\E m \in GuestMasks : SetSRTest(m)) => UNCHANGED g_irq
          /\ BudgetSpent => UNCHANGED g_irq
          /\ Deliver => ClearLatch \/ KeepLatch \/ UNCHANGED g_irq
          /\ NetTest \/ NetBrk => UNCHANGED g_irq
      BY DEF SetSRTest, BudgetSpent, Deliver, SetSRStore, LeaveBlock, Intlev, AckAuto,
             AckVirtual, AckMfp, AckNone, HblSuppress, TakeException, NetTest, NetBrk
    <3> QED
      BY <1>1, <2>1, <2>2, <2>3, <2>4, <2>5, <3>1, <3>2, <3>3 DEF Next, vars
<1> QED
  BY <1>1, KickInvariant, PTL DEF Spec, LatchNeverLowered

-----------------------------------------------------------------------------
(* One latch for one VBL *)

\* A latch made in a blanking interval keeps its refractory for the rest of it:
\* the refractory outlasts the interval, and ends only between two passes.
RefractoryHolds ==
    /\ vblog.served => vblog.latched
    /\ vblog.latched /\ dev.blank => ipl.refr /\ ipl.inblank

\* A pass that has seen level 4 has seen this frame's VBL, and what it found
\* out about the refractory is still so when it stores.
PassInFrame ==
    /\ ipl.pc \in {"test", "mask", "store"} /\ ipl.lvl = 4 => ipl.g_ipl = 4
    /\ ipl.pc \in {"test", "mask"} /\ ipl.lvl = 4 /\ vblog.latched => ipl.refr
    /\ ipl.pc = "store" /\ ipl.lvl = 4 =>
           ~vblog.latched /\ ipl.refr /\ (dev.blank => ipl.inblank)

OnceInv ==
    /\ TypeOK /\ TakenLevel
    /\ ~dev.virt /\ ipl.pc # "rearm"
    /\ dev.phantom # 4 /\ (dev.vbl => dev.blank)
    /\ RefractoryHolds /\ PassInFrame

\* The GLUE ends its request with the blanking interval, no edge of the lines
\* passes through the code of level 4, and there is no virtual level 6.
PlainVbl == "virt" \notin Sources /\ 4 \notin Phantoms /\ ~HoldUntilAck

LEMMA OnceInit == Init => OnceInv
BY TypeInit DEF Init, OnceInv, RefractoryHolds, PassInFrame

LEMMA OnceStep ==
    ASSUME PlainVbl, OnceInv, [Next]_vars
    PROVE  OnceInv'
<1> DEFINE Rest == /\ ~dev.virt /\ ipl.pc # "rearm"
                   /\ dev.phantom # 4 /\ (dev.vbl => dev.blank)
                   /\ RefractoryHolds /\ PassInFrame
<1> SUFFICES Rest'
  BY TypeStep, TakenStep DEF OnceInv
<1>d. dev \in DevType /\ vblog \in [latched : BOOLEAN, served : BOOLEAN]
  BY DEF OnceInv, TypeOK
<1>i. ipl \in IplType /\ cpu \in CpuType
  BY DEF OnceInv, TypeOK
<1>h. Rest
  BY DEF OnceInv
<1> USE <1>h DEF RefractoryHolds, PassInFrame
<1>1. CASE VblStart
  BY <1>1, <1>d DEF VblStart, DevType
<1>2. CASE BlankEnd
  BY <1>2, <1>d, <1>i DEF BlankEnd, DevType, IplType, PlainVbl
<1>3. CASE HblEdge \/ PhantomEnds
  BY <1>3, <1>d DEF HblEdge, PhantomEnds, DevType
<1>4. CASE MfpEdge
  BY <1>4, <1>d DEF MfpEdge, DevType, PlainVbl
<1>5. CASE VirtEdge
  BY <1>5 DEF VirtEdge, PlainVbl
<1>6. CASE Settle \/ RefractoryEnds
  BY <1>6, <1>i DEF Settle, RefractoryEnds, IplType
<1>7. CASE FollowLoad \/ FollowDone
  BY <1>7, <1>i DEF FollowLoad, FollowDone, IplAt, IplType
<1>8. CASE FollowKick \/ FollowKickLost
  BY <1>8, <1>i DEF FollowKick, FollowKickLost, IplAt, IplType
<1>9. CASE SampleBusy \/ SampleNew
  BY <1>9, <1>i DEF SampleBusy, SampleNew, IplAt, IplType
<1>10. CASE SampleSame
  <2>1. Line = 4 => dev.blank
    BY DEF Line
  <2> QED
    BY <1>10, <1>i, <2>1 DEF SampleSame, IplAt, IplType
<1>11. CASE LatchTest
  BY <1>11, <1>i DEF LatchTest, IplAt, IplType
<1>12. CASE LatchMasked \/ HblReject \/ VblRefractory
  BY <1>12, <1>i DEF LatchMasked, HblReject, VblRefractory, IplAt, IplType
<1>13. CASE LatchAccept
  BY <1>13, <1>i DEF LatchAccept, IplAt, IplType
<1>14. CASE LatchStore
  BY <1>14, <1>i, <1>d DEF LatchStore, IplAt, IplType
<1>15. CASE Kick \/ KickLost
  BY <1>15, <1>i DEF Kick, KickLost, IplAt, IplType
<1>16. CASE VirtTest
  BY <1>16, <1>i DEF VirtTest, IplAt, IplType
<1>17. CASE VirtRearm \/ VirtStore
  BY <1>17, <1>i DEF VirtRearm, VirtStore, IplAt, IplType
<1>18. CASE AckAuto \/ AckVirtual \/ AckMfp
  BY <1>18, <1>d DEF AckAuto, AckVirtual, AckMfp, DevType
<1>19. CASE TakeException
  BY <1>19, <1>d DEF TakeException
<1>20. CASE UNCHANGED <<dev, ipl, vblog>>
  BY <1>20
<1>21. QED
  <2>1. /\ (\E m \in GuestMasks : SetSRTest(m)) => UNCHANGED <<dev, ipl, vblog>>
        /\ BudgetSpent => UNCHANGED <<dev, ipl, vblog>>
    BY DEF SetSRTest, BudgetSpent
  <2>2. Deliver => \/ AckAuto \/ AckVirtual \/ AckMfp \/ TakeException
                   \/ UNCHANGED <<dev, ipl, vblog>>
    BY DEF Deliver, SetSRStore, LeaveBlock, Intlev, AckNone, HblSuppress, ClearLatch, KeepLatch
  <2>3. NetTest \/ NetStore \/ NetBrk => UNCHANGED <<dev, ipl, vblog>>
    BY DEF NetTest, NetStore, NetBrk
  <2>4. UNCHANGED vars => UNCHANGED <<dev, ipl, vblog>>
    BY DEF vars
  <2> QED
    BY <1>1, <1>2, <1>3, <1>4, <1>5, <1>6, <1>7, <1>8, <1>9, <1>10, <1>11, <1>12, <1>13,
       <1>14, <1>15, <1>16, <1>17, <1>18, <1>19, <1>20, <2>1, <2>2, <2>3, <2>4
       DEF Next, Device, IplStep, IplLoses

\* A VBL that the guest has taken is not latched again in the same blanking
\* interval, however often the line leaves level 4 under a level 6 or a phantom and
\* comes back, which resets av_held: the refractory covers the whole interval, and a
\* pass that sampled the line before the VBL was latched cannot latch it again after.
\* The network thread may request any level meanwhile.
THEOREM TakenVblNotLatchedAgain == ASSUME PlainVbl PROVE Spec => VblLatchedOnce
<1> DEFINE Fresh == ipl.pc = "store" /\ ipl'.pc = "kick" /\ ipl.lvl = 4 => ~vblog.served
<1>1. OnceInv /\ [Next]_vars => OnceInv'
  BY OnceStep
<1>2. OnceInv => [Fresh]_vars
  BY DEF OnceInv, RefractoryHolds, PassInFrame
<1> QED
  BY <1>1, <1>2, OnceInit, PTL DEF Spec, VblLatchedOnce

=============================================================================
