--------------------------- MODULE DmaSoundProofs ---------------------------
(***************************************************************************)
(* Proofs about the DMA sound engine, for every set of frame addresses,    *)
(* every limit of a pass and every width of the generation counter.        *)
(***************************************************************************)
EXTENDS DmaSound, TLAPS

USE AddressAssumption, BoundAssumption DEF AddrS, AddrE

LEMMA AddressesAreNat == \A a : a \in AddrS \/ a \in AddrE => a \in Nat
  <1>1. 0 \in Nat
    OBVIOUS
  <1> QED
    BY <1>1, AddressAssumption, Zenon DEF AddrS, AddrE

LEMMA SoundInit == Init => SoundInv
  <1> SUFFICES ASSUME Init PROVE SoundInv
    OBVIOUS
  <1>1. /\ 0 \in AddrS /\ 0 \in AddrE /\ 0 \in 0..MaxAge /\ 0 \in 0..Guard
        /\ 0 \in 0..(GenMod - 1) /\ 0 \in 0..MaxOwed
    OBVIOUS
  <1>2. reg \in Frames /\ cpu \in CpuType /\ ipl \in IplType /\ pump \in PumpType
    BY <1>1 DEF Init, Frames, CpuType, IplType, PumpType
  <1>3. TypeOK
    BY <1>1, <1>2 DEF Init, TypeOK
  <1>4. LoopHasFrame /\ CountExact
    BY DEF Init, LoopHasFrame, CountExact, Behind
  <1> QED
    BY <1>3, <1>4 DEF SoundInv

\* The steps of the CPU thread that neither count nor reset.
LEMMA CpuQuiet ==
    ASSUME SoundInv,
           UNCHANGED <<count, ipl, pump>>,
           cpu' \in CpuType, reg' \in Frames,
           enabled' \in BOOLEAN, repeat' \in BOOLEAN, parked' \in BOOLEAN,
           actS' \in AddrS, actE' \in AddrE, age' \in 0..MaxAge
    PROVE  SoundInv'
  BY DEF SoundInv, TypeOK, LoopHasFrame, CountExact, Behind, count

\* The steps of the frame clock that do not count.
LEMMA IplQuiet ==
    ASSUME SoundInv,
           UNCHANGED <<reg, enabled, repeat, count, cpu, pump>>,
           parked' \in BOOLEAN,
           actS' \in AddrS, actE' \in AddrE, age' \in 0..MaxAge,
           ipl' \in IplType, ipl'.pc = "loop" => ipl'.s < ipl'.e
    PROVE  SoundInv'
  BY DEF SoundInv, TypeOK, LoopHasFrame, CountExact, Behind, count

\* A generation is one more for the pump, wrap-around included.
LEMMA OneMoreBehind ==
    ASSUME TypeOK, NewGeneration, pump' = pump
    PROVE  /\ gen' \in 0..(GenMod - 1) /\ owed' \in 0..MaxOwed
           /\ Behind' = Behind + 1
           /\ Behind = owed => owed' = owed + 1
  <1>1. gen \in 0..(GenMod - 1) /\ pump.last \in 0..(GenMod - 1) /\ owed \in 0..MaxOwed
    BY DEF TypeOK, PumpType
  <1>2. gen' = (IF gen + 1 = GenMod THEN 0 ELSE gen + 1) /\ Behind < MaxOwed
    BY DEF NewGeneration
  <1>3. owed' = IF owed + 1 < MaxOwed THEN owed + 1 ELSE MaxOwed
    BY DEF NewGeneration, Least
  <1>4. Behind' = IF gen' >= pump.last THEN gen' - pump.last ELSE gen' + GenMod - pump.last
    BY DEF Behind
  <1>5. Behind' = Behind + 1
    BY <1>1, <1>2, <1>4 DEF Behind
  <1> QED
    BY <1>1, <1>2, <1>3, <1>5

LEMMA CpuKeeps == SoundInv /\ (GuestWrite \/ StartReset \/ CpuFinish) => SoundInv'
  <1> SUFFICES ASSUME SoundInv, GuestWrite \/ StartReset \/ CpuFinish PROVE SoundInv'
    OBVIOUS
  <1>t. TypeOK /\ LoopHasFrame /\ CountExact
    BY DEF SoundInv
  <1>h. [pc |-> "idle", was |-> FALSE, silent |-> FALSE, k |-> 1] \in CpuType
    BY DEF CpuType
  <1>1. ASSUME NEW a \in Starts, StageStart(a) PROVE SoundInv'
    <2>1. reg' \in Frames
      BY <1>1, <1>t DEF StageStart, TypeOK, Frames
    <2> QED
      BY <1>1, <2>1, <1>t, CpuQuiet DEF StageStart, TypeOK, ctrl, frame
  <1>2. ASSUME NEW a \in Ends, StageEnd(a) PROVE SoundInv'
    <2>1. reg' \in Frames
      BY <1>2, <1>t DEF StageEnd, TypeOK, Frames
    <2> QED
      BY <1>2, <2>1, <1>t, CpuQuiet DEF StageEnd, TypeOK, ctrl, frame
  <1>3. ASSUME NEW en \in BOOLEAN, NEW rep \in BOOLEAN, CtrlWrite(en, rep) PROVE SoundInv'
    <2>1. cpu' \in CpuType
      <3>1. CASE en \/ enabled
        <4>1. cpu' = [cpu EXCEPT !.pc = IF en THEN "enable" ELSE "disable",
                                 !.was = enabled, !.silent = ~Playing]
          BY <1>3, <3>1 DEF CtrlWrite
        <4>2. enabled \in BOOLEAN /\ (~Playing) \in BOOLEAN
          BY <1>t DEF TypeOK, Playing
        <4> QED
          BY <4>1, <4>2, <1>t, Zenon DEF TypeOK, CpuType
      <3>2. CASE ~(en \/ enabled)
        BY <1>3, <3>2, <1>h DEF CtrlWrite, CpuHome
      <3> QED
        BY <3>1, <3>2
    <2> QED
      BY <1>3, <2>1, <1>t, CpuQuiet DEF CtrlWrite, TypeOK, frame
  <1>4. CASE StartReset
    <2>1. cpu' \in CpuType
      <3>1. 1 \in 1..7 /\ cpu' = [cpu EXCEPT !.pc = "reset", !.k = 1]
        BY <1>4 DEF StartReset
      <3> QED
        BY <3>1, <1>t, Zenon DEF TypeOK, CpuType
    <2> QED
      BY <1>4, <2>1, <1>t, CpuQuiet DEF StartReset, TypeOK, ctrl, frame
  <1>5. CASE CtrlDisable
    BY <1>5, <1>t, <1>h, CpuQuiet DEF CtrlDisable, CpuHome, TypeOK, frame
  <1>6. CASE CtrlEnable
    <2>1. cpu' \in CpuType
      BY <1>6, <1>t, <1>h DEF CtrlEnable, CpuHome, TypeOK, CpuType
    <2> QED
      BY <1>6, <2>1, <1>t, CpuQuiet DEF CtrlEnable, TypeOK, frame
  <1>c. \A p \in {"commitE", "commitT", "unpark", "commitGen"} : CpuTo(p) => cpu' \in CpuType
    BY <1>t DEF CpuTo, TypeOK, CpuType
  <1>r. reg.s \in AddrS /\ reg.e \in AddrE
    BY <1>t DEF TypeOK, Frames
  <1>7. CASE CommitS
    BY <1>7, <1>c, <1>r, <1>t, CpuQuiet DEF CommitS, TypeOK, ctrl
  <1>8. CASE CommitE
    BY <1>8, <1>c, <1>r, <1>t, CpuQuiet DEF CommitE, TypeOK, ctrl
  <1>9. CASE CommitT
    BY <1>9, <1>c, <1>t, CpuQuiet DEF CommitT, TypeOK, ctrl
  <1>10. CASE CommitUnpark
    BY <1>10, <1>c, <1>t, CpuQuiet DEF CommitUnpark, TypeOK, frame
  <1>11. CASE CommitGen
    <2>1. /\ gen' \in 0..(GenMod - 1) /\ owed' \in 0..MaxOwed /\ Behind' = Behind + 1
          /\ Behind = owed => owed' = owed + 1
      BY <1>11, <1>t, OneMoreBehind DEF CommitGen
    <2>2. TypeOK'
      BY <1>11, <2>1, <1>t, <1>h DEF CommitGen, CpuHome, TypeOK, ctrl, frame
    <2>3. LoopHasFrame' /\ CountExact'
      BY <1>11, <2>1, <1>t DEF CommitGen, LoopHasFrame, CountExact
    <2> QED
      BY <2>2, <2>3 DEF SoundInv
  <1>12. CASE ResetStep
    <2>1. cpu' \in CpuType
      <3>1. cpu.k \in 1..7
        BY <1>t DEF TypeOK, CpuType
      <3>2. CASE cpu.k = 7
        BY <1>12, <3>2, <1>h DEF ResetStep, CpuHome
      <3>3. CASE cpu.k # 7
        <4>1. cpu.k + 1 \in 1..7 /\ cpu' = [cpu EXCEPT !.k = cpu.k + 1]
          BY <1>12, <3>1, <3>3 DEF ResetStep
        <4> QED
          BY <4>1, <1>t, Zenon DEF TypeOK, CpuType
      <3> QED
        BY <3>2, <3>3
    <2>2. reg' \in Frames /\ gen' \in 0..(GenMod - 1) /\ actS' \in AddrS /\ actE' \in AddrE
      BY <1>12, <1>t DEF ResetStep, TypeOK, Frames
    <2>3. /\ enabled' \in BOOLEAN /\ repeat' \in BOOLEAN /\ parked' \in BOOLEAN
          /\ cleared' \in BOOLEAN
      BY <1>12, <1>t DEF ResetStep, TypeOK
    <2>4. UNCHANGED <<age, owed, ipl, pump>>
      BY <1>12 DEF ResetStep
    <2>5. ~cleared' => gen' = gen /\ ~cleared
      BY <1>12 DEF ResetStep
    <2>6. TypeOK'
      BY <2>1, <2>2, <2>3, <2>4, <1>t DEF TypeOK
    <2>7. LoopHasFrame' /\ CountExact'
      BY <2>4, <2>5, <1>t DEF LoopHasFrame, CountExact, Behind
    <2> QED
      BY <2>6, <2>7 DEF SoundInv
  <1> QED
    BY <1>1, <1>2, <1>3, <1>4, <1>5, <1>6, <1>7, <1>8, <1>9, <1>10, <1>11, <1>12
    DEF GuestWrite, CpuFinish

LEMMA IplKeeps == SoundInv /\ (IplStep \/ Tick) => SoundInv'
  <1> SUFFICES ASSUME SoundInv, IplStep \/ Tick PROVE SoundInv'
    OBVIOUS
  <1>t. TypeOK /\ LoopHasFrame /\ CountExact
    BY DEF SoundInv
  <1>h. /\ [pc |-> "idle", s |-> 0, e |-> 0, t |-> 0, n |-> 0] \in IplType
        /\ \A p \in {"loadS", "storeE", "storeT", "gen", "event", "loop", "park"} :
              IplTo(p) => ipl' \in IplType /\ ipl'.pc = p /\ ipl'.s = ipl.s /\ ipl'.e = ipl.e
    BY <1>t DEF IplTo, TypeOK, IplType
  <1>v. /\ reg.s \in AddrS /\ reg.e \in AddrE /\ ipl.s \in AddrS /\ ipl.e \in AddrE
        /\ ipl.t \in 0..MaxAge /\ ipl.n \in 0..Guard
        /\ actS \in AddrS /\ actE \in AddrE /\ age \in 0..MaxAge /\ parked \in BOOLEAN
    BY <1>t DEF TypeOK, Frames, IplType
  <1>1. CASE PassStart
    BY <1>1, <1>h, <1>v, IplQuiet DEF PassStart, ctrl, frame
  <1>2. CASE LoadS
    <2>1. ipl' \in IplType /\ ipl'.pc = "loadE"
      BY <1>2, <1>v, <1>t DEF LoadS, TypeOK, IplType
    <2> QED
      BY <1>2, <2>1, <1>v, IplQuiet DEF LoadS, ctrl, frame
  <1>3. CASE LoadE
    <2>1. ipl' \in IplType /\ ipl'.pc = "loadT"
      BY <1>3, <1>v, <1>t DEF LoadE, TypeOK, IplType
    <2> QED
      BY <1>3, <2>1, <1>v, IplQuiet DEF LoadE, ctrl, frame
  <1>4. CASE LoadT
    <2>1. ipl' \in IplType /\ ipl'.s = ipl.s /\ ipl'.e = ipl.e
      BY <1>4, <1>v, <1>t DEF LoadT, TypeOK, IplType
    <2>2. ipl'.pc = "loop" => ipl'.s < ipl'.e
      BY <1>4, <2>1, <1>v, <1>t DEF LoadT, TypeOK, IplType
    <2> QED
      BY <1>4, <2>1, <2>2, <1>v, IplQuiet DEF LoadT, ctrl, frame
  <1>5. CASE PassEnd
    BY <1>5, <1>h, <1>v, IplQuiet DEF PassEnd, IplHome, ctrl, frame
  <1>6. CASE Boundary
    <2>1. ipl.s < ipl.e /\ ipl.t >= ipl.e - ipl.s /\ ipl.n < Guard
      BY <1>6, <1>t DEF Boundary, IplAt, Due, LoopHasFrame
    <2>2. ipl.t + ipl.s - ipl.e \in 0..MaxAge /\ ipl.n + 1 \in 0..Guard
      <3>1. ipl.s \in Nat /\ ipl.e \in Nat /\ ipl.t \in 0..MaxAge /\ ipl.n \in 0..Guard
        BY <1>v, AddressesAreNat
      <3> QED
        BY <2>1, <3>1
    <2>3. ipl' = [ipl EXCEPT !.pc = "stageE", !.t = ipl.t + ipl.s - ipl.e,
                             !.n = ipl.n + 1, !.s = reg.s]
      BY <1>6 DEF Boundary
    <2>4. ipl' \in IplType
      BY <2>2, <2>3, <1>v, <1>t, Zenon DEF TypeOK, IplType
    <2>5. ipl'.pc = "stageE"
      BY <2>3, <1>t DEF TypeOK, IplType
    <2> QED
      BY <1>6, <2>4, <2>5, <1>v, IplQuiet DEF Boundary, ctrl, frame
  <1>7. CASE StageE
    <2>1. ipl' \in IplType /\ ipl'.pc = "storeS"
      BY <1>7, <1>v, <1>t DEF StageE, TypeOK, IplType
    <2> QED
      BY <1>7, <2>1, <1>v, IplQuiet DEF StageE, ctrl, frame
  <1>8. CASE StoreS
    BY <1>8, <1>h, <1>v, IplQuiet DEF StoreS, ctrl
  <1>9. CASE StoreE
    BY <1>9, <1>h, <1>v, IplQuiet DEF StoreE, ctrl
  <1>10. CASE StoreT
    BY <1>10, <1>h, <1>v, IplQuiet DEF StoreT, ctrl
  <1>11. CASE StoreGen
    <2>1. /\ gen' \in 0..(GenMod - 1) /\ owed' \in 0..MaxOwed /\ Behind' = Behind + 1
          /\ Behind = owed => owed' = owed + 1
      BY <1>11, <1>t, OneMoreBehind DEF StoreGen
    <2>2. ipl' \in IplType /\ ipl'.pc = "event"
      BY <1>11, <1>h DEF StoreGen
    <2>3. TypeOK'
      BY <1>11, <2>1, <2>2, <1>t DEF StoreGen, TypeOK, ctrl, frame
    <2>4. LoopHasFrame' /\ CountExact'
      BY <1>11, <2>1, <2>2, <1>t DEF StoreGen, LoopHasFrame, CountExact
    <2> QED
      BY <2>3, <2>4 DEF SoundInv
  <1>12. CASE FrameEnd
    <2>1. ipl' \in IplType /\ (ipl'.pc = "loop" => ipl'.s < ipl'.e)
      <3>1. CASE ~repeat \/ ipl.e <= ipl.s
        BY <1>12, <3>1, <1>h DEF FrameEnd
      <3>2. CASE ~(~repeat \/ ipl.e <= ipl.s)
        <4>1. IplTo("loop")
          BY <1>12, <3>2 DEF FrameEnd
        <4>2. ipl.s \in Nat /\ ipl.e \in Nat
          BY <1>v, AddressesAreNat
        <4>3. ipl.s < ipl.e
          BY <3>2, <4>2
        <4> QED
          BY <4>1, <4>3, <1>h
      <3> QED
        BY <3>1, <3>2
    <2> QED
      BY <1>12, <2>1, <1>v, IplQuiet DEF FrameEnd, ctrl, frame
  <1>13. CASE Park
    BY <1>13, <1>h, <1>v, IplQuiet DEF Park, IplHome, frame
  <1>14. CASE Tick
    <2>1. age' \in 0..MaxAge
      BY <1>14, <1>v DEF Tick
    <2> QED
      BY <1>14, <2>1, <1>v, <1>t, IplQuiet DEF Tick, TypeOK, LoopHasFrame, ctrl
  <1> QED
    BY <1>1, <1>2, <1>3, <1>4, <1>5, <1>6, <1>7, <1>8, <1>9, <1>10, <1>11, <1>12, <1>13,
       <1>14
    DEF IplStep

LEMMA PumpKeeps == SoundInv /\ PumpStep => SoundInv'
  <1> SUFFICES ASSUME SoundInv, PumpStep PROVE SoundInv'
    OBVIOUS
  <1>t. TypeOK /\ LoopHasFrame /\ CountExact
    BY DEF SoundInv
  <1>1. CASE PumpLook
    <2>1. gen \in 0..(GenMod - 1) /\ pump.last \in 0..(GenMod - 1)
      BY <1>t DEF TypeOK, PumpType
    <2>2. Least(Behind, Guard) \in 0..Guard
      BY <2>1 DEF Behind, Least
    <2>3. pump' = [pump EXCEPT !.pc = "loadS", !.last = gen, !.n = Least(Behind, Guard)]
      BY <1>1 DEF PumpLook
    <2>4. pump' \in PumpType
      BY <2>1, <2>2, <2>3, <1>t, Zenon DEF TypeOK, PumpType
    <2>5. pump'.last = gen /\ gen' = gen /\ owed' = 0 /\ cleared' = FALSE
      BY <1>1, <2>3, <1>t DEF PumpLook, TypeOK, PumpType
    <2>6. TypeOK'
      <3>1. UNCHANGED <<reg, enabled, repeat, parked, actS, actE, age, gen, cpu, ipl>>
        BY <1>1 DEF PumpLook, ctrl, frame
      <3>2. 0 \in 0..MaxOwed /\ FALSE \in BOOLEAN
        OBVIOUS
      <3> QED
        BY <2>4, <2>5, <3>1, <3>2, <1>t DEF TypeOK
    <2>7. LoopHasFrame' /\ CountExact'
      BY <1>1, <2>1, <2>5, <1>t DEF PumpLook, LoopHasFrame, CountExact, Behind
    <2> QED
      BY <2>6, <2>7 DEF SoundInv
  <1>2. CASE PumpS \/ PumpCopy
    <2>1. pump' \in PumpType /\ pump'.last = pump.last
      <3>1. 0 \in 0..Guard /\ 0 \in AddrS /\ actS \in AddrS /\ pump \in PumpType
        BY <1>t DEF TypeOK
      <3>2. CASE PumpS
        BY <3>1, <3>2 DEF PumpS, PumpType
      <3>3. CASE PumpCopy
        BY <3>1, <3>3 DEF PumpCopy, PumpType
      <3> QED
        BY <1>2, <3>2, <3>3
    <2>2. UNCHANGED <<reg, enabled, repeat, parked, actS, actE, age, gen, owed, cleared, cpu, ipl>>
      BY <1>2 DEF PumpS, PumpCopy, ctrl, frame, count
    <2>3. TypeOK'
      BY <2>1, <2>2, <1>t DEF TypeOK
    <2>4. LoopHasFrame' /\ CountExact'
      BY <2>1, <2>2, <1>t DEF LoopHasFrame, CountExact, Behind
    <2> QED
      BY <2>3, <2>4 DEF SoundInv
  <1> QED
    BY <1>1, <1>2 DEF PumpStep

LEMMA SoundStep == SoundInv /\ [Next]_vars => SoundInv'
  <1>1. SoundInv /\ UNCHANGED vars => SoundInv'
    BY DEF vars, SoundInv, TypeOK, LoopHasFrame, CountExact, Behind
  <1> QED
    BY <1>1, CpuKeeps, IplKeeps, PumpKeeps DEF Next

-----------------------------------------------------------------------------
\* The types hold, in particular the frame clock is never ahead of time however
\* frames_advance races dmasnd_commit and dmasnd_capture_reset, and the pump's
\* unsigned difference is the number of frames that became active.
THEOREM SoundInvariant == Spec => [](TypeOK /\ CountExact)
  <1>1. SoundInv => TypeOK /\ CountExact
    BY DEF SoundInv
  <1> QED
    BY <1>1, SoundInit, SoundStep, PTL DEF Spec

\* pump_thread copies once for every generation since it last looked, up to its
\* limit, for every width of g_gen: the wrap-around loses and invents nothing.
THEOREM OneCopy == Spec => OneCopyPerGeneration
  <1>1. ASSUME SoundInv, [Next]_vars
        PROVE  [pump.pc = "look" /\ pump'.pc = "loadS" /\ ~cleared
                  => pump'.n = Least(owed, Guard)]_vars
    <2> SUFFICES ASSUME pump.pc = "look", pump'.pc = "loadS", ~cleared
                 PROVE  pump'.n = Least(owed, Guard)
      OBVIOUS
    <2>1. pump' # pump
      OBVIOUS
    <2>2. PumpStep
      BY <1>1, <2>1 DEF Next, vars, GuestWrite, StartReset, CpuFinish, IplStep, Tick,
         StageStart, StageEnd, CtrlWrite, CtrlDisable, CtrlEnable, CommitS, CommitE,
         CommitT, CommitUnpark, CommitGen, ResetStep, PassStart, LoadS, LoadE, LoadT,
         PassEnd, Boundary, StageE, StoreS, StoreE, StoreT, StoreGen, FrameEnd, Park
    <2>3. PumpLook
      BY <2>2 DEF PumpStep, PumpS, PumpCopy, PumpAt
    <2> QED
      BY <1>1, <2>3 DEF PumpLook, SoundInv, TypeOK, PumpType, CountExact
  <1> QED
    BY <1>1, SoundInit, SoundStep, PTL DEF Spec, OneCopyPerGeneration
=============================================================================
