---------------------------- MODULE KbdAciaProofs ----------------------------
(***************************************************************************)
(* Proofs about the keyboard ACIA receive rescue, for every FIFO size and  *)
(* every number of bytes.                                                  *)
(***************************************************************************)
EXTENDS KbdAcia, TLAPS

\* What the FIFO, the chip and the guest hold, in the order of the wire.  The
\* receive data register keeps the last byte after it was read, and no byte is
\* newer than it; a hold of the lock between the two cycles of a rescue keeps
\* the receiver full, since everything else that empties it needs the lock.
WireOrder ==
    /\ \A i, j \in 1..Len(fifo) : i < j => fifo[i] < fifo[j]
    /\ \A i \in 1..Len(fifo) : fifo[i] <= chip.rdr /\ (chip.rdrf => fifo[i] < chip.rdr)
    /\ \A b \in taken : b <= chip.rdr /\ (chip.rdrf => b < chip.rdr)
    /\ \A b \in taken : \A i \in 1..Len(fifo) : b < fifo[i]
    /\ chip.rdr <= wire
    /\ chip.rdrf => chip.rdr # 0
    /\ lock => chip.rdrf
    /\ cpu.pc = "data" => chip.rdr # 0

AciaInv == TypeOK /\ WireOrder

-----------------------------------------------------------------------------
LEMMA AciaInit == Init => AciaInv
  <1> SUFFICES ASSUME Init PROVE AciaInv
    OBVIOUS
  <1>1. fifo = <<>> /\ fifo \in Seq(1..MaxBytes) /\ Len(fifo) = 0
    BY DEF Init
  <1>2. TypeOK
    <2>1. 0 \in 0..MaxBytes /\ 0 <= KqSize
      BY SizesAssumption
    <2>2. chip \in [rdr : 0..MaxBytes, rdrf : BOOLEAN]
      BY <2>1 DEF Init
    <2>3. cpu \in [pc : {"main", "gpip", "shim", "status", "data", "reset"},
                   isr : BOOLEAN, low : BOOLEAN, expect : 0..MaxBytes]
      BY <2>1 DEF Init
    <2> QED
      BY <1>1, <2>1, <2>2, <2>3 DEF Init, TypeOK
  <1>3. WireOrder
    BY <1>1 DEF Init, WireOrder
  <1> QED
    BY <1>2, <1>3 DEF AciaInv

\* The steps that leave the receiver, the FIFO and what the guest has alone.
LEMMA AciaQuiet ==
    ASSUME AciaInv,
           UNCHANGED <<wire, chip, fifo, taken, lost>>,
           mfp6' \in BOOLEAN, lock' \in BOOLEAN,
           lock' => chip.rdrf,
           cpu' \in [pc : {"main", "gpip", "shim", "status", "data", "reset"},
                     isr : BOOLEAN, low : BOOLEAN, expect : 0..MaxBytes],
           cpu'.pc = "data" => chip.rdr # 0
    PROVE  AciaInv'
  BY DEF AciaInv, TypeOK, WireOrder

\* What waits for the guest: the FIFO, then the receiver.
LEMMA WaitingIs ==
    ASSUME TypeOK
    PROVE  /\ Waiting \in Seq(0..MaxBytes)
           /\ Len(Waiting) = Len(fifo) + (IF chip.rdrf THEN 1 ELSE 0)
           /\ \A i \in 1..Len(Waiting) :
                 Waiting[i] = IF i <= Len(fifo) THEN fifo[i] ELSE chip.rdr
  <1>1. fifo \in Seq(0..MaxBytes) /\ chip.rdr \in 0..MaxBytes /\ chip.rdrf \in BOOLEAN
    BY SizesAssumption DEF TypeOK
  <1>2. CASE chip.rdrf
    <2>1. Waiting = fifo \o <<chip.rdr>>
      BY <1>2 DEF Waiting
    <2>2. <<chip.rdr>> \in Seq(0..MaxBytes) /\ Len(<<chip.rdr>>) = 1 /\ <<chip.rdr>>[1] = chip.rdr
      BY <1>1
    <2> QED
      BY <1>1, <1>2, <2>1, <2>2
  <1>3. CASE ~chip.rdrf
    <2>1. Waiting = fifo
      BY <1>1, <1>3 DEF Waiting
    <2> QED
      BY <1>1, <1>3, <2>1
  <1> QED
    BY <1>1, <1>2, <1>3

LEMMA AciaStep == AciaInv /\ [Next]_vars => AciaInv'
  <1> SUFFICES ASSUME AciaInv, [Next]_vars PROVE AciaInv'
    OBVIOUS
  <1> USE SizesAssumption
  <1>t. TypeOK /\ WireOrder
    BY DEF AciaInv
  <1>1. CASE ByteArrives
    <2>1. CASE chip.rdrf
      <3>1. TypeOK'
        <4>1. wire' \in 0..MaxBytes /\ wire + 1 \in 1..MaxBytes
          BY <1>1, <1>t DEF ByteArrives, TypeOK
        <4>2. lost' \subseteq 1..MaxBytes /\ UNCHANGED <<chip, mfp6>>
          BY <1>1, <2>1, <4>1, <1>t DEF ByteArrives, TypeOK
        <4> QED
          BY <1>1, <4>1, <4>2, <1>t DEF ByteArrives, TypeOK
      <3>2. WireOrder'
        BY <1>1, <2>1, <1>t DEF ByteArrives, TypeOK, WireOrder
      <3> QED
        BY <3>1, <3>2 DEF AciaInv
    <2>2. CASE ~chip.rdrf
      <3>1. chip' = [rdr |-> wire + 1, rdrf |-> TRUE] /\ mfp6' = TRUE /\ lost' = lost
        BY <1>1, <2>2 DEF ByteArrives
      <3>2. TypeOK'
        BY <1>1, <3>1, <1>t DEF ByteArrives, TypeOK
      <3>3. \A b \in taken : b \in 1..MaxBytes /\ b < wire + 1
        BY <1>t DEF TypeOK, WireOrder
      <3>4. \A i \in 1..Len(fifo) : fifo[i] \in 1..MaxBytes /\ fifo[i] < wire + 1
        BY <1>t DEF TypeOK, WireOrder
      <3>5. WireOrder'
        BY <1>1, <3>1, <3>3, <3>4, <1>t DEF ByteArrives, TypeOK, WireOrder
      <3> QED
        BY <3>2, <3>5 DEF AciaInv
    <2> QED
      BY <2>1, <2>2
  <1>2. CASE RescueStatus
    BY <1>2, <1>t, AciaQuiet DEF RescueStatus, TypeOK, WireOrder
  <1>3. CASE RescueData
    <2>1. chip.rdrf /\ chip.rdr \in 1..MaxBytes /\ chip' = [chip EXCEPT !.rdrf = FALSE]
      BY <1>3, <1>t DEF RescueData, TypeOK, WireOrder
    <2>2. CASE Len(fifo) < KqSize
      <3>1. fifo' = Append(fifo, chip.rdr) /\ lost' = lost
        BY <1>3, <2>2 DEF RescueData
      <3>2. fifo' \in Seq(1..MaxBytes) /\ Len(fifo') = Len(fifo) + 1
        BY <3>1, <2>1, <1>t DEF TypeOK
      <3>3. \A i \in 1..Len(fifo') : fifo'[i] = IF i <= Len(fifo) THEN fifo[i] ELSE chip.rdr
        BY <3>1, <3>2, <2>1, <1>t DEF TypeOK
      <3>4. TypeOK'
        <4>1. chip' \in [rdr : 0..MaxBytes, rdrf : BOOLEAN]
          BY <2>1, <1>t DEF TypeOK
        <4>2. Len(fifo') <= KqSize
          BY <3>2, <2>2, <1>t DEF TypeOK
        <4> QED
          BY <1>3, <3>1, <3>2, <4>1, <4>2, <1>t DEF RescueData, TypeOK
      <3>5. WireOrder'
        <4>1. chip'.rdr = chip.rdr /\ chip'.rdrf = FALSE /\ lock' = FALSE
              /\ UNCHANGED <<wire, taken, cpu>>
          BY <1>3, <2>1, <1>t DEF RescueData, TypeOK
        <4>5. /\ Len(fifo) \in Nat
              /\ \A i \in 1..Len(fifo) : fifo[i] \in 1..MaxBytes /\ fifo[i] < chip.rdr
              /\ \A i, j \in 1..Len(fifo) : i < j => fifo[i] < fifo[j]
          BY <2>1, <1>t DEF TypeOK, WireOrder
        <4>2. \A i \in 1..Len(fifo') : fifo'[i] \in 1..MaxBytes /\ fifo'[i] <= chip.rdr
          BY <2>1, <3>2, <3>3, <4>5
        <4>3. \A i, j \in 1..Len(fifo') : i < j => fifo'[i] < fifo'[j]
          BY <2>1, <3>2, <3>3, <4>5
        <4>6. /\ \A b \in taken : b < chip.rdr
              /\ \A b \in taken : \A i \in 1..Len(fifo) : b < fifo[i]
          BY <2>1, <1>t DEF WireOrder
        <4>4. \A b \in taken : \A i \in 1..Len(fifo') : b < fifo'[i]
          <5> SUFFICES ASSUME NEW b \in taken, NEW i \in 1..Len(fifo')
                       PROVE  b < fifo'[i]
            OBVIOUS
          <5>1. CASE i <= Len(fifo)
            <6>1. i \in 1..Len(fifo) /\ fifo'[i] = fifo[i]
              BY <5>1, <3>2, <3>3, <4>5
            <6> QED
              BY <6>1, <4>6
          <5>2. CASE ~(i <= Len(fifo))
            <6>1. fifo'[i] = chip.rdr
              BY <5>2, <3>3
            <6> QED
              BY <6>1, <4>6
          <5> QED
            BY <5>1, <5>2
        <4> QED
          BY <2>1, <4>1, <4>2, <4>3, <4>4, <1>t DEF WireOrder
      <3> QED
        BY <3>4, <3>5 DEF AciaInv
    <2>3. CASE ~(Len(fifo) < KqSize)
      BY <1>3, <2>1, <2>3, <1>t DEF RescueData, AciaInv, TypeOK, WireOrder
    <2> QED
      BY <2>2, <2>3
  <1>4. CASE RescueBerr
    <2>1. chip.rdrf /\ chip.rdr \in 1..MaxBytes
      BY <1>4, <1>t DEF RescueBerr, TypeOK, WireOrder
    <2>2. /\ chip'.rdr = chip.rdr /\ chip'.rdrf \in BOOLEAN /\ (chip'.rdrf => chip.rdrf)
          /\ chip' \in [rdr : 0..MaxBytes, rdrf : BOOLEAN]
          /\ lost' \subseteq 1..MaxBytes
      BY <1>4, <2>1, <1>t DEF RescueBerr, TypeOK
    <2>3. TypeOK'
      BY <1>4, <2>2, <1>t DEF RescueBerr, TypeOK
    <2>4. WireOrder'
      BY <1>4, <2>1, <2>2, <1>t DEF RescueBerr, WireOrder
    <2> QED
      BY <2>3, <2>4 DEF AciaInv
  <1>5. CASE Interrupt
    BY <1>5, <1>t, AciaQuiet DEF Interrupt, CpuAt, TypeOK, WireOrder
  <1>6. CASE GpipRead
    BY <1>6, <1>t, AciaQuiet DEF GpipRead, CpuAt, TypeOK, WireOrder
  <1>7. CASE GpipShim
    BY <1>7, <1>t, AciaQuiet DEF GpipShim, CpuAt, TypeOK, WireOrder
  <1>8. CASE Poll
    BY <1>8, <1>t, AciaQuiet DEF Poll, CpuAt, TypeOK, WireOrder
  <1>9. CASE StatusRead
    <2>1. CASE chip.rdrf \/ fifo # <<>>
      <3>1. Waiting # <<>> /\ Head(Waiting) \in 0..MaxBytes /\ chip.rdr # 0
        <4>1. Waiting \in Seq(0..MaxBytes) /\ Len(Waiting) > 0
          BY <2>1, <1>t, WaitingIs DEF TypeOK
        <4>2. chip.rdr # 0
          <5>1. CASE fifo # <<>>
            <6>1. 1 \in 1..Len(fifo) /\ fifo[1] \in 1..MaxBytes
              BY <5>1, <1>t DEF TypeOK
            <6> QED
              BY <6>1, <1>t DEF TypeOK, WireOrder
          <5> QED
            BY <5>1, <2>1, <1>t DEF WireOrder
        <4> QED
          BY <4>1, <4>2
      <3>2. cpu' = [cpu EXCEPT !.pc = "data", !.expect = Head(Waiting)]
        BY <1>9, <2>1 DEF StatusRead
      <3> QED
        BY <1>9, <3>1, <3>2, <1>t, AciaQuiet DEF StatusRead, TypeOK, WireOrder
    <2>2. CASE ~(chip.rdrf \/ fifo # <<>>)
      BY <1>9, <2>2, <1>t, AciaQuiet DEF StatusRead, CpuAt, TypeOK, WireOrder
    <2> QED
      BY <2>1, <2>2
  <1>10. CASE DataRead
    <2>0. /\ ~lock /\ cpu.pc = "data" /\ cpu'.pc # "data"
          /\ cpu' = [cpu EXCEPT !.pc = IF cpu.isr THEN "gpip" ELSE "main", !.expect = 0]
          /\ UNCHANGED <<wire, mfp6, lock, lost>>
      BY <1>10, <1>t DEF DataRead, CpuAt, TypeOK
    <2>9. cpu' \in [pc : {"main", "gpip", "shim", "status", "data", "reset"},
                    isr : BOOLEAN, low : BOOLEAN, expect : 0..MaxBytes]
      <3>1. (IF cpu.isr THEN "gpip" ELSE "main")
               \in {"main", "gpip", "shim", "status", "data", "reset"} /\ 0 \in 0..MaxBytes
        OBVIOUS
      <3> QED
        BY <2>0, <3>1, <1>t DEF TypeOK
    <2>1. CASE fifo # <<>>
      <3>1. taken' = taken \cup {Head(fifo)} /\ fifo' = Tail(fifo) /\ chip' = chip
        BY <1>10, <2>1 DEF DataRead
      <3>2. /\ Head(fifo) = fifo[1] /\ 1 \in 1..Len(fifo)
            /\ fifo' \in Seq(1..MaxBytes) /\ Len(fifo') = Len(fifo) - 1
            /\ \A i \in 1..Len(fifo') : fifo'[i] = fifo[i + 1] /\ i + 1 \in 1..Len(fifo)
        BY <3>1, <2>1, <1>t DEF TypeOK
      <3>3. TypeOK'
        <4>0. fifo[1] \in 1..MaxBytes /\ taken \subseteq 1..MaxBytes
          BY <3>2, <1>t DEF TypeOK
        <4>1. taken' \subseteq 1..MaxBytes
          BY <3>1, <3>2, <4>0
        <4>3. Len(fifo') <= KqSize
          BY <3>2, <1>t DEF TypeOK
        <4> QED
          BY <2>0, <3>1, <3>2, <4>1, <2>9, <4>3, <1>t DEF TypeOK
      <3>4. WireOrder'
        <4>1. \A b \in taken' : \A i \in 1..Len(fifo') : b < fifo'[i]
          BY <3>1, <3>2, <1>t DEF TypeOK, WireOrder
        <4>2. \A b \in taken' : b <= chip'.rdr /\ (chip'.rdrf => b < chip'.rdr)
          BY <3>1, <3>2, <1>t DEF TypeOK, WireOrder
        <4>3. \A i, j \in 1..Len(fifo') : i < j => fifo'[i] < fifo'[j]
          BY <3>1, <3>2, <1>t DEF TypeOK, WireOrder
        <4>4. \A i \in 1..Len(fifo') :
                 fifo'[i] <= chip'.rdr /\ (chip'.rdrf => fifo'[i] < chip'.rdr)
          BY <3>1, <3>2, <1>t DEF TypeOK, WireOrder
        <4> QED
          BY <4>1, <4>2, <4>3, <4>4, <2>0, <3>1, <1>t DEF WireOrder
      <3> QED
        BY <3>3, <3>4 DEF AciaInv
    <2>2. CASE fifo = <<>>
      <3>1. taken' = taken \cup {chip.rdr} /\ chip' = [chip EXCEPT !.rdrf = FALSE] /\ fifo' = fifo
        BY <1>10, <2>2 DEF DataRead
      <3>2. Len(fifo) = 0 /\ chip.rdr \in 1..MaxBytes
        BY <2>2, <2>0, <1>t DEF TypeOK, WireOrder
      <3> QED
        <4>1. taken' \subseteq 1..MaxBytes /\ chip' \in [rdr : 0..MaxBytes, rdrf : BOOLEAN]
              /\ chip'.rdr = chip.rdr /\ ~chip'.rdrf
          BY <3>1, <3>2, <1>t DEF TypeOK
        <4>3. TypeOK'
          BY <2>0, <3>1, <4>1, <2>9, <1>t DEF TypeOK
        <4>4. \A b \in taken' : b <= chip.rdr
          BY <3>1, <3>2, <1>t DEF TypeOK, WireOrder
        <4>5. WireOrder'
          BY <2>0, <3>1, <3>2, <4>1, <4>4, <1>t DEF WireOrder
        <4> QED
          BY <4>3, <4>5 DEF AciaInv
    <2> QED
      BY <2>1, <2>2
  <1>11. CASE ResetFifo
    <2>1. fifo' = <<>> /\ Len(fifo') = 0 /\ fifo' \in Seq(1..MaxBytes)
      BY <1>11 DEF ResetFifo
    <2>2. RangeOf(fifo) \subseteq 1..MaxBytes
      BY <1>t DEF RangeOf, TypeOK
    <2>3. cpu' \in [pc : {"main", "gpip", "shim", "status", "data", "reset"},
                    isr : BOOLEAN, low : BOOLEAN, expect : 0..MaxBytes] /\ cpu'.pc = "reset"
      BY <1>11, <1>t DEF ResetFifo, TypeOK
    <2>4. lost' \subseteq 1..MaxBytes
      BY <1>11, <2>2, <1>t DEF ResetFifo, TypeOK
    <2>5. TypeOK'
      BY <1>11, <2>1, <2>3, <2>4, <1>t, SizesAssumption DEF ResetFifo, TypeOK
    <2>6. WireOrder'
      BY <1>11, <2>1, <2>3, <1>t DEF ResetFifo, WireOrder
    <2> QED
      BY <2>5, <2>6 DEF AciaInv
  <1>12. CASE ResetChip
    <2>1. /\ chip'.rdr = chip.rdr /\ ~chip'.rdrf
          /\ chip' \in [rdr : 0..MaxBytes, rdrf : BOOLEAN]
      BY <1>12, <1>t DEF ResetChip, TypeOK
    <2>2. lost' \subseteq 1..MaxBytes
      BY <1>12, <1>t DEF ResetChip, TypeOK, WireOrder
    <2>3. cpu' \in [pc : {"main", "gpip", "shim", "status", "data", "reset"},
                    isr : BOOLEAN, low : BOOLEAN, expect : 0..MaxBytes] /\ cpu'.pc = "main"
      BY <1>12, <1>t DEF ResetChip, TypeOK
    <2>4. TypeOK'
      BY <1>12, <2>1, <2>2, <2>3, <1>t DEF ResetChip, TypeOK
    <2>5. WireOrder'
      BY <1>12, <2>1, <2>3, <1>t DEF ResetChip, WireOrder
    <2> QED
      BY <2>4, <2>5 DEF AciaInv
  <1>13. CASE UNCHANGED vars
    BY <1>13, <1>t DEF vars, AciaInv, TypeOK, WireOrder
  <1> QED
    BY <1>1, <1>2, <1>3, <1>4, <1>5, <1>6, <1>7, <1>8, <1>9, <1>10, <1>11, <1>12, <1>13
    DEF Next, Handler

LEMMA OrderFollows == AciaInv => OldestFirst
  <1> SUFFICES ASSUME AciaInv PROVE OldestFirst
    OBVIOUS
  <1>1. TypeOK /\ WireOrder
    BY DEF AciaInv
  <1>2. /\ Len(Waiting) = Len(fifo) + (IF chip.rdrf THEN 1 ELSE 0)
        /\ \A i \in 1..Len(Waiting) :
              Waiting[i] = IF i <= Len(fifo) THEN fifo[i] ELSE chip.rdr
    BY <1>1, WaitingIs
  <1>3. Len(fifo) \in Nat /\ chip.rdrf \in BOOLEAN
    BY <1>1 DEF TypeOK
  <1>4. \A i, j \in 1..Len(Waiting) : i < j => Waiting[i] < Waiting[j]
    BY <1>1, <1>2, <1>3 DEF WireOrder
  <1>5. \A b \in taken, i \in 1..Len(Waiting) : b < Waiting[i]
    BY <1>1, <1>2, <1>3 DEF WireOrder
  <1> QED
    BY <1>4, <1>5 DEF OldestFirst

\* The types hold; in particular the FIFO never holds more than ACIA_KQ_SIZE bytes.
THEOREM TypeCorrect == Spec => []TypeOK
  <1>1. AciaInv => TypeOK
    BY DEF AciaInv
  <1> QED
    BY <1>1, AciaInit, AciaStep, PTL DEF Spec

\* The rescue neither reorders nor duplicates: in every state of
\* ps_acia_kbd_rescue racing ps_acia_kbd_read8/16, whatever ACIA_KQ_SIZE, the
\* bytes waiting are in wire order and newer than all the guest has received.
THEOREM NeverReordered == Spec => []OldestFirst
  <1>1. Init => AciaInv
    BY AciaInit
  <1>2. AciaInv /\ [Next]_vars => AciaInv'
    BY AciaStep
  <1>3. AciaInv => OldestFirst
    BY OrderFollows
  <1> QED
    BY <1>1, <1>2, <1>3, PTL DEF Spec

-----------------------------------------------------------------------------
(* No byte vanishes *)

\* The bytes in the FIFO and in the receiver.
InChip == IF chip.rdrf THEN {chip.rdr} ELSE {}
Accounted == 1..wire = taken \cup lost \cup RangeOf(fifo) \cup InChip

LEMMA RangeOfAppend ==
    ASSUME NEW S, NEW s \in Seq(S), NEW x \in S
    PROVE  RangeOf(Append(s, x)) = RangeOf(s) \cup {x}
  <1>1. Len(Append(s, x)) = Len(s) + 1 /\ Len(s) \in Nat
    OBVIOUS
  <1>2. \A k \in 1..Len(s) : Append(s, x)[k] = s[k]
    OBVIOUS
  <1>3. Append(s, x)[Len(s) + 1] = x
    OBVIOUS
  <1> QED
    BY <1>1, <1>2, <1>3 DEF RangeOf

LEMMA RangeOfTail ==
    ASSUME NEW S, NEW s \in Seq(S), s # <<>>
    PROVE  RangeOf(s) = RangeOf(Tail(s)) \cup {Head(s)}
  <1>1. Len(Tail(s)) = Len(s) - 1 /\ Len(s) \in Nat \ {0} /\ Head(s) = s[1]
    OBVIOUS
  <1>2. \A k \in 1..Len(s) - 1 : Tail(s)[k] = s[k + 1]
    OBVIOUS
  <1>3. \A k \in 2..Len(s) : s[k] = Tail(s)[k - 1] /\ k - 1 \in 1..Len(s) - 1
    BY <1>1, <1>2
  <1> QED
    BY <1>1, <1>2, <1>3 DEF RangeOf

LEMMA RangeOfEmpty == RangeOf(<<>>) = {}
  BY DEF RangeOf

LEMMA AccountedStep == AciaInv /\ Accounted /\ [Next]_vars => Accounted'
  <1> SUFFICES ASSUME AciaInv, Accounted, [Next]_vars PROVE Accounted'
    OBVIOUS
  <1> DEFINE F == RangeOf(fifo)
             G == RangeOf(fifo')
  <1>t. /\ wire \in Nat /\ chip \in [rdr : 0..MaxBytes, rdrf : BOOLEAN]
        /\ fifo \in Seq(1..MaxBytes) /\ MaxBytes \in Nat
        /\ chip.rdrf => chip.rdr \in 1..MaxBytes
        /\ lock => chip.rdrf
        /\ cpu.pc = "data" => chip.rdr \in 1..wire
    BY SizesAssumption DEF AciaInv, TypeOK, WireOrder
  <1>a. 1..wire = taken \cup lost \cup F \cup InChip
    BY DEF Accounted
  <1>b. ASSUME 1..wire' = taken' \cup lost' \cup G \cup InChip' PROVE Accounted'
    BY <1>b DEF Accounted, RangeOf
  <1>1. CASE ByteArrives
    <2>1. 1..(wire + 1) = 1..wire \cup {wire + 1}
      BY <1>t
    <2>2. G = F /\ taken' = taken /\ wire' = wire + 1
      BY <1>1 DEF ByteArrives
    <2>3. CASE chip.rdrf
      <3>1. lost' = lost \cup {wire + 1} /\ InChip' = InChip
        BY <1>1, <2>3 DEF ByteArrives, InChip
      <3> QED
        BY <1>a, <1>b, <2>1, <2>2, <3>1
    <2>4. CASE ~chip.rdrf
      <3>1. lost' = lost /\ InChip' = {wire + 1} /\ InChip = {}
        BY <1>1, <2>4 DEF ByteArrives, InChip
      <3> QED
        BY <1>a, <1>b, <2>1, <2>2, <3>1
    <2> QED
      BY <2>3, <2>4
  <1>2. CASE RescueData
    <2>1. InChip = {chip.rdr} /\ InChip' = {} /\ wire' = wire /\ taken' = taken
      BY <1>2, <1>t DEF RescueData, InChip
    <2>2. CASE Len(fifo) < KqSize
      <3>1. G = F \cup {chip.rdr} /\ lost' = lost
        <4>1. fifo' = Append(fifo, chip.rdr) /\ lost' = lost
          BY <1>2, <2>2 DEF RescueData
        <4>2. chip.rdr \in 1..MaxBytes
          BY <1>2, <1>t DEF RescueData
        <4>3. RangeOf(Append(fifo, chip.rdr)) = RangeOf(fifo) \cup {chip.rdr}
          BY <1>t, <4>2, RangeOfAppend
        <4> QED
          BY <4>1, <4>3
      <3> QED
        BY <1>a, <1>b, <2>1, <3>1
    <2>3. CASE ~(Len(fifo) < KqSize)
      <3>1. G = F /\ lost' = lost \cup {chip.rdr}
        BY <1>2, <2>3 DEF RescueData
      <3> QED
        BY <1>a, <1>b, <2>1, <3>1
    <2> QED
      BY <2>2, <2>3
  <1>3. CASE RescueBerr
    <2>1. G = F /\ wire' = wire /\ taken' = taken /\ InChip = {chip.rdr}
      BY <1>3, <1>t DEF RescueBerr, InChip
    <2>2. \/ InChip' = {} /\ lost' = lost \cup {chip.rdr}
          \/ InChip' = InChip /\ lost' = lost
      BY <1>3, <1>t DEF RescueBerr, InChip
    <2> QED
      BY <1>a, <1>b, <2>1, <2>2
  <1>4. CASE DataRead
    <2>1. wire' = wire /\ lost' = lost
      BY <1>4 DEF DataRead
    <2>2. CASE fifo # <<>>
      <3>1. F = G \cup {Head(fifo)}
        BY <1>4, <1>t, <2>2, RangeOfTail DEF DataRead
      <3>2. taken' = taken \cup {Head(fifo)} /\ InChip' = InChip
        BY <1>4, <2>2 DEF DataRead, InChip
      <3> QED
        BY <1>a, <1>b, <2>1, <3>1, <3>2
    <2>3. CASE fifo = <<>>
      <3>1. taken' = taken \cup {chip.rdr} /\ G = F /\ InChip' = {}
        BY <1>4, <1>t, <2>3 DEF DataRead, InChip
      <3>2. chip.rdr \in 1..wire /\ InChip \subseteq {chip.rdr}
        BY <1>4, <1>t DEF DataRead, CpuAt, InChip
      <3> QED
        BY <1>a, <1>b, <2>1, <3>1, <3>2
    <2> QED
      BY <2>2, <2>3
  <1>5. CASE ResetFifo
    <2>1. /\ wire' = wire /\ taken' = taken /\ lost' = lost \cup F /\ InChip' = InChip
          /\ fifo' = <<>>
      BY <1>5 DEF ResetFifo, InChip
    <2>2. G = {}
      BY <2>1, RangeOfEmpty
    <2> QED
      BY <1>a, <1>b, <2>1, <2>2
  <1>6. CASE ResetChip
    <2>1. /\ wire' = wire /\ taken' = taken /\ lost' = lost \cup InChip /\ InChip' = {}
          /\ G = F
      BY <1>6, <1>t DEF ResetChip, InChip
    <2> QED
      BY <1>a, <1>b, <2>1
  <1>7. CASE UNCHANGED <<wire, chip, fifo, taken, lost>>
    BY <1>7 DEF Accounted, InChip, RangeOf
  <1> QED
    BY <1>1, <1>2, <1>3, <1>4, <1>5, <1>6, <1>7
    DEF Next, Handler, vars, RescueStatus, Interrupt, GpipRead, GpipShim, Poll, StatusRead

LEMMA RangeOfWaiting == AciaInv => RangeOf(Waiting) = RangeOf(fifo) \cup InChip
  <1> SUFFICES ASSUME AciaInv PROVE RangeOf(Waiting) = RangeOf(fifo) \cup InChip
    OBVIOUS
  <1>1. /\ Len(Waiting) = Len(fifo) + (IF chip.rdrf THEN 1 ELSE 0)
        /\ \A i \in 1..Len(Waiting) :
              Waiting[i] = IF i <= Len(fifo) THEN fifo[i] ELSE chip.rdr
        /\ Len(fifo) \in Nat /\ chip.rdrf \in BOOLEAN
    BY WaitingIs DEF AciaInv, TypeOK
  <1>2. CASE chip.rdrf
    BY <1>1, <1>2 DEF RangeOf, InChip
  <1>3. CASE ~chip.rdrf
    BY <1>1, <1>3 DEF RangeOf, InChip
  <1> QED
    BY <1>2, <1>3

\* Whatever the rescue, the guest's reads, bus errors and resets do, a byte that
\* came down the wire has been received, is waiting, or was counted as lost.
THEOREM NeverVanishes == Spec => []NoneVanishes
  <1>1. Init => Accounted
    BY RangeOfEmpty DEF Init, Accounted, InChip
  <1>2. AciaInv /\ Accounted => NoneVanishes
    BY RangeOfWaiting DEF Accounted, NoneVanishes
  <1> QED
    BY <1>1, <1>2, AciaInit, AciaStep, AccountedStep, PTL DEF Spec

-----------------------------------------------------------------------------
(* What a status read announces *)

\* The guest is at its data read: the byte announced is the next one to be
\* served, or a rescue's bus error has cost the chip that byte.
Announced ==
    cpu.pc = "data" =>
        \/ fifo # <<>> /\ fifo[1] = cpu.expect
        \/ fifo = <<>> /\ chip.rdrf /\ chip.rdr = cpu.expect
        \/ TRUE \in BerrPops /\ cpu.expect \in lost

LEMMA HeadOfWaiting ==
    ASSUME AciaInv
    PROVE  /\ fifo # <<>> => Waiting # <<>> /\ Head(Waiting) = fifo[1]
           /\ fifo = <<>> /\ chip.rdrf => Waiting # <<>> /\ Head(Waiting) = chip.rdr
  <1>1. /\ Waiting \in Seq(0..MaxBytes)
        /\ Len(Waiting) = Len(fifo) + (IF chip.rdrf THEN 1 ELSE 0)
        /\ \A i \in 1..Len(Waiting) :
              Waiting[i] = IF i <= Len(fifo) THEN fifo[i] ELSE chip.rdr
        /\ fifo \in Seq(1..MaxBytes) /\ chip.rdrf \in BOOLEAN
    BY WaitingIs DEF AciaInv, TypeOK
  <1>2. CASE fifo # <<>>
    <2>1. Len(fifo) \in Nat /\ Len(fifo) >= 1
      BY <1>1, <1>2
    <2>2. Len(Waiting) >= 1 /\ Waiting[1] = fifo[1]
      BY <1>1, <2>1
    <2> QED
      BY <1>1, <1>2, <2>2
  <1>3. CASE fifo = <<>> /\ chip.rdrf
    <2>1. Len(Waiting) = 1 /\ Waiting[1] = chip.rdr
      BY <1>1, <1>3
    <2> QED
      BY <1>1, <1>3, <2>1
  <1> QED
    BY <1>2, <1>3

LEMMA AnnouncedStep == AciaInv /\ Announced /\ [Next]_vars => Announced'
  <1> SUFFICES ASSUME AciaInv, Announced, [Next]_vars, cpu'.pc = "data"
               PROVE  \/ fifo' # <<>> /\ fifo'[1] = cpu'.expect
                      \/ fifo' = <<>> /\ chip'.rdrf /\ chip'.rdr = cpu'.expect
                      \/ TRUE \in BerrPops /\ cpu'.expect \in lost'
    BY DEF Announced
  <1>t. /\ chip \in [rdr : 0..MaxBytes, rdrf : BOOLEAN]
        /\ fifo \in Seq(1..MaxBytes) /\ MaxBytes \in Nat
        /\ cpu \in [pc : {"main", "gpip", "shim", "status", "data", "reset"},
                    isr : BOOLEAN, low : BOOLEAN, expect : 0..MaxBytes]
        /\ chip.rdrf => chip.rdr \in 1..MaxBytes
        /\ lock => chip.rdrf
        /\ KqSize \in Nat \ {0}
    BY SizesAssumption DEF AciaInv, TypeOK, WireOrder
  <1>1. CASE ByteArrives
    BY <1>1, <1>t DEF ByteArrives, Announced
  <1>2. CASE RescueData
    <2>1. cpu' = cpu /\ lost \subseteq lost'
      BY <1>2 DEF RescueData
    <2>2. CASE fifo = <<>>
      <3>1. fifo' = Append(fifo, chip.rdr) /\ chip.rdr \in 1..MaxBytes
        BY <1>2, <1>t, <2>2 DEF RescueData
      <3>2. fifo' # <<>> /\ fifo'[1] = chip.rdr
        BY <1>t, <2>2, <3>1
      <3> QED
        BY <1>t, <2>1, <2>2, <3>2 DEF Announced
    <2>3. CASE fifo # <<>>
      <3>1. chip.rdr \in 1..MaxBytes /\ (fifo' = Append(fifo, chip.rdr) \/ fifo' = fifo)
        BY <1>2, <1>t DEF RescueData
      <3>2. fifo' # <<>> /\ fifo'[1] = fifo[1]
        BY <1>t, <2>3, <3>1
      <3> QED
        BY <2>1, <2>3, <3>2 DEF Announced
    <2> QED
      BY <2>2, <2>3
  <1>3. CASE RescueBerr
    <2>1. cpu' = cpu /\ fifo' = fifo /\ lost \subseteq lost'
      BY <1>3 DEF RescueBerr
    <2>2. CASE chip' = chip
      BY <2>1, <2>2 DEF Announced
    <2>3. CASE chip' # chip
      <3>1. TRUE \in BerrPops /\ chip.rdr \in lost'
        BY <1>3, <2>3, FlagsAssumption DEF RescueBerr
      <3> QED
        BY <2>1, <3>1 DEF Announced
    <2> QED
      BY <2>2, <2>3
  <1>4. CASE StatusRead
    <2>1. /\ chip.rdrf \/ fifo # <<>>
          /\ cpu' = [cpu EXCEPT !.pc = "data", !.expect = Head(Waiting)]
      BY <1>4, <1>t DEF StatusRead
    <2>2. cpu'.expect = Head(Waiting) /\ fifo' = fifo /\ chip' = chip
      BY <1>4, <1>t, <2>1 DEF StatusRead
    <2> QED
      BY <2>1, <2>2, HeadOfWaiting
  <1>5. CASE RescueStatus
    BY <1>5 DEF RescueStatus, Announced
  <1>6. CASE UNCHANGED vars
    BY <1>6 DEF vars, Announced
  <1>7. ~(Interrupt \/ GpipRead \/ GpipShim \/ Poll \/ DataRead \/ ResetFifo \/ ResetChip)
    BY <1>t DEF Interrupt, GpipRead, GpipShim, Poll, DataRead, ResetFifo, ResetChip
  <1> QED
    BY <1>1, <1>2, <1>3, <1>4, <1>5, <1>6, <1>7 DEF Next, Handler

\* The data read that follows a status with RDRF gets the byte that status spoke
\* of, though a rescue may have moved it from the chip to the FIFO in between;
\* only a bus error inside a rescue can cost it.
THEOREM StatusKept == Spec => []StatusHonoured
  <1>1. Init => Announced
    BY DEF Init, Announced
  <1>2. AciaInv /\ Announced => StatusHonoured
    BY HeadOfWaiting DEF Announced, StatusHonoured
  <1> QED
    BY <1>1, <1>2, AciaInit, AciaStep, AnnouncedStep, PTL DEF Spec
=============================================================================
