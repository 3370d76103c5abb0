-------------------------- MODULE PistormNetProofs --------------------------
(***************************************************************************)
(* Proofs about PistormNet: its types, that the backend is freed only when *)
(* no thread can be inside it, and that the frame the driver acknowledges  *)
(* is the frame that it read.                                              *)
(***************************************************************************)
EXTENDS PistormNet, TLAPS

\* Who can hold ctx->lock: the backend's thread while it is busy, the CPU thread
\* in slirp_input; and only while the emulation runs does anybody send.
CtxHeld ==
    /\ lock.net = Free
    /\ lock.ctx = "rx" => thread = "busy"
    /\ lock.ctx = "cpu" => tx = "input"
    /\ tx # "no" => main = "run"

\* The backend's thread exists from pistorm_net_slirp_open (or _tap_open) on, and
\* pistorm_net_shutdown learns of it from g_net.backend.
ThreadKnown ==
    /\ main \in {"start", "open"} => thread = "none"
    /\ main \in {"run", "ended"} /\ dev.backend = "none" => thread = "none"
    /\ main = "closed" => thread \in {"none", "gone"}

\* Between XIF_IRQ(0) and the acknowledge the receive buffer keeps its frame.
BufferKept ==
    /\ main \in {"start", "open", "link"} => driver.at = "idle"
    /\ main = "run" /\ driver.at # "idle" => rx.ready
    /\ main = "run" /\ driver.at = "ack" => driver.got = rx.frame

NetInv == TypeOK /\ CtxHeld /\ ThreadKnown /\ BufferKept

-----------------------------------------------------------------------------
LEMMA NetInit == Init => NetInv
  <1> SUFFICES ASSUME Init PROVE NetInv
    OBVIOUS
  <1>1. 0 \in 0..MaxFrame /\ 0 \in 0..MaxReset
    BY BoundsAssumption
  <1>2. TypeOK
    BY <1>1 DEF Init, TypeOK, Free
  <1>3. CtxHeld /\ ThreadKnown /\ BufferKept
    BY DEF Init, CtxHeld, ThreadKnown, BufferKept, Free
  <1> QED
    BY <1>2, <1>3 DEF NetInv

\* Each action keeps each part of the invariant.
LEMMA TypeStep == NetInv /\ [Next]_vars => TypeOK'
  <1> SUFFICES ASSUME NetInv, [Next]_vars PROVE TypeOK'
    OBVIOUS
  <1> USE BackendsAssumption, BoundsAssumption DEF NetInv, TypeOK, Free
  <1>1. CASE Configure
    BY <1>1 DEF Configure
  <1>2. CASE Open \/ OpenFails \/ EmulationEnds
    BY <1>2 DEF Open, OpenFails, EmulationEnds
  <1>3. CASE LinkUp
    BY <1>3 DEF LinkUp
  <1>4. CASE Shutdown
    <2>1. rx' \in [ready : BOOLEAN, frame : 0..MaxFrame] /\ ~rx'.ready
      BY <1>4 DEF Shutdown, Disabled
    <2>2. dev' \in [enabled : BOOLEAN, link : BOOLEAN, tx_busy : BOOLEAN,
                    backend : {"none", "slirp", "tap"}]
      BY <1>4 DEF Shutdown, Disabled
    <2> QED
      BY <1>4, <2>1, <2>2 DEF Shutdown
  <1>5. CASE Close
    BY <1>5 DEF Close
  <1>6. ASSUME NEW t \in {"cpu", "rx"}, BackendRx(t) PROVE TypeOK'
    <2>1. rx' \in [ready : BOOLEAN, frame : 0..MaxFrame] /\ (rx'.ready => rx'.frame # 0)
      <3>1. calling[t] \in 0..MaxFrame /\ calling[t] # 0
        BY <1>6 DEF BackendRx
      <3>2. rx' = [ready |-> TRUE, frame |-> calling[t]] \/ rx' = rx
        BY <1>6 DEF BackendRx
      <3>3. CASE rx' = [ready |-> TRUE, frame |-> calling[t]]
        BY <3>1, <3>3
      <3>4. CASE rx' = rx
        BY <3>4
      <3> QED
        BY <3>2, <3>3, <3>4
    <2>2. irq' \in BOOLEAN
      BY <1>6 DEF BackendRx
    <2>3. calling' \in [{"cpu", "rx"} -> 0..MaxFrame]
      BY <1>6 DEF BackendRx
    <2> QED
      BY <1>6, <2>1, <2>2, <2>3 DEF BackendRx
  <1>7. CASE ThreadBegin
    BY <1>7 DEF ThreadBegin
  <1>8. CASE ThreadFrame
    BY <1>8 DEF ThreadFrame, Arrive
  <1>9. CASE ThreadEnd
    BY <1>9 DEF ThreadEnd
  <1>10. CASE ThreadExits
    BY <1>10 DEF ThreadExits
  <1>11. CASE WriteFrame
    <2>1. dev' \in [enabled : BOOLEAN, link : BOOLEAN, tx_busy : BOOLEAN,
                    backend : {"none", "slirp", "tap"}]
      BY <1>11 DEF WriteFrame
    <2>2. dev.backend \in {"none", "slirp", "tap"}
      OBVIOUS
    <2> QED
      BY <1>11, <2>1, <2>2 DEF WriteFrame
  <1>12. CASE SlirpSend \/ SlirpSent
    BY <1>12 DEF SlirpSend, SlirpSent
  <1>13. CASE SlirpAnswers
    BY <1>13 DEF SlirpAnswers, Arrive
  <1>14. CASE OtherSend
    BY <1>14 DEF OtherSend
  <1>15. CASE WriteDone
    BY <1>15 DEF WriteDone
  <1>16. CASE Vbl
    BY <1>16 DEF Vbl
  <1>17. CASE Pending \/ ReadFrame
    <2>1. driver' \in [at : {"idle", "read", "ack"}, got : 0..MaxFrame]
      BY <1>17 DEF Pending, ReadFrame
    <2>2. irq' \in BOOLEAN
      BY <1>17 DEF Pending, ReadFrame
    <2> QED
      BY <1>17, <2>1, <2>2 DEF Pending, ReadFrame
  <1>18. CASE AckRx
    BY <1>18 DEF AckRx
  <1>19. CASE GuestReset
    BY <1>19 DEF GuestReset
  <1>20. CASE UNCHANGED vars
    BY <1>20 DEF vars
  <1> QED
    BY <1>1, <1>2, <1>3, <1>4, <1>5, <1>6, <1>7, <1>8, <1>9, <1>10, <1>11, <1>12, <1>13,
       <1>14, <1>15, <1>16, <1>17, <1>18, <1>19, <1>20 DEF Next, Main, Cpu
\* The threads, their locks and the buffer, action by action.
LEMMA HoldStep == NetInv /\ [Next]_vars => (CtxHeld /\ ThreadKnown /\ BufferKept)'
  <1> DEFINE Rest == CtxHeld /\ ThreadKnown /\ BufferKept
  <1> SUFFICES ASSUME NetInv, [Next]_vars PROVE Rest'
    OBVIOUS
  <1> USE BackendsAssumption DEF NetInv, TypeOK, CtxHeld, ThreadKnown, BufferKept, Free
  <1>1. CASE Configure
    BY <1>1 DEF Configure
  <1>2. CASE Open
    BY <1>2 DEF Open
  <1>3. CASE OpenFails \/ EmulationEnds
    BY <1>3 DEF OpenFails, EmulationEnds
  <1>4. CASE LinkUp
    BY <1>4 DEF LinkUp
  <1>5. CASE Shutdown
    BY <1>5 DEF Shutdown, Disabled
  <1>6. CASE Close
    BY <1>6 DEF Close
  <1>7. ASSUME NEW t \in {"cpu", "rx"}, BackendRx(t) PROVE Rest'
    BY <1>7 DEF BackendRx, TakesFrame
  <1>8. CASE ThreadBegin
    BY <1>8 DEF ThreadBegin
  <1>9. CASE ThreadFrame
    BY <1>9 DEF ThreadFrame, Arrive
  <1>10. CASE ThreadEnd
    BY <1>10 DEF ThreadEnd
  <1>11. CASE ThreadExits
    BY <1>11 DEF ThreadExits
  <1>12. CASE WriteFrame
    BY <1>12 DEF WriteFrame, Running
  <1>13. CASE SlirpSend
    BY <1>13 DEF SlirpSend
  <1>14. CASE SlirpAnswers
    BY <1>14 DEF SlirpAnswers, Arrive
  <1>15. CASE SlirpSent
    BY <1>15 DEF SlirpSent
  <1>16. CASE OtherSend \/ WriteDone
    BY <1>16 DEF OtherSend, WriteDone
  <1>17. CASE Vbl
    BY <1>17 DEF Vbl
  <1>18. CASE Pending
    BY <1>18 DEF Pending, Calls, Running
  <1>19. CASE ReadFrame
    BY <1>19 DEF ReadFrame, Calls, Running
  <1>20. CASE AckRx
    BY <1>20 DEF AckRx, Calls, Running
  <1>21. CASE GuestReset
    BY <1>21 DEF GuestReset, Running
  <1>22. CASE UNCHANGED vars
    BY <1>22 DEF vars
  <1> QED
    BY <1>1, <1>2, <1>3, <1>4, <1>5, <1>6, <1>7, <1>8, <1>9, <1>10, <1>11, <1>12, <1>13, <1>14, <1>15, <1>16, <1>17, <1>18, <1>19, <1>20, <1>21, <1>22
    DEF Next, Main, Cpu

LEMMA NetInvariant == Spec => []NetInv
  <1>1. NetInv /\ [Next]_vars => NetInv'
    BY TypeStep, HoldStep DEF NetInv
  <1> QED
    BY <1>1, NetInit, PTL DEF Spec

\* The device keeps its types; in particular a frame that is ready has its length.
THEOREM TypeCorrect == Spec => []TypeOK
  <1>1. NetInv => TypeOK
    BY DEF NetInv
  <1> QED
    BY <1>1, NetInvariant, PTL

\* pistorm_net_shutdown frees the backend only when the backend's thread has been
\* joined, nobody holds its mutex and nobody is in a send: for every number of
\* frames and resets.
THEOREM NeverFreedInUse == Spec => []FreedAlone
  <1>1. NetInv => FreedAlone
    BY DEF NetInv, TypeOK, CtxHeld, ThreadKnown, FreedAlone, Free
  <1> QED
    BY <1>1, NetInvariant, PTL

\* pistorm_net_ack_rx drops exactly the frame that pistorm_net_read_frame gave
\* to the driver, whatever the backend's thread delivered in between.
THEOREM NeverAckedUnread == Spec => AckedWasRead
  <1>1. ASSUME NetInv, [Next]_vars
        PROVE  [rx.ready /\ ~rx'.ready /\ main' = "run" => driver.got = rx.frame]_vars
    <2> SUFFICES ASSUME Next, rx.ready, ~rx'.ready, main' = "run"
                 PROVE  driver.got = rx.frame
      BY <1>1
    <2>1. ASSUME NEW t \in {"cpu", "rx"} PROVE ~BackendRx(t)
      BY DEF BackendRx, TakesFrame
    <2>2. AckRx
      BY <2>1 DEF Next, Main, Cpu, Configure, Open, OpenFails, LinkUp, Shutdown, Close,
            EmulationEnds, ThreadBegin, ThreadFrame, ThreadEnd, ThreadExits, WriteFrame,
            SlirpSend, SlirpAnswers, SlirpSent, OtherSend, WriteDone, Vbl, Pending,
            ReadFrame, GuestReset
    <2> QED
      BY <1>1, <2>2 DEF AckRx, Calls, Running, NetInv, BufferKept
  <1> QED
    BY <1>1, NetInvariant, PTL DEF Spec, AckedWasRead

=============================================================================
