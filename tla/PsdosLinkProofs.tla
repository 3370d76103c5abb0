-------------------------- MODULE PsdosLinkProofs --------------------------
(***************************************************************************)
(* Proofs about PsdosLink, for every size of the ring and of the socket    *)
(* and every number of failures: the types, and with them the bound of the *)
(* command ring.                                                           *)
(***************************************************************************)
EXTENDS PsdosLink, TLAPS

USE SizesAssumption, ThreadsAssumption

Flags == [connected : BOOLEAN, view : BOOLEAN, capture : BOOLEAN, focus : BOOLEAN]
Steps == Cmd \cup {"connected?", "grab", "release"}
DosStates == [alive : BOOLEAN, loaded : BOOLEAN, keys : BOOLEAN, pads : BOOLEAN]

RingOK == ring \in Seq(Cmd) /\ Len(ring) <= RingN
TodoOK == todo \in [Threads -> Seq(Steps)]
StreamOK ==
    /\ conn \in {"down", "session", "drop connected", "drop view", "drop capture",
                 "close", "flush"}
    /\ hup \in BOOLEAN
    /\ wire \in Seq(Cmd \cup {"HELLO", "EOF"}) /\ evts \in Seq({"HELLO", "VIEW"})

Parts ==
    /\ RingOK /\ TodoOK /\ StreamOK
    /\ flag \in Flags /\ dos \in DosStates
    /\ refused \in BOOLEAN /\ faults \in 0..MaxFault

LEMMA TypeParts == TypeOK <=> Parts
  BY Zenon DEF TypeOK, Parts, RingOK, TodoOK, StreamOK, Flags, DosStates, Steps

-----------------------------------------------------------------------------
(* The ring *)

\* push_entry never overtakes the consumer.
LEMMA PushEntryKeeps ==
    ASSUME RingOK, NEW c \in Cmd, PushEntry(c)
    PROVE  RingOK'
  <1>1. CASE Len(ring) < RingN
    <2>1. ring' = Append(ring, c)
      BY <1>1 DEF PushEntry
    <2>2. ring' \in Seq(Cmd) /\ Len(ring') = Len(ring) + 1
      BY <2>1 DEF RingOK
    <2> QED
      BY <1>1, <2>2 DEF RingOK
  <1>2. CASE ~(Len(ring) < RingN)
    BY <1>2 DEF PushEntry, RingOK
  <1> QED
    BY <1>1, <1>2

LEMMA KeysUpKeeps ==
    ASSUME RingOK, PushKeysUp
    PROVE  RingOK' /\ refused' \in BOOLEAN
  <1>1. "KEYS_UP" \in Cmd
    BY DEF Cmd
  <1> QED
    BY <1>1, PushEntryKeeps DEF PushKeysUp

(* The steps of a call *)

LEMMA ThenKeeps ==
    ASSUME TodoOK, NEW t \in Threads, NEW s \in Seq(Steps), Then(t, s)
    PROVE  TodoOK'
  BY DEF TodoOK, Then

LEMMA GoOnKeeps ==
    ASSUME TodoOK, NEW t \in Threads, todo[t] # <<>>, GoOn(t)
    PROVE  TodoOK'
  <1>1. Tail(todo[t]) \in Seq(Steps)
    BY DEF TodoOK
  <1> QED
    BY <1>1 DEF TodoOK, GoOn

-----------------------------------------------------------------------------
LEMMA PartsInit == Init => Parts
  <1> SUFFICES ASSUME Init PROVE Parts
    OBVIOUS
  <1>1. <<>> \in Seq(Cmd) /\ Len(<<>>) <= RingN /\ <<>> \in Seq(Steps)
        /\ <<>> \in Seq(Cmd \cup {"HELLO", "EOF"}) /\ <<>> \in Seq({"HELLO", "VIEW"})
        /\ 0 \in 0..MaxFault
    OBVIOUS
  <1>2. RingOK /\ StreamOK /\ faults \in 0..MaxFault
    BY <1>1, Zenon DEF Init, RingOK, StreamOK
  <1>3. TodoOK
    BY <1>1, Zenon DEF Init, TodoOK
  <1>4. flag \in Flags /\ dos \in DosStates
    BY DEF Init, Flags, DosStates, Quiet
  <1>5. refused \in BOOLEAN
    BY Zenon DEF Init
  <1> QED
    BY <1>2, <1>3, <1>4, <1>5 DEF Parts

\* The producers leave the stream and psdos alone.
LEMMA ProducersKeep ==
    ASSUME Parts, Producers
    PROVE  Parts'
  <1> DEFINE Rest == RingOK' /\ TodoOK' /\ flag' \in Flags /\ refused' \in BOOLEAN
  <1>t. RingOK /\ TodoOK /\ flag \in Flags /\ refused \in BOOLEAN
    BY DEF Parts
  <1>u. UNCHANGED <<link, dos, faults>>
    BY DEF Producers, Push, Key, TestConnected, Enqueue, Release, Capture, Grab, ViewFree,
           Front, Back
  <1>1. ASSUME Rest PROVE Parts'
    BY <1>1, <1>u DEF Parts, link, StreamOK
  <1>c. <<>> \in Seq(Steps) /\ <<"VIEW_NEW">> \in Seq(Steps) /\ <<"LOAD">> \in Seq(Steps)
        /\ <<"PAD">> \in Seq(Steps) /\ <<"connected?", "DOWN">> \in Seq(Steps)
        /\ <<"grab">> \in Seq(Steps)
        /\ <<"release", "connected?", "VIEW_FREE">> \in Seq(Steps)
        /\ <<"release", "connected?", "KEYS_UP">> \in Seq(Steps)
    BY DEF Steps, Cmd
  <1>k. ASSUME UNCHANGED ring PROVE RingOK'
    BY <1>k, <1>t DEF RingOK
  <1>v. "cpu" \in Threads /\ "usb" \in Threads
    BY DEF Threads
  <1>2. ASSUME NEW t \in Threads, Push(t) PROVE Rest
    <2>1. TodoOK'
      BY <1>2, <1>t, <1>c, ThenKeeps DEF Push
    <2> QED
      BY <1>2, <1>t, <1>k, <2>1 DEF Push
  <1>3. ASSUME NEW t \in Threads, Key(t) PROVE Rest
    <2>1. TodoOK'
      BY <1>3, <1>t, <1>c, ThenKeeps DEF Key
    <2> QED
      BY <1>3, <1>t, <1>k, <2>1 DEF Key
  <1>4. ASSUME NEW t \in Threads, TestConnected(t) PROVE Rest
    <2>1. TodoOK'
      BY <1>4, <1>t, <1>c, ThenKeeps, GoOnKeeps DEF TestConnected, At
    <2> QED
      BY <1>4, <1>t, <1>k, <2>1 DEF TestConnected
  <1>5. ASSUME NEW t \in Threads, Enqueue(t) PROVE Rest
    <2>1. TodoOK'
      BY <1>5, <1>t, GoOnKeeps DEF Enqueue, At
    <2>2. RingOK'
      BY <1>5, <1>t, <1>k, PushEntryKeeps DEF Enqueue
    <2> QED
      BY <1>5, <1>t, <2>1, <2>2 DEF Enqueue
  <1>6. ASSUME NEW t \in Threads, Release(t) PROVE Rest
    <2>1. TodoOK'
      <3>1. CASE UNCHANGED todo
        BY <3>1, <1>t DEF TodoOK
      <3>2. CASE At(t, "release") /\ GoOn(t)
        BY <3>2, <1>t, GoOnKeeps DEF At
      <3> QED
        BY <1>6, <3>1, <3>2 DEF Release
    <2>2. RingOK' /\ refused' \in BOOLEAN
      BY <1>6, <1>t, <1>k, KeysUpKeeps DEF Release
    <2>3. flag' \in Flags
      BY <1>6, <1>t DEF Release, Flags
    <2> QED
      BY <2>1, <2>2, <2>3
  <1>7. ASSUME Capture PROVE Rest
    <2>1. TodoOK'
      BY <1>7, <1>t, <1>c, <1>v, ThenKeeps DEF Capture
    <2> QED
      BY <1>7, <1>t, <1>k, <2>1 DEF Capture
  <1>8. ASSUME Grab PROVE Rest
    <2>1. TodoOK'
      BY <1>8, <1>t, <1>v, GoOnKeeps DEF Grab, At
    <2>2. flag' \in Flags
      BY <1>8, <1>t DEF Grab, Flags
    <2> QED
      BY <1>8, <1>t, <1>k, <2>1, <2>2 DEF Grab
  <1>9. ASSUME ViewFree PROVE Rest
    <2>1. TodoOK'
      BY <1>9, <1>t, <1>c, <1>v, ThenKeeps DEF ViewFree
    <2>2. flag' \in Flags
      BY <1>9, <1>t DEF ViewFree, Flags
    <2> QED
      BY <1>9, <1>t, <1>k, <2>1, <2>2 DEF ViewFree
  <1>10. ASSUME Front PROVE Rest
    <2>1. flag' \in Flags /\ TodoOK'
      BY <1>10, <1>t DEF Front, Flags, TodoOK
    <2> QED
      BY <1>10, <1>t, <1>k, <2>1 DEF Front
  <1>11. ASSUME Back PROVE Rest
    <2>1. TodoOK'
      BY <1>11, <1>t, <1>c, <1>v, ThenKeeps DEF Back
    <2>2. flag' \in Flags
      BY <1>11, <1>t DEF Back, Flags
    <2>3. RingOK' /\ refused' \in BOOLEAN
      BY <1>11, <1>t, <1>k, KeysUpKeeps DEF Back
    <2> QED
      BY <2>1, <2>2, <2>3
  <1> HIDE DEF Rest
  <1> QED
    BY <1>1, <1>2, <1>3, <1>4, <1>5, <1>6, <1>7, <1>8, <1>9, <1>10, <1>11 DEF Producers

\* The connector: it takes from the ring and never adds to it.
LEMMA ConnectorKeeps ==
    ASSUME Parts, Connector \/ LinkError
    PROVE  Parts'
  <1>t. /\ RingOK /\ TodoOK /\ StreamOK /\ flag \in Flags /\ dos \in DosStates
        /\ refused \in BOOLEAN /\ faults \in 0..MaxFault
    BY DEF Parts
  <1>u. TodoOK' /\ dos' \in DosStates
    BY <1>t DEF Connector, Connect, Drain, HandleEvt, HangUp, LinkError, DropConnected,
         DropView, DropCapture, Close, Flush, TodoOK
  <1> DEFINE Wires == Seq(Cmd \cup {"HELLO", "EOF"})
  <1>w. wire \in Wires /\ evts \in Seq({"HELLO", "VIEW"}) /\ ring \in Seq(Cmd)
    BY <1>t DEF StreamOK, RingOK
  <1>1. CASE Connect
    <2>1. wire' \in Wires
      BY <1>1, <1>w DEF Connect
    <2> QED
      BY <1>1, <1>t, <1>u, <2>1 DEF Connect, Parts, StreamOK, RingOK
  <1>2. CASE Drain
    <2>1. ring # <<>> /\ ring' = Tail(ring) /\ wire' = Append(wire, Head(ring))
      BY <1>2 DEF Drain
    <2>2. Head(ring) \in Cmd /\ Tail(ring) \in Seq(Cmd) /\ Len(Tail(ring)) = Len(ring) - 1
          /\ Len(ring) \in Nat
      BY <1>w, <2>1
    <2>3. RingOK'
      BY <1>t, <2>1, <2>2 DEF RingOK
    <2>4. wire' \in Wires
      BY <1>w, <2>1, <2>2
    <2> QED
      BY <1>2, <1>t, <1>u, <2>3, <2>4 DEF Drain, Parts, StreamOK
  <1>3. CASE HandleEvt
    <2>1. evts' \in Seq({"HELLO", "VIEW"})
      BY <1>3, <1>w DEF HandleEvt
    <2>2. flag' \in Flags
      BY <1>3, <1>t DEF HandleEvt, Flags
    <2> QED
      BY <1>3, <1>t, <1>u, <2>1, <2>2 DEF HandleEvt, Parts, StreamOK, RingOK
  <1>4. CASE HangUp
    BY <1>4, <1>t, <1>u DEF HangUp, Parts, StreamOK, RingOK
  <1>5. CASE LinkError
    <2>1. faults' \in 0..MaxFault
      <3>1. faults < MaxFault /\ faults' = faults + 1
        BY <1>5 DEF LinkError
      <3> QED
        BY <1>t, <3>1
    <2> QED
      BY <1>5, <1>t, <1>u, <2>1 DEF LinkError, Parts, StreamOK, RingOK
  <1>6. CASE DropConnected \/ DropView \/ DropCapture
    <2>1. flag' \in Flags
      BY <1>6, <1>t DEF DropConnected, DropView, DropCapture, Flags
    <2> QED
      BY <1>6, <1>t, <1>u, <2>1
      DEF DropConnected, DropView, DropCapture, Parts, StreamOK, RingOK
  <1>7. CASE Close
    <2>1. wire' \in Wires
      BY <1>7, <1>w DEF Close
    <2>2. evts' \in Seq({"HELLO", "VIEW"})
      BY <1>7 DEF Close
    <2> QED
      BY <1>7, <1>t, <1>u, <2>1, <2>2 DEF Close, Parts, StreamOK, RingOK
  <1>8. CASE Flush
    <2>1. ring' \in Seq(Cmd) /\ Len(ring') <= RingN
      BY <1>8 DEF Flush
    <2>2. refused' \in BOOLEAN
      BY <1>8, Zenon DEF Flush
    <2> QED
      BY <1>8, <1>t, <1>u, <2>1, <2>2 DEF Flush, Parts, StreamOK, RingOK
  <1> QED
    BY <1>1, <1>2, <1>3, <1>4, <1>5, <1>6, <1>7, <1>8 DEF Connector

\* psdos: it sees only the stream.
LEMMA DosKeeps ==
    ASSUME Parts, HandleCmd \/ Die \/ Restart
    PROVE  Parts'
  <1>t. /\ RingOK /\ TodoOK /\ StreamOK /\ flag \in Flags /\ dos \in DosStates
        /\ refused \in BOOLEAN /\ faults \in 0..MaxFault
    BY DEF Parts
  <1>u. RingOK' /\ TodoOK' /\ flag' \in Flags /\ refused' \in BOOLEAN
    BY <1>t DEF HandleCmd, Die, Restart, RingOK, TodoOK
  <1>w. /\ wire \in Seq(Cmd \cup {"HELLO", "EOF"}) /\ evts \in Seq({"HELLO", "VIEW"})
    BY <1>t DEF StreamOK
  <1>q. Quiet \in DosStates /\ [Quiet EXCEPT !.alive = FALSE] \in DosStates
        /\ [Quiet EXCEPT !.loaded = TRUE] \in DosStates
    BY DEF Quiet, DosStates
  <1>1. CASE HandleCmd
    <2>1. wire' \in Seq(Cmd \cup {"HELLO", "EOF"})
      BY <1>1, <1>w DEF HandleCmd
    <2>2. dos' \in DosStates
      BY <1>1, <1>t, <1>q DEF HandleCmd, Effect, DosStates
    <2>3. evts' \in Seq({"HELLO", "VIEW"})
      <3>1. ASSUME NEW e \in {"HELLO", "VIEW"}, Tell(e) PROVE evts' \in Seq({"HELLO", "VIEW"})
        BY <1>w, <3>1 DEF Tell
      <3> QED
        BY <1>1, <1>w, <3>1 DEF HandleCmd
    <2> QED
      BY <1>1, <1>t, <1>u, <2>1, <2>2, <2>3 DEF HandleCmd, Parts, StreamOK
  <1>2. CASE Die
    <2>1. faults' \in 0..MaxFault
      BY <1>2, <1>t DEF Die
    <2>2. wire' \in Seq(Cmd \cup {"HELLO", "EOF"}) /\ evts' \in Seq({"HELLO", "VIEW"})
      BY <1>2 DEF Die
    <2>3. dos' \in DosStates /\ hup' \in BOOLEAN /\ conn' = conn
      BY <1>2, <1>q DEF Die
    <2> QED
      BY <1>t, <1>u, <2>1, <2>2, <2>3 DEF Parts, StreamOK
  <1>3. CASE Restart
    BY <1>3, <1>t, <1>u, <1>q DEF Restart, link, Parts, StreamOK
  <1> QED
    BY <1>1, <1>2, <1>3

\* In every session, over every death of psdos and every failure of the link, the
\* command ring holds at most RING_N whole records and every flag, call and
\* stream keeps its type: push_entry's test of head against tail suffices although
\* drain_ring advances the tail without the lock.
THEOREM RingBounded == Spec => []TypeOK
  <1>1. Parts /\ [Next]_vars => Parts'
    <2> SUFFICES ASSUME Parts, [Next]_vars PROVE Parts'
      OBVIOUS
    <2>1. CASE UNCHANGED vars
      BY <2>1 DEF vars, link, Parts, RingOK, TodoOK, StreamOK
    <2> QED
      BY <2>1, ProducersKeep, ConnectorKeeps, DosKeeps DEF Next
  <1> QED
    BY <1>1, PartsInit, TypeParts, PTL DEF Spec
=============================================================================
