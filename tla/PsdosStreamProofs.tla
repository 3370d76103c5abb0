------------------------- MODULE PsdosStreamProofs -------------------------
(***************************************************************************)
(* Proofs about the stream from the command ring to psdos, for every size  *)
(* of the ring and of the socket and every number of failures: what psdos  *)
(* makes of the records that are on their way to it (NothingStaysHeld),    *)
(* and the order in which it handles them (Ordered).                       *)
(*                                                                         *)
(* Settle and Cmds are recursive functions over a sequence.  What they     *)
(* compute is proved by induction over a set of numbers (SetInduction):    *)
(* that the function exists, what a record at the end adds to it, and what *)
(* a record taken from the front leaves.                                   *)
(***************************************************************************)
EXTENDS PsdosLinkProofs, WellFoundedInduction, SequenceTheorems

Records == Cmd \cup {"HELLO", "EOF"}

\* Induction over the naturals, for a set of them.
LEMMA SetInduction ==
    ASSUME NEW G \in SUBSET Nat, 0 \in G, \A n \in G : n + 1 \in G
    PROVE  G = Nat
  <1> SUFFICES ASSUME Nat \ G # {} PROVE FALSE
    OBVIOUS
  <1>1. PICK m \in Nat \ G : \A k \in Nat \ G : ~(<<k, m>> \in OpToRel(<, Nat))
    BY WFMin, NatLessThanWellFounded
  <1>2. m # 0 /\ m - 1 \in Nat
    OBVIOUS
  <1>3. m - 1 \in G
    <2>1. <<m - 1, m>> \in OpToRel(<, Nat)
      BY <1>2 DEF OpToRel
    <2> QED
      BY <1>1, <1>2, <2>1
  <1>4. (m - 1) + 1 \in G
    BY <1>3
  <1> QED
    BY <1>4

\* The states psdos runs through while it handles the first k records of s.
Runs(s, d, k, H) == H = [n \in 0..k |-> IF n = 0 THEN d ELSE Effect(s[n], H[n - 1])]

LEMMA RunExists ==
    ASSUME NEW s, NEW d
    PROVE  \A k \in Nat : \E H : Runs(s, d, k, H)
  <1> DEFINE G == {k \in Nat : \E H : Runs(s, d, k, H)}
  <1>1. 0 \in G
    <2> DEFINE H == [n \in 0..0 |-> d]
    <2>1. H = [n \in 0..0 |-> IF n = 0 THEN d ELSE Effect(s[n], H[n - 1])]
      OBVIOUS
    <2> QED
      BY <2>1 DEF Runs
  <1>2. ASSUME NEW k \in G PROVE k + 1 \in G
    <2>1. PICK H : Runs(s, d, k, H)
      OBVIOUS
    <2> DEFINE J == [n \in 0..(k + 1) |-> IF n <= k THEN H[n] ELSE Effect(s[n], H[n - 1])]
    <2>2. ASSUME NEW n \in 0..(k + 1)
          PROVE  J[n] = IF n = 0 THEN d ELSE Effect(s[n], J[n - 1])
      <3>1. CASE n = 0
        BY <2>1, <3>1 DEF Runs
      <3>2. CASE n # 0 /\ n <= k
        <4>1. n \in 0..k /\ n - 1 \in 0..(k + 1) /\ n - 1 <= k
          BY <3>2
        <4>2. J[n] = H[n] /\ J[n - 1] = H[n - 1]
          BY <3>2, <4>1
        <4>3. H[n] = Effect(s[n], H[n - 1])
          BY <2>1, <3>2, <4>1 DEF Runs
        <4> QED
          BY <3>2, <4>2, <4>3
      <3>3. CASE ~(n <= k)
        <4>1. n # 0 /\ n - 1 \in 0..(k + 1) /\ n - 1 <= k
          BY <3>3
        <4>2. J[n] = Effect(s[n], H[n - 1]) /\ J[n - 1] = H[n - 1]
          BY <3>3, <4>1
        <4> QED
          BY <4>1, <4>2
      <3> QED
        BY <3>1, <3>2, <3>3
    <2>3. J = [n \in 0..(k + 1) |-> IF n = 0 THEN d ELSE Effect(s[n], J[n - 1])]
      <3> DEFINE K == [n \in 0..(k + 1) |-> IF n = 0 THEN d ELSE Effect(s[n], J[n - 1])]
      <3>1. \A n \in 0..(k + 1) : J[n] = K[n]
        BY <2>2
      <3> QED
        BY <3>1
    <2> HIDE DEF J
    <2> QED
      BY <2>3 DEF Runs
  <1> HIDE DEF G
  <1>3. G \in SUBSET Nat
    BY DEF G
  <1>4. G = Nat
    BY <1>1, <1>2, <1>3, SetInduction
  <1> QED
    BY <1>4 DEF G

LEMMA SettleRuns ==
    ASSUME NEW s, NEW d, Len(s) \in Nat
    PROVE  \E H : Runs(s, d, Len(s), H) /\ Settle(s, d) = H[Len(s)]
  <1> DEFINE C == CHOOSE H : H = [n \in 0..Len(s) |-> IF n = 0 THEN d ELSE Effect(s[n], H[n - 1])]
  <1>1. \E H : H = [n \in 0..Len(s) |-> IF n = 0 THEN d ELSE Effect(s[n], H[n - 1])]
    <2>1. \E H : Runs(s, d, Len(s), H)
      BY RunExists
    <2> QED
      BY <2>1, Zenon DEF Runs
  <1>2. C = [n \in 0..Len(s) |-> IF n = 0 THEN d ELSE Effect(s[n], C[n - 1])]
    BY <1>1
  <1>3. Settle(s, d) = C[Len(s)]
    BY Zenon DEF Settle
  <1> HIDE DEF C
  <1> QED
    BY <1>2, <1>3 DEF Runs

\* Handling nothing changes nothing; ...
LEMMA SettleEmpty == ASSUME NEW d PROVE Settle(<<>>, d) = d
  BY SettleRuns DEF Runs

\* ... a record that is put behind the others is handled last, ...
LEMMA SettleAppend ==
    ASSUME NEW S, NEW s \in Seq(S), NEW c \in S, NEW d
    PROVE  Settle(Append(s, c), d) = Effect(c, Settle(s, d))
  <1> DEFINE t == Append(s, c)
  <1>0. /\ Len(s) \in Nat /\ t \in Seq(S) /\ Len(t) = Len(s) + 1
        /\ t[Len(s) + 1] = c /\ \A n \in 1..Len(s) : t[n] = s[n]
    OBVIOUS
  <1> HIDE DEF t
  <1>1. PICK H : Runs(s, d, Len(s), H) /\ Settle(s, d) = H[Len(s)]
    BY <1>0, SettleRuns
  <1>2. PICK J : Runs(t, d, Len(t), J) /\ Settle(t, d) = J[Len(t)]
    BY <1>0, SettleRuns
  <1> DEFINE G == {n \in Nat : n <= Len(s) => H[n] = J[n]}
  <1>3. 0 \in G
    BY <1>0, <1>1, <1>2 DEF Runs
  <1>4. ASSUME NEW n \in G PROVE n + 1 \in G
    <2> SUFFICES ASSUME n + 1 <= Len(s) PROVE H[n + 1] = J[n + 1]
      OBVIOUS
    <2>1. n + 1 \in 1..Len(s) /\ n + 1 \in 0..Len(s) /\ n + 1 \in 0..Len(t) /\ n + 1 # 0
          /\ (n + 1) - 1 = n /\ H[n] = J[n]
      BY <1>0
    <2>2. H[n + 1] = Effect(s[n + 1], H[n])
      BY <1>1, <2>1 DEF Runs
    <2>3. J[n + 1] = Effect(t[n + 1], J[n])
      BY <1>2, <2>1 DEF Runs
    <2> QED
      BY <1>0, <2>1, <2>2, <2>3
  <1>5. G = Nat
    <2>1. G \in SUBSET Nat
      OBVIOUS
    <2> HIDE DEF G
    <2> QED
      BY <1>3, <1>4, <2>1, SetInduction
  <1>6. H[Len(s)] = J[Len(s)]
    BY <1>0, <1>5
  <1>7. J[Len(s) + 1] = Effect(t[Len(s) + 1], J[Len(s)])
    <2>1. Len(s) + 1 \in 0..Len(t) /\ Len(s) + 1 # 0 /\ (Len(s) + 1) - 1 = Len(s)
      BY <1>0
    <2> QED
      BY <1>2, <2>1 DEF Runs
  <1> QED
    BY <1>0, <1>1, <1>2, <1>6, <1>7 DEF t

\* ... and the one in front is handled first.
LEMMA SettleHead ==
    ASSUME NEW S, NEW s \in Seq(S), s # <<>>, NEW d
    PROVE  Settle(s, d) = Settle(Tail(s), Effect(Head(s), d))
  <1> DEFINE t == Tail(s)
             e == Effect(Head(s), d)
  <1>0. /\ Len(s) \in Nat \ {0} /\ t \in Seq(S) /\ Len(t) = Len(s) - 1
        /\ Head(s) = s[1] /\ \A n \in 1..Len(t) : t[n] = s[n + 1]
    OBVIOUS
  <1> HIDE DEF t
  <1>1. PICK H : Runs(s, d, Len(s), H) /\ Settle(s, d) = H[Len(s)]
    BY <1>0, SettleRuns
  <1>e. H[1] = e
    BY <1>0, <1>1 DEF Runs
  <1> HIDE DEF e
  <1>2. PICK J : Runs(t, e, Len(t), J) /\ Settle(t, e) = J[Len(t)]
    BY <1>0, SettleRuns
  <1> DEFINE G == {n \in Nat : n <= Len(t) => H[n + 1] = J[n]}
  <1>3. 0 \in G
    <2>1. J[0] = e
      BY <1>0, <1>2 DEF Runs
    <2> QED
      BY <1>e, <2>1
  <1>4. ASSUME NEW n \in G PROVE n + 1 \in G
    <2> SUFFICES ASSUME n + 1 <= Len(t) PROVE H[n + 2] = J[n + 1]
      OBVIOUS
    <2>1. n + 1 \in 1..Len(t) /\ n + 2 \in 0..Len(s) /\ n + 1 \in 0..Len(t) /\ n + 1 # 0
          /\ n + 2 # 0 /\ (n + 1) - 1 = n /\ (n + 2) - 1 = n + 1 /\ (n + 1) + 1 = n + 2
          /\ H[n + 1] = J[n]
      BY <1>0
    <2>2. H[n + 2] = Effect(s[n + 2], H[n + 1])
      BY <1>1, <2>1 DEF Runs
    <2>3. J[n + 1] = Effect(t[n + 1], J[n])
      BY <1>2, <2>1 DEF Runs
    <2> QED
      BY <1>0, <2>1, <2>2, <2>3
  <1>5. G = Nat
    <2>1. G \in SUBSET Nat
      OBVIOUS
    <2> HIDE DEF G
    <2> QED
      BY <1>3, <1>4, <2>1, SetInduction
  <1>6. H[Len(t) + 1] = J[Len(t)]
    BY <1>0, <1>5
  <1> QED
    BY <1>0, <1>1, <1>2, <1>6 DEF t, e

\* psdos in state d has no more than psdos in state e: no game or keys or pads
\* that are not there as well.
Leq(d, e) == (d.loaded => e.loaded) /\ (d.keys => e.keys) /\ (d.pads => e.pads)

LEMMA EffectGrows ==
    ASSUME NEW d \in DosStates, NEW e \in DosStates, Leq(d, e), NEW c \in Records
    PROVE  Effect(c, d) \in DosStates /\ Leq(Effect(c, d), Effect(c, e))
  <1>1. Effect(c, d) \in DosStates
    BY DEF Effect, DosStates, Quiet
  <1>2. Leq(Effect(c, d), Effect(c, e))
    BY DEF Effect, DosStates, Quiet, Leq
  <1> QED
    BY <1>1, <1>2

\* What psdos has less before it handles s it has not gained after it.
LEMMA SettleGrows ==
    ASSUME NEW s \in Seq(Records), NEW d \in DosStates, NEW e \in DosStates, Leq(d, e)
    PROVE  Settle(s, d) \in DosStates /\ Leq(Settle(s, d), Settle(s, e))
  <1>0. Len(s) \in Nat /\ \A n \in 1..Len(s) : s[n] \in Records
    OBVIOUS
  <1>1. PICK H : Runs(s, d, Len(s), H) /\ Settle(s, d) = H[Len(s)]
    BY <1>0, SettleRuns
  <1>2. PICK J : Runs(s, e, Len(s), J) /\ Settle(s, e) = J[Len(s)]
    BY <1>0, SettleRuns
  <1> DEFINE Le(n) == H[n] \in DosStates /\ J[n] \in DosStates /\ Leq(H[n], J[n])
             G == {n \in Nat : n <= Len(s) => Le(n)}
  <1>3. 0 \in G
    <2>1. H[0] = d /\ J[0] = e
      BY <1>0, <1>1, <1>2 DEF Runs
    <2> QED
      BY <2>1
  <1>4. ASSUME NEW n \in G PROVE n + 1 \in G
    <2> SUFFICES ASSUME n + 1 <= Len(s) PROVE Le(n + 1)
      OBVIOUS
    <2>1. n + 1 \in 1..Len(s) /\ n + 1 \in 0..Len(s) /\ n + 1 # 0
          /\ (n + 1) - 1 = n /\ Le(n)
      BY <1>0
    <2>2. H[n + 1] = Effect(s[n + 1], H[n])
      BY <1>1, <2>1 DEF Runs
    <2>3. J[n + 1] = Effect(s[n + 1], J[n])
      BY <1>2, <2>1 DEF Runs
    <2>4. s[n + 1] \in Records
      BY <1>0, <2>1
    <2>5. Leq(J[n], J[n])
      BY DEF Leq
    <2> QED
      BY <2>1, <2>2, <2>3, <2>4, <2>5, EffectGrows
  <1>5. G = Nat
    <2>1. G \in SUBSET Nat
      OBVIOUS
    <2> HIDE DEF G
    <2> QED
      BY <1>3, <1>4, <2>1, SetInduction
  <1>6. Le(Len(s))
    BY <1>0, <1>5
  <1> QED
    BY <1>1, <1>2, <1>6

LEMMA SettleType ==
    ASSUME NEW s \in Seq(Records), NEW d \in DosStates
    PROVE  Settle(s, d) \in DosStates
  BY SettleGrows DEF Leq

\* What the single records do.
LEMMA EffectFacts ==
    ASSUME NEW d \in DosStates
    PROVE  /\ Effect("KEYS_UP", d).loaded = d.loaded
           /\ ~Effect("KEYS_UP", d).keys /\ ~Effect("KEYS_UP", d).pads
           /\ ~Effect("LOAD", d).keys /\ ~Effect("LOAD", d).pads
           /\ Effect("DOWN", d).loaded = d.loaded /\ Effect("DOWN", d).pads = d.pads
           /\ Effect("PAD", d).loaded = d.loaded /\ Effect("PAD", d).keys = d.keys
           /\ ~Effect("VIEW_FREE", d).loaded
           /\ Effect("VIEW_NEW", d) = d /\ Effect("HELLO", d) = d
           /\ Effect("EOF", d) = Quiet
  BY DEF Effect, DosStates, Quiet

-----------------------------------------------------------------------------
(* The invariant *)

\* The steps the two threads can have before them.
CpuCalls ==
    {<<>>, <<"VIEW_NEW">>, <<"LOAD">>, <<"grab">>, <<"connected?", "DOWN">>, <<"DOWN">>,
     <<"release", "connected?", "VIEW_FREE">>, <<"connected?", "VIEW_FREE">>, <<"VIEW_FREE">>,
     <<"release", "connected?", "KEYS_UP">>, <<"connected?", "KEYS_UP">>, <<"KEYS_UP">>}
UsbCalls == {<<>>, <<"PAD">>, <<"connected?", "DOWN">>, <<"DOWN">>}
Calls == todo["cpu"] \in CpuCalls /\ todo["usb"] \in UsbCalls

Idling(d) == ~d.loaded /\ ~d.keys /\ ~d.pads

\* Between two sessions, or in one that psdos has not greeted yet.
Waiting == conn = "down" \/ (conn = "session" /\ ~flag.connected)

\* g_connected stays clear from the tear-down to the next greeting.
TornDown ==
    /\ conn \in {"drop view", "drop capture", "close", "flush", "down"} => ~flag.connected
    /\ conn \in {"flush", "down"} => ~hup

\* A psdos that died left nothing behind, ...
HungUp == hup => wire = <<>> /\ Idling(dos)

\* ... and one that lives sees the end of the stream.
NoGameLeft == conn \in {"flush", "down"} => Idling(Settle(wire, dos))

\* A thread that was overtaken by the tear-down may still take the capture, or
\* queue a LOAD, but not both: it is one thread, and it tests again.
NoLateLoad ==
    (conn \in {"close", "flush"} \/ Waiting) /\ flag.capture => todo["cpu"] # <<"LOAD">>
WaitsClean ==
    Waiting /\ Settled.loaded =>
        ~Settled.keys /\ ~Settled.pads /\ ~flag.capture /\ todo["cpu"] # <<"grab">>

HeldInv ==
    /\ Calls /\ TornDown /\ HungUp /\ NoGameLeft /\ NoLateLoad /\ WaitsClean
    /\ NothingStaysHeld

LEMMA HeldInit == Init => HeldInv
  <1> SUFFICES ASSUME Init PROVE HeldInv
    OBVIOUS
  <1>1. ring = <<>> /\ wire = <<>> /\ dos = Quiet /\ conn = "down" /\ hup = FALSE
        /\ ~flag.connected /\ ~flag.capture
    BY DEF Init
  <1>2. Settle(wire, dos) = Quiet /\ Settled = Quiet
    BY <1>1, SettleEmpty DEF Settled
  <1>3. Calls
    BY DEF Init, Calls, CpuCalls, UsbCalls, Threads
  <1> QED
    BY <1>1, <1>2, <1>3
    DEF HeldInv, TornDown, HungUp, NoGameLeft, NoLateLoad, WaitsClean, NothingStaysHeld,
        Idling, Quiet, Waiting

-----------------------------------------------------------------------------
LEMMA Types ==
    ASSUME Parts
    PROVE  /\ ring \in Seq(Records) /\ wire \in Seq(Records) /\ dos \in DosStates
           /\ flag \in Flags /\ Settle(wire, dos) \in DosStates /\ Settled \in DosStates
  <1>0. \A s \in Seq(Cmd) : s \in Seq(Records)
    BY DEF Records
  <1>1. ring \in Seq(Records) /\ wire \in Seq(Records) /\ dos \in DosStates /\ flag \in Flags
    BY <1>0 DEF Parts, RingOK, StreamOK, Records
  <1> QED
    BY <1>1, SettleType DEF Settled

\* push_entry: psdos will handle the record last, if it is not refused.
LEMMA PushSettles ==
    ASSUME Parts, NEW c \in Cmd, PushEntry(c), UNCHANGED <<wire, dos>>
    PROVE  Settled' = IF Len(ring) < RingN THEN Effect(c, Settled) ELSE Settled
  <1>1. Settle(Append(ring, c), Settle(wire, dos)) = Effect(c, Settle(ring, Settle(wire, dos)))
    BY SettleAppend DEF Parts, RingOK
  <1> QED
    BY <1>1 DEF PushEntry, Settled

LEMMA CallTails ==
    /\ Tail(<<"VIEW_NEW">>) = <<>> /\ Tail(<<"LOAD">>) = <<>> /\ Tail(<<"grab">>) = <<>>
    /\ Tail(<<"PAD">>) = <<>> /\ Tail(<<"DOWN">>) = <<>>
    /\ Tail(<<"VIEW_FREE">>) = <<>> /\ Tail(<<"KEYS_UP">>) = <<>>
    /\ Tail(<<"connected?", "DOWN">>) = <<"DOWN">>
    /\ Tail(<<"connected?", "VIEW_FREE">>) = <<"VIEW_FREE">>
    /\ Tail(<<"connected?", "KEYS_UP">>) = <<"KEYS_UP">>
    /\ Tail(<<"release", "connected?", "VIEW_FREE">>) = <<"connected?", "VIEW_FREE">>
    /\ Tail(<<"release", "connected?", "KEYS_UP">>) = <<"connected?", "KEYS_UP">>
  OBVIOUS

LEMMA CallGoesOn ==
    ASSUME TodoOK, Calls, NEW t \in Threads, todo[t] # <<>>, GoOn(t)
    PROVE  Calls'
  <1>1. \A s \in CpuCalls : s # <<>> => Tail(s) \in CpuCalls
    BY CallTails, Zenon DEF CpuCalls
  <1>2. \A s \in UsbCalls : s # <<>> => Tail(s) \in UsbCalls
    BY CallTails, Zenon DEF UsbCalls
  <1> QED
    BY <1>1, <1>2 DEF Calls, GoOn, TodoOK, Threads
\* A call that goes on leaves neither a LOAD nor a grab before it.
LEMMA NothingAfter ==
    ASSUME Calls, NEW t \in Threads, todo[t] # <<>>, GoOn(t), TodoOK
    PROVE  todo'["cpu"] # todo["cpu"] => todo'["cpu"] \notin {<<"LOAD">>, <<"grab">>}
  <1> DEFINE Ends == {<<>>, <<"DOWN">>, <<"VIEW_FREE">>, <<"KEYS_UP">>,
                      <<"connected?", "VIEW_FREE">>, <<"connected?", "KEYS_UP">>}
  <1>0. \A s \in CpuCalls : s # <<>> => Tail(s) \in Ends
    BY CallTails, Zenon DEF CpuCalls
  <1>1. \A s \in CpuCalls : s # <<>> => Tail(s) \notin {<<"LOAD">>, <<"grab">>}
    <2>1. \A e \in Ends : e \notin {<<"LOAD">>, <<"grab">>}
      OBVIOUS
    <2> HIDE DEF Ends
    <2> QED
      BY <1>0, <2>1
  <1> QED
    BY <1>1 DEF Calls, GoOn, TodoOK, Threads

LEMMA PushHolds ==
    ASSUME Parts, HeldInv, NEW t \in Threads, Push(t) \/ Key(t)
    PROVE  HeldInv'
  <1>t. flag \in Flags /\ TodoOK
    BY DEF Parts
  <1>c. flag.connected /\ todo[t] = <<>>
    BY DEF Push, Key, Idle, Wanted
  <1>u. UNCHANGED <<ring, flag, conn, hup, wire, dos, refused>>
    BY DEF Push, Key, link
  <1>1. Calls'
    BY <1>t DEF Push, Key, Then, HeldInv, Calls, CpuCalls, UsbCalls, TodoOK, Threads
  <1>2. ~Waiting' /\ conn' \notin {"close", "flush"}
    BY <1>c, <1>u DEF HeldInv, TornDown, Waiting
  <1>3. Settled' = Settled
    BY <1>u DEF Settled
  <1>4. NothingStaysHeld'
    BY <1>u, <1>3 DEF HeldInv, NothingStaysHeld
  <1> QED
    BY <1>u, <1>1, <1>2, <1>4 DEF HeldInv, TornDown, HungUp, NoGameLeft, NoLateLoad, WaitsClean

LEMMA TestHolds ==
    ASSUME Parts, HeldInv, NEW t \in Threads, TestConnected(t)
    PROVE  HeldInv'
  <1>t. flag \in Flags /\ TodoOK
    BY DEF Parts
  <1>u. UNCHANGED <<ring, flag, conn, hup, wire, dos, refused>>
    BY DEF TestConnected, link
  <1>1. Calls' /\ (todo'["cpu"] # todo["cpu"] => todo'["cpu"] \notin {<<"LOAD">>, <<"grab">>})
    <2>1. CASE GoOn(t) /\ todo[t] # <<>>
      BY <1>t, <2>1, CallGoesOn, NothingAfter DEF HeldInv
    <2>2. CASE Then(t, <<>>)
      BY <1>t, <2>2 DEF HeldInv, Calls, CpuCalls, UsbCalls, Then, TodoOK, Threads
    <2> QED
      BY <2>1, <2>2 DEF TestConnected, At
  <1>3. Settled' = Settled
    BY <1>u DEF Settled
  <1>4. NothingStaysHeld' /\ WaitsClean' /\ NoLateLoad'
    BY <1>u, <1>1, <1>3 DEF HeldInv, NothingStaysHeld, WaitsClean, NoLateLoad, Waiting
  <1> QED
    BY <1>u, <1>1, <1>4 DEF HeldInv, TornDown, HungUp, NoGameLeft
LEMMA EnqueueHolds ==
    ASSUME Parts, HeldInv, NEW t \in Threads, Enqueue(t)
    PROVE  HeldInv'
  <1>t. flag \in Flags /\ TodoOK /\ Settled \in DosStates
    BY Types DEF Parts
  <1>u. UNCHANGED <<flag, conn, hup, wire, dos, refused>> /\ GoOn(t)
    BY DEF Enqueue, link
  <1>1. PICK c \in Cmd : At(t, c) /\ IF Allowed(c) THEN PushEntry(c) ELSE UNCHANGED ring
    BY DEF Enqueue
  <1>2. Calls' /\ (todo'["cpu"] # todo["cpu"] => todo'["cpu"] \notin {<<"LOAD">>, <<"grab">>})
    BY <1>t, <1>u, <1>1, CallGoesOn, NothingAfter DEF HeldInv, At
  <1>3. Settled' = Settled \/ (Allowed(c) /\ Settled' = Effect(c, Settled))
    <2>1. CASE Allowed(c)
      BY <1>u, <1>1, <2>1, PushSettles
    <2>2. CASE ~Allowed(c)
      BY <1>u, <1>1, <2>2 DEF Settled
    <2> QED
      BY <2>1, <2>2
  <1>4. c = "LOAD" => todo["cpu"] = <<"LOAD">> /\ todo'["cpu"] # todo["cpu"]
    <2>1. \A s \in CpuCalls : s # <<>> /\ Head(s) = "LOAD" => s = <<"LOAD">> /\ Tail(s) # s
      BY CallTails DEF CpuCalls
    <2>2. \A s \in UsbCalls : s # <<>> => Head(s) # "LOAD"
      BY DEF UsbCalls
    <2> QED
      BY <1>t, <1>u, <1>1, <2>1, <2>2 DEF HeldInv, Calls, At, GoOn, TodoOK, Threads
  <1>5. NothingStaysHeld'
    <2>1. CASE Settled' = Settled
      BY <1>u, <2>1 DEF HeldInv, NothingStaysHeld
    <2>2. CASE Allowed(c) /\ Settled' = Effect(c, Settled)
      BY <1>t, <1>u, <2>2, EffectFacts DEF HeldInv, NothingStaysHeld, Allowed, Cmd
    <2> QED
      BY <1>3, <2>1, <2>2
  <1>6. Waiting => ~flag.connected
    BY DEF HeldInv, TornDown, Waiting
  <1>7. WaitsClean'
    <2>1. CASE Settled' = Settled
      BY <1>u, <1>2, <2>1 DEF HeldInv, WaitsClean, Waiting
    <2>2. CASE Allowed(c) /\ Settled' = Effect(c, Settled)
      <3> SUFFICES ASSUME Waiting', Settled'.loaded
                   PROVE  ~Settled'.keys /\ ~Settled'.pads /\ ~flag'.capture
                          /\ todo'["cpu"] # <<"grab">>
        BY DEF WaitsClean
      <3>1. Waiting
        BY <1>u DEF Waiting
      <3>2. CASE c = "LOAD"
        BY <1>t, <1>u, <1>2, <1>4, <2>2, <3>1, <3>2, EffectFacts DEF HeldInv, NoLateLoad
      <3>3. CASE c \in {"DOWN", "PAD", "KEYS_UP", "VIEW_NEW"}
        <4>1. Settled.loaded
          BY <1>t, <2>2, <3>3, EffectFacts
        <4>2. ~Settled.keys /\ ~Settled.pads /\ ~flag.capture /\ todo["cpu"] # <<"grab">>
          BY <3>1, <4>1 DEF HeldInv, WaitsClean
        <4>3. c \in {"KEYS_UP", "VIEW_NEW"}
          BY <1>6, <2>2, <3>1, <3>3, <4>2 DEF Allowed
        <4>4. ~Effect(c, Settled).keys /\ ~Effect(c, Settled).pads
          BY <1>t, <4>2, <4>3, EffectFacts
        <4> QED
          BY <1>u, <1>2, <2>2, <4>2, <4>4
      <3>4. CASE c = "VIEW_FREE"
        BY <1>t, <2>2, <3>4, EffectFacts
      <3> QED
        BY <3>2, <3>3, <3>4 DEF Cmd
    <2> QED
      BY <1>3, <2>1, <2>2
  <1>8. NoLateLoad'
    BY <1>u, <1>2 DEF HeldInv, NoLateLoad, Waiting
  <1> QED
    BY <1>u, <1>2, <1>5, <1>7, <1>8 DEF HeldInv, TornDown, HungUp, NoGameLeft

\* What a KEYS_UP leaves: nothing held, or the mark that it was refused.
LEMMA KeysUpSettles ==
    ASSUME Parts, PushKeysUp, UNCHANGED <<wire, dos>>, ~refused'
    PROVE  ~Settled'.keys /\ ~Settled'.pads
  <1>0. Len(ring) \in Nat /\ RingN \in Nat
    BY SizesAssumption DEF Parts, RingOK
  <1>1. Len(ring) < RingN
    <2>1. ~(Len(ring) >= RingN)
      BY Zenon DEF PushKeysUp
    <2> QED
      BY <1>0, <2>1
  <1>2. Settled' = Effect("KEYS_UP", Settled)
    BY <1>1, PushSettles DEF PushKeysUp, Cmd
  <1> QED
    BY <1>2, Types, EffectFacts

LEMMA ReleaseHolds ==
    ASSUME Parts, HeldInv, NEW t \in Threads, Release(t)
    PROVE  HeldInv'
  <1>t. flag \in Flags /\ TodoOK
    BY DEF Parts
  <1>u. UNCHANGED <<conn, hup, wire, dos>>
    BY DEF Release, link
  <1>f. flag'.connected = flag.connected /\ flag'.focus = flag.focus /\ ~flag'.capture
    BY <1>t DEF Release, Flags
  <1>2. Calls' /\ (todo'["cpu"] # todo["cpu"] => todo'["cpu"] \notin {<<"LOAD">>, <<"grab">>})
    <2>1. CASE UNCHANGED todo
      BY <2>1 DEF HeldInv, Calls
    <2>2. CASE At(t, "release") /\ GoOn(t)
      BY <1>t, <2>2, CallGoesOn, NothingAfter DEF HeldInv, At
    <2> QED
      BY <2>1, <2>2 DEF Release
  <1>3. CASE flag.capture /\ flag.connected
    <2>1. PushKeysUp
      BY <1>3 DEF Release
    <2>2. ~Waiting' /\ NothingStaysHeld'
      BY <1>u, <1>f, <1>3, <2>1, KeysUpSettles DEF HeldInv, TornDown, Waiting, NothingStaysHeld
    <2> QED
      BY <1>u, <1>f, <1>2, <2>2
      DEF HeldInv, TornDown, HungUp, NoGameLeft, NoLateLoad, WaitsClean
  <1>4. CASE ~(flag.capture /\ flag.connected)
    <2>1. UNCHANGED <<ring, refused>>
      BY <1>4 DEF Release
    <2>2. Settled' = Settled
      BY <1>u, <2>1 DEF Settled
    <2>3. NothingStaysHeld'
      BY <1>u, <1>f, <1>4, <2>1, <2>2 DEF HeldInv, NothingStaysHeld
    <2>4. WaitsClean'
      BY <1>u, <1>f, <1>2, <2>2 DEF HeldInv, WaitsClean, Waiting
    <2> QED
      BY <1>u, <1>f, <1>2, <2>3, <2>4 DEF HeldInv, TornDown, HungUp, NoGameLeft, NoLateLoad
  <1> QED
    BY <1>3, <1>4

\* psdos_set_capture(1), VIEW_FREE and the focus.
LEMMA CaptureHolds ==
    ASSUME Parts, HeldInv, Capture \/ Grab \/ ViewFree \/ Front
    PROVE  HeldInv'
  <1>t. flag \in Flags /\ TodoOK
    BY DEF Parts
  <1>u. UNCHANGED <<ring, conn, hup, wire, dos, refused>>
    BY DEF Capture, Grab, ViewFree, Front, link
  <1>s. Settled' = Settled
    BY <1>u DEF Settled
  <1>f. flag'.connected = flag.connected
    BY <1>t DEF Capture, Grab, ViewFree, Front, Flags
  <1>n. TornDown' /\ HungUp' /\ NoGameLeft'
    BY <1>u, <1>f DEF HeldInv, TornDown, HungUp, NoGameLeft
  <1>1. CASE Capture
    <2>1. Calls'
      BY <1>t, <1>1 DEF Capture, Then, HeldInv, Calls, CpuCalls, TodoOK, Threads
    <2>2. ~Waiting' /\ conn' \notin {"close", "flush"}
      BY <1>u, <1>f, <1>1 DEF Capture, HeldInv, TornDown, Waiting
    <2>3. NothingStaysHeld'
      BY <1>u, <1>s, <1>1 DEF Capture, HeldInv, NothingStaysHeld
    <2> QED
      BY <1>n, <2>1, <2>2, <2>3 DEF HeldInv, NoLateLoad, WaitsClean
  <1>2. CASE Grab
    <2>1. Calls' /\ (todo'["cpu"] # todo["cpu"] => todo'["cpu"] \notin {<<"LOAD">>, <<"grab">>})
      BY <1>t, <1>2, CallGoesOn, NothingAfter DEF HeldInv, Grab, At, Threads
    <2>2. todo["cpu"] = <<"grab">> /\ todo'["cpu"] # todo["cpu"]
      <3>1. \A s \in CpuCalls : s # <<>> /\ Head(s) = "grab" => s = <<"grab">> /\ Tail(s) # s
        BY CallTails DEF CpuCalls
      <3> QED
        BY <1>t, <1>2, <3>1 DEF Grab, At, GoOn, HeldInv, Calls, TodoOK, Threads
    <2>3. flag'.capture
      BY <1>t, <1>2 DEF Grab, Flags
    <2>4. WaitsClean' /\ NoLateLoad' /\ NothingStaysHeld'
      BY <1>u, <1>s, <1>f, <2>1, <2>2, <2>3
      DEF HeldInv, WaitsClean, NoLateLoad, Waiting, NothingStaysHeld
    <2> QED
      BY <1>n, <2>1, <2>4 DEF HeldInv
  <1>3. CASE ViewFree
    <2>1. Calls' /\ todo'["cpu"] \notin {<<"LOAD">>, <<"grab">>}
      BY <1>t, <1>3 DEF ViewFree, Then, HeldInv, Calls, CpuCalls, TodoOK, Threads
    <2>2. flag'.capture = flag.capture /\ flag'.focus = flag.focus
      BY <1>t, <1>3 DEF ViewFree, Flags
    <2>3. WaitsClean' /\ NoLateLoad' /\ NothingStaysHeld'
      BY <1>u, <1>s, <1>f, <2>1, <2>2
      DEF HeldInv, WaitsClean, NoLateLoad, Waiting, NothingStaysHeld
    <2> QED
      BY <1>n, <2>1, <2>3 DEF HeldInv
  <1>4. CASE Front
    <2>1. flag'.capture = flag.capture /\ flag'.focus
      BY <1>t, <1>4 DEF Front, Flags
    <2>2. UNCHANGED todo
      BY <1>4 DEF Front
    <2>3. WaitsClean' /\ NoLateLoad' /\ NothingStaysHeld' /\ Calls'
      BY <1>u, <1>s, <1>f, <2>1, <2>2
      DEF HeldInv, WaitsClean, NoLateLoad, Waiting, NothingStaysHeld, Calls
    <2> QED
      BY <1>n, <2>3 DEF HeldInv
  <1> QED
    BY <1>1, <1>2, <1>3, <1>4

LEMMA BackHolds ==
    ASSUME Parts, HeldInv, Back
    PROVE  HeldInv'
  <1>t. flag \in Flags /\ TodoOK
    BY DEF Parts
  <1>u. UNCHANGED <<conn, hup, wire, dos>>
    BY DEF Back, link
  <1>f. flag'.connected = flag.connected /\ flag'.capture = flag.capture
    BY <1>t DEF Back, Flags
  <1>1. Calls' /\ todo'["cpu"] \notin {<<"LOAD">>, <<"grab">>}
    BY <1>t DEF Back, Then, HeldInv, Calls, CpuCalls, TodoOK, Threads
  <1>n. TornDown' /\ HungUp' /\ NoGameLeft'
    BY <1>u, <1>f DEF HeldInv, TornDown, HungUp, NoGameLeft
  <1>2. CASE flag.connected /\ ~flag.capture
    <2>1. PushKeysUp
      BY <1>2 DEF Back
    <2>2. ~Waiting' /\ NothingStaysHeld'
      BY <1>u, <1>f, <1>2, <2>1, KeysUpSettles DEF HeldInv, TornDown, Waiting, NothingStaysHeld
    <2> QED
      BY <1>n, <1>1, <2>2 DEF HeldInv, NoLateLoad, WaitsClean
  <1>3. CASE ~(flag.connected /\ ~flag.capture)
    <2>1. UNCHANGED <<ring, refused>>
      BY <1>3 DEF Back
    <2>2. Settled' = Settled
      BY <1>u, <2>1 DEF Settled
    <2>3. NothingStaysHeld' /\ WaitsClean' /\ NoLateLoad'
      BY <1>u, <1>f, <1>1, <1>3, <2>2
      DEF HeldInv, NothingStaysHeld, WaitsClean, NoLateLoad, Waiting
    <2> QED
      BY <1>n, <1>1, <2>3 DEF HeldInv
  <1> QED
    BY <1>2, <1>3

-----------------------------------------------------------------------------
(* The connector *)

LEMMA SessionHolds ==
    ASSUME Parts, HeldInv, Connect \/ Drain \/ HandleEvt
    PROVE  HeldInv'
  <1>t. /\ ring \in Seq(Records) /\ wire \in Seq(Records) /\ dos \in DosStates
        /\ flag \in Flags /\ Settle(wire, dos) \in DosStates /\ Settled \in DosStates
    BY Types
  <1>u. UNCHANGED <<todo, dos, hup, refused>>
    BY DEF Connect, Drain, HandleEvt
  <1>1. CASE Connect
    <2>1. UNCHANGED <<ring, flag>> /\ wire' = Append(wire, "HELLO")
          /\ conn = "down" /\ conn' = "session"
      BY <1>1 DEF Connect
    <2>2. Settle(wire', dos) = Settle(wire, dos)
      BY <1>t, <2>1, SettleAppend, EffectFacts DEF Records
    <2>3. Settled' = Settled
      BY <1>u, <2>1, <2>2 DEF Settled
    <2>4. ~flag.connected /\ ~hup
      BY <2>1 DEF HeldInv, TornDown
    <2> QED
      BY <1>u, <2>1, <2>3, <2>4
      DEF HeldInv, Calls, TornDown, HungUp, NoGameLeft, NoLateLoad, WaitsClean, Waiting,
          NothingStaysHeld
  <1>2. CASE Drain
    <2>1. /\ UNCHANGED <<conn, flag>> /\ wire' = Append(wire, Head(ring)) /\ ring' = Tail(ring)
          /\ ring # <<>> /\ conn = "session" /\ flag.connected /\ ~hup
      BY <1>2 DEF Drain
    <2>2. Settle(wire', dos) = Effect(Head(ring), Settle(wire, dos))
      BY <1>t, <2>1, SettleAppend
    <2>3. Settled' = Settled
      BY <1>t, <1>u, <2>1, <2>2, SettleHead DEF Settled
    <2> QED
      BY <1>u, <2>1, <2>3
      DEF HeldInv, Calls, TornDown, HungUp, NoGameLeft, NoLateLoad, WaitsClean, Waiting,
          NothingStaysHeld
  <1>3. CASE HandleEvt
    <2>1. UNCHANGED <<ring, conn, wire>> /\ conn = "session" /\ ~hup
      BY <1>3 DEF HandleEvt
    <2>2. /\ flag'.capture = flag.capture /\ flag'.focus = flag.focus
          /\ flag.connected => flag'.connected
      BY <1>3, <1>t DEF HandleEvt, Flags
    <2>3. Settled' = Settled
      BY <1>u, <2>1 DEF Settled
    <2>4. NothingStaysHeld'
      BY <1>u, <2>1, <2>2, <2>3 DEF HeldInv, NothingStaysHeld, WaitsClean, Waiting
    <2> QED
      BY <1>u, <2>1, <2>2, <2>3, <2>4
      DEF HeldInv, Calls, TornDown, HungUp, NoGameLeft, NoLateLoad, WaitsClean, Waiting
  <1> QED
    BY <1>1, <1>2, <1>3

LEMMA TearDownHolds ==
    ASSUME Parts, HeldInv,
           HangUp \/ LinkError \/ DropConnected \/ DropView \/ DropCapture \/ Close \/ Flush
    PROVE  HeldInv'
  <1>t. /\ ring \in Seq(Records) /\ wire \in Seq(Records) /\ dos \in DosStates
        /\ flag \in Flags /\ Settle(wire, dos) \in DosStates /\ Settled \in DosStates
    BY Types
  <1>u. UNCHANGED <<todo, dos>>
    BY DEF HangUp, LinkError, DropConnected, DropView, DropCapture, Close, Flush
  <1>1. CASE HangUp \/ LinkError
    <2>1. UNCHANGED <<flag, hup, wire>> /\ conn' = "drop connected"
      BY <1>1 DEF HangUp, LinkError
    <2> QED
      BY <1>u, <2>1
      DEF HeldInv, Calls, TornDown, HungUp, NoGameLeft, NoLateLoad, WaitsClean, Waiting,
          NothingStaysHeld
  <1>2. CASE DropConnected
    <2>1. UNCHANGED <<hup, wire>> /\ conn' = "drop view" /\ ~flag'.connected
      BY <1>2, <1>t DEF DropConnected, Flags
    <2> QED
      BY <1>u, <2>1
      DEF HeldInv, Calls, TornDown, HungUp, NoGameLeft, NoLateLoad, WaitsClean, Waiting,
          NothingStaysHeld
  <1>3. CASE DropView \/ DropCapture
    <2>1. UNCHANGED <<hup, wire>> /\ flag'.connected = flag.connected
      BY <1>3, <1>t DEF DropView, DropCapture, Flags
    <2>2. \/ conn = "drop view" /\ conn' = "drop capture"
          \/ conn = "drop capture" /\ conn' = "close" /\ ~flag'.capture
      BY <1>3, <1>t DEF DropView, DropCapture, Flags
    <2> QED
      BY <1>u, <2>1, <2>2
      DEF HeldInv, Calls, TornDown, HungUp, NoGameLeft, NoLateLoad, WaitsClean, Waiting,
          NothingStaysHeld
  <1>4. CASE Close
    <2>1. /\ UNCHANGED flag /\ conn = "close" /\ conn' = "flush" /\ ~hup'
          /\ wire' = IF hup THEN wire ELSE Append(wire, "EOF")
      BY <1>4 DEF Close
    <2>2. Idling(Settle(wire', dos))
      <3>1. CASE hup
        BY <2>1, <3>1, SettleEmpty DEF HeldInv, HungUp
      <3>2. CASE ~hup
        <4>1. Settle(wire', dos) = Quiet
          BY <1>t, <2>1, <3>2, SettleAppend, EffectFacts DEF Records
        <4> QED
          BY <4>1 DEF Idling, Quiet
      <3> QED
        BY <3>1, <3>2
    <2> QED
      BY <1>u, <2>1, <2>2
      DEF HeldInv, Calls, TornDown, HungUp, NoGameLeft, NoLateLoad, WaitsClean, Waiting,
          NothingStaysHeld
  <1>5. CASE Flush
    <2>1. /\ UNCHANGED <<flag, hup, wire>> /\ conn = "flush" /\ conn' = "down" /\ ring' = <<>>
      BY <1>5 DEF Flush
    <2>2. Settled' = Settle(wire, dos)
      BY <1>u, <2>1, SettleEmpty DEF Settled
    <2>3. Idling(Settle(wire, dos))
      BY <2>1 DEF HeldInv, NoGameLeft
    <2> QED
      BY <1>u, <2>1, <2>2, <2>3
      DEF HeldInv, Calls, TornDown, HungUp, NoGameLeft, NoLateLoad, WaitsClean, Waiting,
          NothingStaysHeld, Idling
  <1> QED
    BY <1>1, <1>2, <1>3, <1>4, <1>5

-----------------------------------------------------------------------------
(* psdos *)

LEMMA HandleCmdHolds ==
    ASSUME Parts, HeldInv, HandleCmd
    PROVE  HeldInv'
  <1>t. ring \in Seq(Records) /\ wire \in Seq(Records)
    BY Types
  <1>u. UNCHANGED <<ring, flag, todo, conn, hup, refused>>
    BY DEF HandleCmd
  <1>1. wire # <<>> /\ wire' = Tail(wire) /\ dos' = Effect(Head(wire), dos)
    BY DEF HandleCmd
  <1>2. Settle(wire', dos') = Settle(wire, dos)
    BY <1>t, <1>1, SettleHead
  <1>3. Settled' = Settled
    BY <1>u, <1>2 DEF Settled
  <1>4. ~hup
    BY <1>1 DEF HeldInv, HungUp
  <1> QED
    BY <1>u, <1>2, <1>3, <1>4
    DEF HeldInv, Calls, TornDown, HungUp, NoGameLeft, NoLateLoad, WaitsClean, Waiting,
        NothingStaysHeld, Idling

\* A death or a restart takes away and gives nothing.
LEMMA DieHolds ==
    ASSUME Parts, HeldInv, Die \/ Restart
    PROVE  HeldInv'
  <1>t. /\ ring \in Seq(Records) /\ wire \in Seq(Records) /\ dos \in DosStates
        /\ flag \in Flags /\ Settle(wire, dos) \in DosStates /\ Settled \in DosStates
    BY Types
  <1>u. UNCHANGED <<ring, flag, todo, conn, refused>>
    BY DEF Die, Restart, link
  <1>1. dos' \in DosStates /\ Idling(dos')
    <2>1. dos' = Quiet \/ dos' = [Quiet EXCEPT !.alive = FALSE]
      BY DEF Die, Restart
    <2>2. Quiet \in DosStates /\ [Quiet EXCEPT !.alive = FALSE] \in DosStates
      BY DEF DosStates, Quiet
    <2>3. Idling(Quiet) /\ Idling([Quiet EXCEPT !.alive = FALSE])
      BY DEF Idling, Quiet
    <2> QED
      BY <2>1, <2>2, <2>3
  <1>2. \/ wire' = <<>> /\ hup' = (conn \notin {"down", "flush"})
        \/ wire' = wire /\ hup' = hup
    BY DEF Die, Restart, link
  <1>3. Settle(wire', dos') \in DosStates /\ Leq(Settle(wire', dos'), Settle(wire, dos))
    <2>1. CASE wire' = <<>>
      BY <1>1, <2>1, SettleEmpty DEF Idling, Leq
    <2>2. CASE wire' = wire
      BY <1>t, <1>1, <2>2, SettleGrows DEF Idling, Leq
    <2> QED
      BY <1>2, <2>1, <2>2
  <1>4. Leq(Settled', Settled)
    BY <1>t, <1>u, <1>3, SettleGrows DEF Settled
  <1>5. TornDown' /\ HungUp'
    <2>1. TornDown'
      <3>1. CASE hup' = hup
        BY <1>u, <3>1 DEF HeldInv, TornDown
      <3>2. CASE hup' = (conn \notin {"down", "flush"})
        <4>1. conn \in {"flush", "down"} => ~hup'
          BY <3>2, Zenon
        <4> QED
          BY <1>u, <4>1 DEF HeldInv, TornDown
      <3> QED
        BY <1>2, <3>1, <3>2
    <2>2. HungUp'
      <3>1. CASE wire' = wire /\ hup' = hup
        BY <1>1, <3>1 DEF HeldInv, HungUp
      <3>2. CASE wire' = <<>>
        BY <1>1, <3>2 DEF HungUp
      <3> QED
        BY <1>2, <3>1, <3>2
    <2> QED
      BY <2>1, <2>2
  <1>6. NoGameLeft'
    BY <1>u, <1>3 DEF HeldInv, NoGameLeft, Idling, Leq
  <1>7. WaitsClean' /\ NothingStaysHeld'
    BY <1>u, <1>4 DEF HeldInv, WaitsClean, Waiting, NothingStaysHeld, Leq
  <1> QED
    BY <1>u, <1>5, <1>6, <1>7 DEF HeldInv, Calls, NoLateLoad, Waiting

-----------------------------------------------------------------------------
\* In every session, however psdos died and the link failed before it and however
\* the two threads' calls were overtaken by the tear-down, a game that psdos runs
\* once it has caught up has no key down that the capture gave it, when the
\* capture has been let go, and no pad when the window is not in front either,
\* unless a KEYS_UP found the ring full (psdos_set_capture, psdos_set_focus).
THEOREM HeldInputIsReleased == Spec => []NothingStaysHeld
  <1>1. Init => Parts /\ HeldInv
    BY PartsInit, HeldInit
  <1>2. Parts /\ HeldInv /\ [Next]_vars => (Parts /\ HeldInv)'
    <2> SUFFICES ASSUME Parts, HeldInv, [Next]_vars PROVE Parts' /\ HeldInv'
      OBVIOUS
    <2>1. CASE UNCHANGED vars
      <3>1. UNCHANGED <<ring, flag, todo, conn, hup, wire, evts, dos, faults, refused>>
        BY <2>1 DEF vars, link
      <3>2. Settled' = Settled
        BY <3>1 DEF Settled
      <3>3. HeldInv'
        BY <3>1, <3>2
        DEF HeldInv, Calls, TornDown, HungUp, NoGameLeft, NoLateLoad, WaitsClean, Waiting,
            NothingStaysHeld
      <3> QED
        BY <3>1, <3>3 DEF Parts, RingOK, TodoOK, StreamOK
    <2>2. CASE Producers
      BY <2>2, ProducersKeep, PushHolds, TestHolds, EnqueueHolds, ReleaseHolds, CaptureHolds,
         BackHolds DEF Producers
    <2>3. CASE Connector \/ LinkError
      BY <2>3, ConnectorKeeps, SessionHolds, TearDownHolds DEF Connector
    <2>4. CASE HandleCmd \/ Die \/ Restart
      BY <2>4, DosKeeps, HandleCmdHolds, DieHolds
    <2> QED
      BY <2>1, <2>2, <2>3, <2>4 DEF Next
  <1>3. HeldInv => NothingStaysHeld
    BY DEF HeldInv
  <1> QED
    BY <1>1, <1>2, <1>3, PTL DEF Spec

-----------------------------------------------------------------------------
(* The order of the commands *)

\* The commands among the first n records of s, for every n up to k.
Picks(s, k, F) == F = [n \in 0..k |-> IF n = 0 THEN <<>> ELSE F[n - 1] \o CmdOnly(s[n])]

LEMMA PicksExist ==
    ASSUME NEW s
    PROVE  \A k \in Nat : \E F : Picks(s, k, F)
  <1> DEFINE G == {k \in Nat : \E F : Picks(s, k, F)}
  <1>1. 0 \in G
    <2> DEFINE F == [n \in 0..0 |-> <<>>]
    <2>1. F = [n \in 0..0 |-> IF n = 0 THEN <<>> ELSE F[n - 1] \o CmdOnly(s[n])]
      OBVIOUS
    <2> QED
      BY <2>1 DEF Picks
  <1>2. ASSUME NEW k \in G PROVE k + 1 \in G
    <2>1. PICK F : Picks(s, k, F)
      OBVIOUS
    <2> DEFINE J == [n \in 0..(k + 1) |-> IF n <= k THEN F[n] ELSE F[n - 1] \o CmdOnly(s[n])]
    <2>2. ASSUME NEW n \in 0..(k + 1)
          PROVE  J[n] = IF n = 0 THEN <<>> ELSE J[n - 1] \o CmdOnly(s[n])
      <3>1. CASE n = 0
        BY <2>1, <3>1 DEF Picks
      <3>2. CASE n # 0 /\ n <= k
        <4>1. n \in 0..k /\ n - 1 \in 0..(k + 1) /\ n - 1 <= k
          BY <3>2
        <4>2. J[n] = F[n] /\ J[n - 1] = F[n - 1]
          BY <3>2, <4>1
        <4>3. F[n] = F[n - 1] \o CmdOnly(s[n])
          BY <2>1, <3>2, <4>1 DEF Picks
        <4> QED
          BY <3>2, <4>2, <4>3
      <3>3. CASE ~(n <= k)
        <4>1. n # 0 /\ n - 1 \in 0..(k + 1) /\ n - 1 <= k
          BY <3>3
        <4>2. J[n] = F[n - 1] \o CmdOnly(s[n]) /\ J[n - 1] = F[n - 1]
          BY <3>3, <4>1
        <4> QED
          BY <4>1, <4>2
      <3> QED
        BY <3>1, <3>2, <3>3
    <2>3. J = [n \in 0..(k + 1) |-> IF n = 0 THEN <<>> ELSE J[n - 1] \o CmdOnly(s[n])]
      <3> DEFINE K == [n \in 0..(k + 1) |-> IF n = 0 THEN <<>> ELSE J[n - 1] \o CmdOnly(s[n])]
      <3>1. \A n \in 0..(k + 1) : J[n] = K[n]
        BY <2>2
      <3> QED
        BY <3>1
    <2> HIDE DEF J
    <2> QED
      BY <2>3 DEF Picks
  <1> HIDE DEF G
  <1>3. G \in SUBSET Nat
    BY DEF G
  <1>4. G = Nat
    BY <1>1, <1>2, <1>3, SetInduction
  <1> QED
    BY <1>4 DEF G

LEMMA CmdsPicks ==
    ASSUME NEW s, Len(s) \in Nat
    PROVE  \E F : Picks(s, Len(s), F) /\ Cmds(s) = F[Len(s)]
  <1> DEFINE C == CHOOSE F : F = [n \in 0..Len(s) |->
                                    IF n = 0 THEN <<>> ELSE F[n - 1] \o CmdOnly(s[n])]
  <1>1. \E F : F = [n \in 0..Len(s) |-> IF n = 0 THEN <<>> ELSE F[n - 1] \o CmdOnly(s[n])]
    <2>1. \E F : Picks(s, Len(s), F)
      BY PicksExist
    <2> QED
      BY <2>1, Zenon DEF Picks
  <1>2. C = [n \in 0..Len(s) |-> IF n = 0 THEN <<>> ELSE C[n - 1] \o CmdOnly(s[n])]
    BY <1>1
  <1>3. Cmds(s) = C[Len(s)]
    BY Zenon DEF Cmds
  <1> HIDE DEF C
  <1> QED
    BY <1>2, <1>3 DEF Picks

LEMMA CmdOnlyType == \A c : CmdOnly(c) \in Seq(Cmd)
  BY DEF CmdOnly

LEMMA PicksType ==
    ASSUME NEW s, NEW k \in Nat, NEW F, Picks(s, k, F)
    PROVE  \A n \in 0..k : F[n] \in Seq(Cmd)
  <1> DEFINE G == {n \in Nat : n <= k => F[n] \in Seq(Cmd)}
  <1>1. 0 \in G
    BY DEF Picks
  <1>2. ASSUME NEW n \in G PROVE n + 1 \in G
    <2> SUFFICES ASSUME n + 1 <= k PROVE F[n + 1] \in Seq(Cmd)
      OBVIOUS
    <2>1. n + 1 \in 0..k /\ n + 1 # 0 /\ (n + 1) - 1 = n /\ F[n] \in Seq(Cmd)
      OBVIOUS
    <2>2. F[n + 1] = F[n] \o CmdOnly(s[n + 1])
      BY <2>1 DEF Picks
    <2> QED
      BY <2>1, <2>2, CmdOnlyType
  <1>3. G = Nat
    <2>1. G \in SUBSET Nat
      OBVIOUS
    <2> HIDE DEF G
    <2> QED
      BY <1>1, <1>2, <2>1, SetInduction
  <1> QED
    BY <1>3

LEMMA CmdsType == ASSUME NEW s, Len(s) \in Nat PROVE Cmds(s) \in Seq(Cmd)
  <1>1. PICK F : Picks(s, Len(s), F) /\ Cmds(s) = F[Len(s)]
    BY CmdsPicks
  <1>2. \A n \in 0..Len(s) : F[n] \in Seq(Cmd)
    BY <1>1, PicksType
  <1> QED
    BY <1>1, <1>2

LEMMA CmdsEmpty == Cmds(<<>>) = <<>>
  <1>0. Len(<<>>) = 0
    OBVIOUS
  <1>1. PICK F : Picks(<<>>, Len(<<>>), F) /\ Cmds(<<>>) = F[Len(<<>>)]
    BY <1>0, CmdsPicks
  <1> QED
    BY <1>0, <1>1 DEF Picks

\* A record that is put behind the others is behind their commands, ...
LEMMA CmdsAppend ==
    ASSUME NEW S, NEW s \in Seq(S), NEW c \in S
    PROVE  Cmds(Append(s, c)) = Cmds(s) \o CmdOnly(c)
  <1> DEFINE t == Append(s, c)
  <1>0. /\ Len(s) \in Nat /\ t \in Seq(S) /\ Len(t) = Len(s) + 1
        /\ t[Len(s) + 1] = c /\ \A n \in 1..Len(s) : t[n] = s[n]
    OBVIOUS
  <1> HIDE DEF t
  <1>1. PICK F : Picks(s, Len(s), F) /\ Cmds(s) = F[Len(s)]
    BY <1>0, CmdsPicks
  <1>2. PICK J : Picks(t, Len(t), J) /\ Cmds(t) = J[Len(t)]
    BY <1>0, CmdsPicks
  <1> DEFINE G == {n \in Nat : n <= Len(s) => F[n] = J[n]}
  <1>3. 0 \in G
    BY <1>0, <1>1, <1>2 DEF Picks
  <1>4. ASSUME NEW n \in G PROVE n + 1 \in G
    <2> SUFFICES ASSUME n + 1 <= Len(s) PROVE F[n + 1] = J[n + 1]
      OBVIOUS
    <2>1. n + 1 \in 1..Len(s) /\ n + 1 \in 0..Len(s) /\ n + 1 \in 0..Len(t) /\ n + 1 # 0
          /\ (n + 1) - 1 = n /\ F[n] = J[n]
      BY <1>0
    <2>2. F[n + 1] = F[n] \o CmdOnly(s[n + 1])
      BY <1>1, <2>1 DEF Picks
    <2>3. J[n + 1] = J[n] \o CmdOnly(t[n + 1])
      BY <1>2, <2>1 DEF Picks
    <2> QED
      BY <1>0, <2>1, <2>2, <2>3
  <1>5. G = Nat
    <2>1. G \in SUBSET Nat
      OBVIOUS
    <2> HIDE DEF G
    <2> QED
      BY <1>3, <1>4, <2>1, SetInduction
  <1>6. F[Len(s)] = J[Len(s)]
    BY <1>0, <1>5
  <1>7. J[Len(s) + 1] = J[Len(s)] \o CmdOnly(t[Len(s) + 1])
    <2>1. Len(s) + 1 \in 0..Len(t) /\ Len(s) + 1 # 0 /\ (Len(s) + 1) - 1 = Len(s)
      BY <1>0
    <2> QED
      BY <1>2, <2>1 DEF Picks
  <1> QED
    BY <1>0, <1>1, <1>2, <1>6, <1>7 DEF t

\* ... and the one in front is before them.
LEMMA CmdsHead ==
    ASSUME NEW S, NEW s \in Seq(S), s # <<>>
    PROVE  Cmds(s) = CmdOnly(Head(s)) \o Cmds(Tail(s))
  <1> DEFINE t == Tail(s)
             h == CmdOnly(Head(s))
  <1>0. /\ Len(s) \in Nat \ {0} /\ t \in Seq(S) /\ Len(t) = Len(s) - 1 /\ Len(t) \in Nat
        /\ Head(s) = s[1] /\ \A n \in 1..Len(t) : t[n] = s[n + 1]
    OBVIOUS
  <1> HIDE DEF t
  <1>1. PICK F : Picks(s, Len(s), F) /\ Cmds(s) = F[Len(s)]
    BY <1>0, CmdsPicks
  <1>h. h \in Seq(Cmd)
    BY CmdOnlyType
  <1>e. F[1] = <<>> \o h
    <2>1. F[0] = <<>>
      BY <1>0, <1>1 DEF Picks
    <2>2. 1 \in 0..Len(s) /\ 1 # 0 /\ 1 - 1 = 0
      BY <1>0
    <2> QED
      BY <1>0, <1>1, <2>1, <2>2 DEF Picks
  <1> HIDE DEF h
  <1>2. PICK J : Picks(t, Len(t), J) /\ Cmds(t) = J[Len(t)]
    BY <1>0, CmdsPicks
  <1>j. \A n \in 0..Len(t) : J[n] \in Seq(Cmd)
    BY <1>0, <1>2, PicksType
  <1> DEFINE G == {n \in Nat : n <= Len(t) => F[n + 1] = h \o J[n]}
  <1>3. 0 \in G
    <2>1. J[0] = <<>>
      BY <1>0, <1>2 DEF Picks
    <2> QED
      BY <1>e, <1>h, <2>1
  <1>4. ASSUME NEW n \in G PROVE n + 1 \in G
    <2> SUFFICES ASSUME n + 1 <= Len(t) PROVE F[n + 2] = h \o J[n + 1]
      OBVIOUS
    <2>1. n + 1 \in 1..Len(t) /\ n + 2 \in 0..Len(s) /\ n + 1 \in 0..Len(t) /\ n + 1 # 0
          /\ n + 2 # 0 /\ (n + 1) - 1 = n /\ (n + 2) - 1 = n + 1 /\ (n + 1) + 1 = n + 2
          /\ F[n + 1] = h \o J[n] /\ n \in 0..Len(t)
      BY <1>0
    <2>2. F[n + 2] = F[n + 1] \o CmdOnly(s[n + 2])
      BY <1>1, <2>1 DEF Picks
    <2>3. J[n + 1] = J[n] \o CmdOnly(t[n + 1])
      BY <1>2, <2>1 DEF Picks
    <2>4. CmdOnly(t[n + 1]) = CmdOnly(s[n + 2])
      BY <1>0, <2>1
    <2>5. (h \o J[n]) \o CmdOnly(s[n + 2]) = h \o (J[n] \o CmdOnly(s[n + 2]))
      <3>1. J[n] \in Seq(Cmd) /\ CmdOnly(s[n + 2]) \in Seq(Cmd)
        BY <1>j, <2>1, CmdOnlyType
      <3>2. \A x, y, z \in Seq(Cmd) : (x \o y) \o z = x \o (y \o z)
        BY ConcatAssociative
      <3> QED
        BY <1>h, <3>1, <3>2, Zenon
    <2> QED
      BY <2>1, <2>2, <2>3, <2>4, <2>5
  <1>5. G = Nat
    <2>1. G \in SUBSET Nat
      OBVIOUS
    <2> HIDE DEF G
    <2> QED
      BY <1>3, <1>4, <2>1, SetInduction
  <1>6. F[Len(t) + 1] = h \o J[Len(t)]
    <2>1. Len(t) \in G
      BY <1>0, <1>5, Zenon
    <2> QED
      BY <1>0, <2>1
  <1>7. Len(t) + 1 = Len(s)
    BY <1>0
  <1> QED
    BY <1>1, <1>2, <1>6, <1>7 DEF t, h

\* What remains when one of two parts of a queue is gone.
LEMMA ConcatParts ==
    ASSUME NEW S, NEW u \in Seq(S), NEW v \in Seq(S), NEW w, w = u \o v
    PROVE  /\ u = SubSeq(w, 1, Len(u)) /\ v = SubSeq(w, Len(u) + 1, Len(w))
           /\ 1 \in 1..Len(w) + 1 /\ Len(u) + 1 \in 1..Len(w) + 1
           /\ Len(u) \in 0..Len(w) /\ Len(w) \in 0..Len(w)
  <1>0. /\ Len(u) \in Nat /\ Len(v) \in Nat /\ Len(w) = Len(u) + Len(v) /\ w \in Seq(S)
        /\ \A n \in 1..Len(w) : w[n] = IF n <= Len(u) THEN u[n] ELSE v[n - Len(u)]
    BY ConcatProperties
  <1>1. u = SubSeq(w, 1, Len(u))
    BY <1>0
  <1>2. v = SubSeq(w, Len(u) + 1, Len(w))
    BY <1>0
  <1> QED
    BY <1>0, <1>1, <1>2

Queue == Cmds(wire) \o ring

\* Every step puts one command in at the end, leaves the queue as it is, or leaves
\* one contiguous part of it.
LEMMA QueueStep ==
    ASSUME Parts, [Next]_vars
    PROVE  \/ Queue' = Queue
           \/ \E x \in Cmd : Queue' = Append(Queue, x)
           \/ \E i \in 1..Len(Queue) + 1, n \in 0..Len(Queue) :
                  Queue' = SubSeq(Queue, i, Len(Queue) - n)
  <1> DEFINE Same == Queue' = Queue
             Put == \E x \in Cmd : Queue' = Append(Queue, x)
             Cut == \E i \in 1..Len(Queue) + 1, n \in 0..Len(Queue) :
                        Queue' = SubSeq(Queue, i, Len(Queue) - n)
             W == Cmds(wire)
  <1>t. ring \in Seq(Cmd) /\ wire \in Seq(Records) /\ W \in Seq(Cmd)
    <2>1. ring \in Seq(Cmd) /\ wire \in Seq(Records)
      BY DEF Parts, RingOK, StreamOK, Records
    <2>2. Len(wire) \in Nat
      BY <2>1
    <2> QED
      BY <2>1, <2>2, CmdsType
  <1>a. \A x, y, z \in Seq(Cmd) : (x \o y) \o z = x \o (y \o z)
    BY ConcatAssociative
  <1>c. \A x \in Seq(Cmd) : x \o <<>> = x /\ <<>> \o x = x
    BY ConcatEmptySeq
  <1>p. ASSUME NEW u \in Seq(Cmd), NEW v \in Seq(Cmd), Queue = u \o v,
               Queue' = u \/ Queue' = v
        PROVE  Cut
    <2>1. /\ u = SubSeq(Queue, 1, Len(u)) /\ v = SubSeq(Queue, Len(u) + 1, Len(Queue))
          /\ 1 \in 1..Len(Queue) + 1 /\ Len(u) + 1 \in 1..Len(Queue) + 1
          /\ Len(u) \in 0..Len(Queue) /\ Len(Queue) \in 0..Len(Queue)
      BY <1>p, ConcatParts
    <2>2. Len(u) \in Nat /\ Len(Queue) \in Nat
      BY <1>p, <1>t DEF Queue
    <2>3. /\ Len(Queue) - Len(u) \in 0..Len(Queue) /\ 0 \in 0..Len(Queue)
          /\ Len(Queue) - (Len(Queue) - Len(u)) = Len(u) /\ Len(Queue) - 0 = Len(Queue)
      BY <2>1, <2>2
    <2>4. CASE Queue' = u
      BY <2>1, <2>3, <2>4
    <2>5. CASE Queue' = v
      BY <2>1, <2>3, <2>5
    <2> QED
      BY <1>p, <2>4, <2>5
  <1>1. ASSUME UNCHANGED <<wire, ring>> PROVE Same
    BY <1>1 DEF Queue
  <1>2. ASSUME NEW c \in Cmd, PushEntry(c), UNCHANGED wire PROVE Same \/ Put
    <2>1. CASE ring' = ring
      BY <1>1, <1>2, <2>1
    <2>2. CASE ring' = Append(ring, c)
      <3>1. W \o Append(ring, c) = Append(W \o ring, c)
        BY <1>t
      <3> QED
        BY <1>2, <2>2, <3>1 DEF Queue
    <2> QED
      BY <1>2, <2>1, <2>2 DEF PushEntry
  <1>3. ASSUME Producers PROVE Same \/ Put
    <2>1. UNCHANGED wire
      BY <1>3 DEF Producers, Push, Key, TestConnected, Enqueue, Release, Capture, Grab, ViewFree,
                  Front, Back, link
    <2>2. UNCHANGED ring \/ \E c \in Cmd : PushEntry(c)
      <3>1. "KEYS_UP" \in Cmd
        BY DEF Cmd
      <3> QED
        BY <1>3, <3>1 DEF Producers, Push, Key, TestConnected, Enqueue, Release, Capture, Grab,
                    ViewFree, Front, Back, PushKeysUp
    <2> QED
      BY <1>1, <1>2, <2>1, <2>2
  <1>4. ASSUME NEW c \in {"HELLO", "EOF"}, wire' = Append(wire, c), UNCHANGED ring PROVE Same
    <2>1. CmdOnly(c) = <<>> /\ c \in Records
      BY DEF CmdOnly, Cmd, Records
    <2>2. Cmds(wire') = W
      <3>1. Cmds(Append(wire, c)) = W \o CmdOnly(c)
        BY <1>t, <2>1, CmdsAppend
      <3> QED
        BY <1>t, <1>c, <1>4, <2>1, <3>1
    <2> QED
      BY <1>4, <2>2 DEF Queue
  <1>5. ASSUME Drain PROVE Same
    <2>1. ring # <<>> /\ wire' = Append(wire, Head(ring)) /\ ring' = Tail(ring)
      BY <1>5 DEF Drain
    <2>2. Head(ring) \in Cmd /\ Tail(ring) \in Seq(Cmd) /\ ring = <<Head(ring)>> \o Tail(ring)
          /\ <<Head(ring)>> \in Seq(Cmd)
      BY <1>t, <2>1
    <2>3. Cmds(wire') = W \o <<Head(ring)>>
      BY <1>t, <2>1, <2>2, CmdsAppend DEF CmdOnly, Records
    <2>4. (W \o <<Head(ring)>>) \o Tail(ring) = W \o ring
      BY <1>t, <1>a, <2>2
    <2> QED
      BY <2>1, <2>3, <2>4 DEF Queue
  <1>6. ASSUME Connector \/ LinkError PROVE Same \/ Cut
    <2>1. CASE Connect
      BY <1>4, <2>1 DEF Connect
    <2>2. CASE Close
      <3>1. CASE hup
        BY <1>1, <2>2, <3>1 DEF Close
      <3>2. CASE ~hup
        BY <1>4, <2>2, <3>2 DEF Close
      <3> QED
        BY <3>1, <3>2
    <2>3. CASE Flush
      <3>1. Queue' = W
        BY <1>t, <1>c, <2>3 DEF Flush, Queue
      <3> QED
        BY <1>t, <1>p, <3>1 DEF Queue
    <2>4. CASE HandleEvt \/ HangUp \/ LinkError \/ DropConnected \/ DropView \/ DropCapture
      BY <1>1, <2>4
      DEF HandleEvt, HangUp, LinkError, DropConnected, DropView, DropCapture
    <2> QED
      BY <1>5, <1>6, <2>1, <2>2, <2>3, <2>4 DEF Connector
  <1>7. ASSUME HandleCmd PROVE Cut
    <2> DEFINE h == CmdOnly(Head(wire))
               V == Cmds(Tail(wire))
    <2>1. wire # <<>> /\ wire' = Tail(wire) /\ ring' = ring
      BY <1>7 DEF HandleCmd
    <2>2. h \in Seq(Cmd) /\ V \in Seq(Cmd)
      <3>1. Len(Tail(wire)) \in Nat
        BY <1>t, <2>1
      <3> QED
        BY <3>1, CmdOnlyType, CmdsType
    <2>3. W = h \o V
      BY <1>t, <2>1, CmdsHead
    <2>4. Queue' = V \o ring /\ V \o ring \in Seq(Cmd)
      BY <1>t, <2>1, <2>2 DEF Queue
    <2> HIDE DEF h, V
    <2>5. Queue = h \o (V \o ring)
      <3>1. (h \o V) \o ring = h \o (V \o ring)
        BY <1>t, <1>a, <2>2
      <3> QED
        BY <2>3, <3>1 DEF Queue
    <2> QED
      BY <1>p, <2>2, <2>4, <2>5
  <1>8. ASSUME Die PROVE Cut
    <2>1. Queue' = ring
      BY <1>t, <1>c, <1>8, CmdsEmpty DEF Die, Queue
    <2> QED
      BY <1>t, <1>p, <2>1 DEF Queue
  <1>9. ASSUME Restart \/ UNCHANGED vars PROVE Same
    BY <1>1, <1>9 DEF Restart, vars, link
  <1> QED
    BY <1>3, <1>6, <1>7, <1>8, <1>9 DEF Next

\* From push_entry to handle_cmd, through the ring and the socket, over every
\* session, death of psdos and flushed ring: the commands are handled in the order
\* in which they were queued, none twice and none that was not queued.
THEOREM CommandsInOrder == Spec => Ordered
  <1>1. Init => InOrder!Init
    BY CmdsEmpty DEF Init, InOrder!Init
  <1>2. Parts /\ [Next]_vars => [InOrder!Next]_(Cmds(wire) \o ring)
    BY QueueStep DEF Queue, InOrder!Next, InOrder!Put, InOrder!Shrink
  <1>3. Parts /\ [Next]_vars => Parts'
    <2> SUFFICES ASSUME Parts, [Next]_vars PROVE Parts'
      OBVIOUS
    <2>1. CASE UNCHANGED vars
      BY <2>1 DEF vars, link, Parts, RingOK, TodoOK, StreamOK
    <2> QED
      BY <2>1, ProducersKeep, ConnectorKeeps, DosKeeps DEF Next
  <1> QED
    BY <1>1, <1>2, <1>3, PartsInit, PTL DEF Spec, Ordered, InOrder!Spec
=============================================================================
