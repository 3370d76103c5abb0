------------------------------ MODULE PsdosLink ------------------------------
(***************************************************************************)
(* The emulator's link to psdos, the DOS service: the command ring, the    *)
(* sessions of the connector thread and the routing of the real input      *)
(* (dos/psdos_client.c), against psdos itself (psdos.c), which may die and *)
(* be started again.                                                       *)
(*                                                                         *)
(*   cpu, usb   the CPU thread (NatFeat calls, real IKBD bytes) and the USB*)
(*              input thread, which call the client's functions;           *)
(*   conn       the connector thread: connect, session, tear-down, again;  *)
(*   dos        psdos, one client at a time.                               *)
(*                                                                         *)
(* A call is the sequence of its atomic steps: one access to a flag, or one*)
(* hold of g_prod.  The stream psdos reads is one sequence: a connection it*)
(* has not accepted yet is behind the end of the one it serves.            *)
(***************************************************************************)
EXTENDS Integers, Sequences

CONSTANTS
    RingN,      \* RING_N, entries of the command ring
    WireN,      \* records the socket holds before a send blocks
    MaxFault,   \* bound on the deaths of psdos and failures of the link
    KeyThreads  \* threads with a captured keyboard: the IKBD's is "cpu"

ASSUME SizesAssumption ==
    RingN \in Nat \ {0} /\ WireN \in Nat \ {0} /\ MaxFault \in Nat
ASSUME ThreadsAssumption == KeyThreads \subseteq {"cpu", "usb"}

VARIABLES
    ring,       \* g_ring between tail and head
    flag,       \* g_connected, g_view_ready, g_capture, g_focus
    todo,       \* per thread, the steps its call has still to make
    conn,       \* where the connector is
    hup,        \* the connection of this session hung up
    wire,       \* the stream psdos reads
    evts,       \* the events psdos sent to this session
    dos,        \* psdos: its process, the game and what is held
    faults,     \* deaths and failures so far
    refused     \* the last KEYS_UP found the ring full (for properties)

link == <<conn, hup, wire, evts>>
vars == <<ring, flag, todo, link, dos, faults, refused>>

Threads == {"cpu", "usb"}

\* Commands.  DOWN stands for keys, mouse buttons and the ST keyboard, PAD for a
\* report of a pad, each with something pressed (what a release does to the game
\* KEYS_UP does as well).  STATE without focus is a KEYS_UP to psdos.  The keys
\* DOSGEM itself sends while nothing is captured (psdos_key_gem) are left out.
Cmd == {"VIEW_NEW", "VIEW_FREE", "LOAD", "DOWN", "PAD", "KEYS_UP"}

-----------------------------------------------------------------------------
(* The producers.  A call begins with its first access: a test that ends it at *)
(* once is not a step.                                                         *)

Idle(t) == todo[t] = <<>>
At(t, s) == todo[t] # <<>> /\ Head(todo[t]) = s
Then(t, steps) == todo' = [todo EXCEPT ![t] = steps]
GoOn(t) == todo' = [todo EXCEPT ![t] = Tail(@)]

\* Mutant: the head is advanced without looking at the tail.
MutPushEntry(c) == ring' = Append(ring, c)

\* push_entry: refused with BUSY when the ring is full.
PushEntry(c) == ring' = IF Len(ring) < RingN THEN Append(ring, c) ELSE ring

\* A KEYS_UP goes into the ring, if there is room.
PushKeysUp ==
    /\ PushEntry("KEYS_UP")
    /\ refused' = (Len(ring) >= RingN)

\* push and push_pad: the connection is tested before the lock is taken.
\* DOSGEM (external) asks for a view, or for another size of it (VIEW_SIZE, which
\* psdos answers in the same way), one at a time; it loads only in a view.
Asked ==
    \/ \E i \in 1..Len(ring) : ring[i] = "VIEW_NEW"
    \/ \E i \in 1..Len(wire) : wire[i] = "VIEW_NEW"
    \/ \E i \in 1..Len(evts) : evts[i] = "VIEW"

Push(t) ==
    /\ Idle(t) /\ flag.connected
    /\ \/ t = "cpu" /\ ~Asked /\ Then(t, <<"VIEW_NEW">>)
       \/ t = "cpu" /\ flag.view /\ Then(t, <<"LOAD">>)
       \/ t = "usb" /\ Then(t, <<"PAD">>)
    /\ UNCHANGED <<ring, flag, link, dos, faults, refused>>

\* psdos_wants_input, asked by kbd_usb.c: otherwise the key is the Atari's.
Wanted == flag.capture /\ flag.focus /\ flag.connected /\ flag.view

\* A key is pressed, on either thread.
Key(t) ==
    /\ Idle(t) /\ t \in KeyThreads
    /\ Wanted
    /\ Then(t, <<"connected?", "DOWN">>)
    /\ UNCHANGED <<ring, flag, link, dos, faults, refused>>

\* push_input and the later calls of push test the connection here.
TestConnected(t) ==
    /\ At(t, "connected?")
    /\ IF flag.connected THEN GoOn(t) ELSE Then(t, <<>>)
    /\ UNCHANGED <<ring, flag, link, dos, faults, refused>>

\* Mutant: the capture that psdos_wants_input saw is not asked for again.
MutAllowed(c) == c = "PAD" => flag.connected /\ flag.view /\ flag.focus

\* Under the lock: input only while captured, a pad only while pads_wanted.
Allowed(c) ==
    /\ c = "DOWN" => flag.capture
    /\ c = "PAD" => flag.connected /\ flag.view /\ flag.focus

Enqueue(t) ==
    /\ \E c \in Cmd :
         /\ At(t, c)
         /\ IF Allowed(c) THEN PushEntry(c) ELSE UNCHANGED ring
    /\ GoOn(t)
    /\ UNCHANGED <<flag, link, dos, faults, refused>>

\* psdos_set_capture(1) tests for something to give the input to ...
Capture ==
    /\ Idle("cpu") /\ ~flag.capture
    /\ flag.connected /\ flag.view /\ flag.focus
    /\ Then("cpu", <<"grab">>)
    /\ UNCHANGED <<ring, flag, link, dos, faults, refused>>

\* ... and then takes the lock.
Grab ==
    /\ At("cpu", "grab")
    /\ flag' = [flag EXCEPT !.capture = TRUE]
    /\ GoOn("cpu")
    /\ UNCHANGED <<ring, link, dos, faults, refused>>

\* psdos_set_capture(0), on its own (a release key, or a capture with no target)
\* or as a step of another call.
Release(t) ==
    /\ \/ t \in KeyThreads /\ Idle(t) /\ flag.capture /\ UNCHANGED todo
       \/ At(t, "release") /\ GoOn(t)
    /\ flag' = [flag EXCEPT !.capture = FALSE]
    /\ IF flag.capture /\ flag.connected THEN PushKeysUp ELSE UNCHANGED <<ring, refused>>
    /\ UNCHANGED <<link, dos, faults>>

\* psdos_cmd(VIEW_FREE).
ViewFree ==
    /\ Idle("cpu") /\ flag.view
    /\ flag' = [flag EXCEPT !.view = FALSE]
    /\ Then("cpu", <<"release", "connected?", "VIEW_FREE">>)
    /\ UNCHANGED <<ring, link, dos, faults, refused>>

\* psdos_set_focus(1), for a STATE with the window in front.
Front ==
    /\ Idle("cpu") /\ ~flag.focus
    /\ flag' = [flag EXCEPT !.focus = TRUE]
    /\ UNCHANGED <<ring, todo, link, dos, faults, refused>>

\* psdos_set_focus(0): "pads held at the switch"; then the capture goes, then
\* the STATE is pushed.
Back ==
    /\ Idle("cpu") /\ flag.focus
    /\ flag' = [flag EXCEPT !.focus = FALSE]
    /\ IF flag.connected /\ ~flag.capture THEN PushKeysUp ELSE UNCHANGED <<ring, refused>>
    /\ Then("cpu", <<"release", "connected?", "KEYS_UP">>)
    /\ UNCHANGED <<link, dos, faults>>

Producers ==
    \/ \E t \in Threads : Push(t) \/ Key(t) \/ TestConnected(t) \/ Enqueue(t) \/ Release(t)
    \/ Capture \/ Grab \/ ViewFree \/ Front \/ Back

-----------------------------------------------------------------------------
(* The connector *)

\* connect() succeeds when psdos listens; session() sends its HELLO.
Connect ==
    /\ conn = "down" /\ dos.alive
    /\ conn' = "session"
    /\ wire' = Append(wire, "HELLO")
    /\ UNCHANGED <<ring, flag, todo, hup, evts, dos, faults, refused>>

\* Mutant: the tail is not advanced; the record is sent again.
MutDrain ==
    /\ conn = "session" /\ ~hup /\ flag.connected
    /\ ring # <<>> /\ Len(wire) < WireN
    /\ wire' = Append(wire, Head(ring))
    /\ UNCHANGED <<ring, flag, todo, conn, hup, evts, dos, faults, refused>>

\* drain_ring, one record; send_all waits while the socket is full.
Drain ==
    /\ conn = "session" /\ ~hup /\ flag.connected
    /\ ring # <<>> /\ Len(wire) < WireN
    /\ wire' = Append(wire, Head(ring))
    /\ ring' = Tail(ring)
    /\ UNCHANGED <<flag, todo, conn, hup, evts, dos, faults, refused>>

\* handle_evt.  HELLO: the surface is mapped, the link is up; VIEW: ready.
HandleEvt ==
    /\ conn = "session" /\ ~hup /\ evts # <<>>
    /\ flag' = IF Head(evts) = "HELLO" THEN [flag EXCEPT !.connected = TRUE]
               ELSE [flag EXCEPT !.view = TRUE]
    /\ evts' = Tail(evts)
    /\ UNCHANGED <<ring, todo, conn, hup, wire, dos, faults, refused>>

\* Mutant: POLLHUP is not looked at; only a failing send ends the session.
MutHangUp ==
    /\ conn = "session" /\ hup /\ flag.connected /\ ring # <<>>
    /\ conn' = "drop connected"
    /\ UNCHANGED <<ring, flag, todo, hup, wire, evts, dos, faults, refused>>

\* session() returns: poll reports the hang-up, or a send fails.
HangUp ==
    /\ conn = "session" /\ hup
    /\ conn' = "drop connected"
    /\ UNCHANGED <<ring, flag, todo, hup, wire, evts, dos, faults, refused>>

\* session() returns with psdos alive: a read fails, a record is malformed.
LinkError ==
    /\ conn = "session" /\ ~hup /\ faults < MaxFault
    /\ faults' = faults + 1
    /\ conn' = "drop connected"
    /\ UNCHANGED <<ring, flag, todo, hup, wire, evts, dos, refused>>

\* The tear-down in connector(), access by access.
DropConnected ==
    /\ conn = "drop connected" /\ conn' = "drop view"
    /\ flag' = [flag EXCEPT !.connected = FALSE]
    /\ UNCHANGED <<ring, todo, hup, wire, evts, dos, faults, refused>>

DropView ==
    /\ conn = "drop view" /\ conn' = "drop capture"
    /\ flag' = [flag EXCEPT !.view = FALSE]
    /\ UNCHANGED <<ring, todo, hup, wire, evts, dos, faults, refused>>

DropCapture ==
    /\ conn = "drop capture" /\ conn' = "close"
    /\ flag' = [flag EXCEPT !.capture = FALSE]
    /\ UNCHANGED <<ring, todo, hup, wire, evts, dos, faults, refused>>

\* psdos reads what it was sent up to the end; what it sends is lost.
Close ==
    /\ conn = "close" /\ conn' = "flush"
    /\ wire' = IF hup THEN wire ELSE Append(wire, "EOF")
    /\ evts' = <<>> /\ hup' = FALSE
    /\ UNCHANGED <<ring, flag, todo, dos, faults, refused>>

\* "what was queued is stale"
Flush ==
    /\ conn = "flush" /\ conn' = "down"
    /\ ring' = <<>> /\ refused' = FALSE
    /\ UNCHANGED <<flag, todo, hup, wire, evts, dos, faults>>

Connector ==
    \/ Connect \/ Drain \/ HandleEvt \/ HangUp
    \/ DropConnected \/ DropView \/ DropCapture \/ Close \/ Flush

-----------------------------------------------------------------------------
(* psdos *)

Quiet == [alive |-> TRUE, loaded |-> FALSE, keys |-> FALSE, pads |-> FALSE]

\* An event goes to the client that is served now: nowhere, when that one has
\* closed its end.  sendmsg waits while the socket is full.
Tell(e) ==
    IF \E i \in 1..Len(wire) : wire[i] = "EOF" THEN UNCHANGED evts
    ELSE Len(evts) < WireN /\ evts' = Append(evts, e)

\* What a record does to the game and to what is held.  LOAD runs the game in a
\* fresh process; a client that is gone takes its view along (view_free).
Effect(c, d) ==
    CASE c \in {"VIEW_FREE", "EOF"} -> Quiet
      [] c = "LOAD" -> [Quiet EXCEPT !.loaded = TRUE]
      [] c = "KEYS_UP" -> [d EXCEPT !.keys = FALSE, !.pads = FALSE]
      [] c = "DOWN" -> [d EXCEPT !.keys = TRUE]
      [] c = "PAD" -> [d EXCEPT !.pads = TRUE]
      [] OTHER -> d

\* client_parse and handle_cmd (client_drop at the end of the stream, accept at
\* its beginning).
HandleCmd ==
    /\ dos.alive /\ wire # <<>>
    /\ wire' = Tail(wire)
    /\ dos' = Effect(Head(wire), dos)
    /\ CASE Head(wire) = "HELLO" -> Tell("HELLO")
         [] Head(wire) = "VIEW_NEW" -> Tell("VIEW")
         [] OTHER -> UNCHANGED evts
    /\ UNCHANGED <<ring, flag, todo, conn, hup, faults, refused>>

\* psdos dies; the kernel closes its sockets.  The session sees the hang-up
\* before the events it has not read.
Die ==
    /\ dos.alive /\ faults < MaxFault
    /\ faults' = faults + 1
    /\ dos' = [Quiet EXCEPT !.alive = FALSE]
    /\ wire' = <<>> /\ evts' = <<>>
    /\ hup' = (conn \notin {"down", "flush"})
    /\ UNCHANGED <<ring, flag, todo, conn, refused>>

\* The service manager starts it again.
Restart ==
    /\ ~dos.alive
    /\ dos' = Quiet
    /\ UNCHANGED <<ring, flag, todo, link, faults, refused>>

-----------------------------------------------------------------------------
Init ==
    /\ ring = <<>>
    /\ flag = [connected |-> FALSE, view |-> FALSE, capture |-> FALSE, focus |-> FALSE]
    /\ todo = [t \in Threads |-> <<>>]
    /\ conn = "down" /\ hup = FALSE /\ wire = <<>> /\ evts = <<>>
    /\ dos = Quiet /\ faults = 0 /\ refused = FALSE

Next ==
    \/ Producers
    \/ Connector \/ LinkError
    \/ HandleCmd \/ Die \/ Restart

Spec == Init /\ [][Next]_vars

\* The threads run; psdos reads its socket and is started again when it died.
FairSpec ==
    /\ Spec
    /\ WF_vars(Connector) /\ WF_vars(HandleCmd) /\ WF_vars(Restart)

-----------------------------------------------------------------------------
(* Properties *)

\* Every variable keeps its type, the ring its size.
TypeOK ==
    /\ ring \in Seq(Cmd) /\ Len(ring) <= RingN
    /\ flag \in [connected : BOOLEAN, view : BOOLEAN, capture : BOOLEAN, focus : BOOLEAN]
    /\ todo \in [Threads -> Seq(Cmd \cup {"connected?", "grab", "release"})]
    /\ conn \in {"down", "session", "drop connected", "drop view", "drop capture",
                 "close", "flush"}
    /\ hup \in BOOLEAN /\ refused \in BOOLEAN
    /\ wire \in Seq(Cmd \cup {"HELLO", "EOF"}) /\ evts \in Seq({"HELLO", "VIEW"})
    /\ dos \in [alive : BOOLEAN, loaded : BOOLEAN, keys : BOOLEAN, pads : BOOLEAN]
    /\ faults \in 0..MaxFault

\* What the records of s make of psdos in state d, and psdos once it has handled
\* everything that is on its way to it.
Settle(s, d) ==
    LET H[n \in 0..Len(s)] == IF n = 0 THEN d ELSE Effect(s[n], H[n - 1])
    IN H[Len(s)]

Settled == Settle(ring, Settle(wire, dos))

\* "so no key-down can land after the KEYS_UP", "nothing stays held": in a
\* session, when the capture has been let go, no key is down in the game once
\* psdos has caught up; and no pad, when the window is not in front either.
\* The exception the code makes is a KEYS_UP refused by a full ring.
NothingStaysHeld ==
    conn = "session" /\ flag.connected /\ ~flag.capture /\ ~refused /\ Settled.loaded =>
        /\ ~Settled.keys
        /\ ~flag.focus => ~Settled.pads

\* The link comes back after psdos has died or the link has failed.
LinkRecovers == []<>(flag.connected)

\* From the ring to psdos, over however many sessions, commands keep their
\* order and none is handled twice.
CmdOnly(c) == IF c \in Cmd THEN <<c>> ELSE <<>>
Cmds(s) ==
    LET F[n \in 0..Len(s)] == IF n = 0 THEN <<>> ELSE F[n - 1] \o CmdOnly(s[n])
    IN F[Len(s)]

InOrder == INSTANCE OrderedLoss WITH Item <- Cmd, q <- Cmds(wire) \o ring
Ordered == InOrder!Spec
=============================================================================
