----------------------------- MODULE PistormNet -----------------------------
(***************************************************************************)
(* The network device (pistorm_net.c) with its SLIRP and TAP backends and  *)
(* the NatFeat calls of the guest's driver (nf_call_ethernet).             *)
(*                                                                         *)
(*   main   start-up and shutdown, before and after the CPU thread;        *)
(*   cpu    the CPU thread, making the guest's NatFeat calls;              *)
(*   rx     the backend's thread.                                          *)
(*                                                                         *)
(* Two mutexes: g_net.lock, and the SLIRP backend's ctx->lock.  A section  *)
(* that takes and gives back g_net.lock is one step, which waits while     *)
(* another thread holds it.  A frame is its number; statistics are left    *)
(* out.                                                                    *)
(***************************************************************************)
EXTENDS Naturals

CONSTANTS
    Backends,   \* backends the configuration may name
    MaxFrame,   \* bound on the frames that arrive
    MaxReset    \* bound on the resets of the guest

ASSUME BackendsAssumption == Backends \subseteq {"slirp", "tap"}
ASSUME BoundsAssumption == MaxFrame \in Nat /\ MaxReset \in Nat

VARIABLES
    dev,        \* [enabled, link, backend, tx_busy] of g_net
    rx,         \* [ready, frame]: the one receive buffer
    lock,       \* [net, ctx]: who holds g_net.lock and ctx->lock
    main,       \* where the main thread is
    tx,         \* where the CPU thread is in pistorm_net_write_frame
    driver,     \* [at, got]: the guest's driver, and the frame it has read
    thread,     \* where the backend's thread is
    calling,    \* the frame each thread is in pnet_backend_rx with, 0 for none
    irq,        \* the guest's handler is due
    kind,       \* the backend that is configured
    arrived,    \* frames so far
    resets      \* resets of the guest so far

vars == <<dev, rx, lock, main, tx, driver, thread, calling, irq, kind, arrived, resets>>

Free == "nobody"

NetFree == lock.net = Free

-----------------------------------------------------------------------------
(* The main thread *)

\* pistorm_net_init up to the choice of the backend.
Configure ==
    /\ main = "start" /\ NetFree
    /\ main' = "open"
    /\ dev' = [enabled |-> TRUE, link |-> FALSE, backend |-> "none", tx_busy |-> FALSE]
    /\ rx' = [ready |-> FALSE, frame |-> 0]
    /\ UNCHANGED <<lock, tx, driver, thread, calling, irq, kind, arrived, resets>>

\* The backend's thread runs before pistorm_net_init knows of it.
Open ==
    /\ main = "open" /\ main' = "link"
    /\ thread' = "idle"
    /\ UNCHANGED <<dev, rx, lock, tx, driver, calling, irq, kind, arrived, resets>>

\* No device, no library: the emulator runs without a link.
OpenFails ==
    /\ main = "open" /\ main' = "run"
    /\ UNCHANGED <<dev, rx, lock, tx, driver, thread, calling, irq, kind, arrived, resets>>

LinkUp ==
    /\ main = "link" /\ NetFree
    /\ main' = "run"
    /\ dev' = [dev EXCEPT !.backend = kind, !.link = TRUE]
    /\ UNCHANGED <<rx, lock, tx, driver, thread, calling, irq, kind, arrived, resets>>

\* The CPU thread has ended, between two of its calls.
EmulationEnds ==
    /\ main = "run" /\ tx = "no"
    /\ main' = "ended"
    /\ UNCHANGED <<dev, rx, lock, tx, driver, thread, calling, irq, kind, arrived, resets>>

Disabled ==
    /\ dev' = [dev EXCEPT !.enabled = FALSE, !.link = FALSE, !.backend = "none",
                          !.tx_busy = FALSE]
    /\ rx' = [rx EXCEPT !.ready = FALSE]

\* Mutant: the backend is closed before the lock is given back.
MutShutdown ==
    /\ main = "ended" /\ NetFree
    /\ Disabled
    /\ main' = IF dev.backend = "none" THEN "closed" ELSE "join"
    /\ lock' = [lock EXCEPT !.net = "main"]
    /\ UNCHANGED <<tx, driver, thread, calling, irq, kind, arrived, resets>>

\* pistorm_net_shutdown takes the backend under the lock ...
Shutdown ==
    /\ main = "ended" /\ NetFree
    /\ Disabled
    /\ main' = IF dev.backend = "none" THEN "closed" ELSE "join"
    /\ UNCHANGED <<lock, tx, driver, thread, calling, irq, kind, arrived, resets>>

\* Mutant: the thread is not waited for.
MutClose ==
    /\ main = "join" /\ main' = "closed"
    /\ kind = "slirp" => lock.ctx = Free
    /\ UNCHANGED <<dev, rx, lock, tx, driver, thread, calling, irq, kind, arrived, resets>>

\* ... and closes it without: running = 0, join, clean up, free.
Close ==
    /\ main = "join" /\ main' = "closed"
    /\ thread = "gone"
    /\ kind = "slirp" => lock.ctx = Free
    /\ UNCHANGED <<dev, rx, lock, tx, driver, thread, calling, irq, kind, arrived, resets>>

Main == Configure \/ Open \/ OpenFails \/ LinkUp \/ Shutdown \/ Close

-----------------------------------------------------------------------------
(* Frames from the network *)

\* rx_cb is called with a frame.
Arrive(t) ==
    /\ calling[t] = 0 /\ arrived < MaxFrame
    /\ arrived' = arrived + 1
    /\ calling' = [calling EXCEPT ![t] = arrived + 1]

\* Mutant: a frame that has not been taken is overwritten.
MutTakesFrame == dev.enabled

\* A frame is refused when the device is off or the last one is not taken.
TakesFrame == dev.enabled /\ ~rx.ready

\* pnet_backend_rx.  The request for the interrupt may come to nothing.
BackendRx(t) ==
    /\ calling[t] # 0 /\ NetFree
    /\ IF TakesFrame
       THEN rx' = [ready |-> TRUE, frame |-> calling[t]] /\ irq' \in {irq, TRUE}
       ELSE UNCHANGED <<rx, irq>>
    /\ calling' = [calling EXCEPT ![t] = 0]
    /\ UNCHANGED <<dev, lock, main, tx, driver, thread, kind, arrived, resets>>

\* pnet_slirp_thread handles its sockets and timers holding ctx->lock;
\* pnet_tap_thread holds nothing.
ThreadBegin ==
    /\ thread = "idle" /\ main # "join"
    /\ IF kind = "slirp" THEN lock.ctx = Free /\ lock' = [lock EXCEPT !.ctx = "rx"]
       ELSE UNCHANGED lock
    /\ thread' = "busy"
    /\ UNCHANGED <<dev, rx, main, tx, driver, calling, irq, kind, arrived, resets>>

ThreadFrame ==
    /\ thread = "busy"
    /\ Arrive("rx")
    /\ UNCHANGED <<dev, rx, lock, main, tx, driver, thread, irq, kind, resets>>

ThreadEnd ==
    /\ thread = "busy" /\ calling["rx"] = 0
    /\ thread' = "idle"
    /\ lock' = [lock EXCEPT !.ctx = IF @ = "rx" THEN Free ELSE @]
    /\ UNCHANGED <<dev, rx, main, tx, driver, calling, irq, kind, arrived, resets>>

\* running is 0, or the TAP device has failed.
ThreadExits ==
    /\ thread = "idle" /\ (main = "join" \/ kind = "tap")
    /\ thread' = "gone"
    /\ UNCHANGED <<dev, rx, lock, main, tx, driver, calling, irq, kind, arrived, resets>>

Thread == BackendRx("rx") \/ ThreadBegin \/ ThreadEnd \/ (main = "join" /\ ThreadExits)

-----------------------------------------------------------------------------
(* The CPU thread: XIF_WRITEBLOCK *)

Running == main = "run"

\* Mutant: the frame is handed over before the lock is given back.
MutWriteFrame ==
    /\ Running /\ tx = "no" /\ NetFree /\ dev.enabled
    /\ dev' = [dev EXCEPT !.tx_busy = TRUE]
    /\ lock' = [lock EXCEPT !.net = "cpu"]
    /\ tx' = dev.backend
    /\ UNCHANGED <<rx, main, driver, thread, calling, irq, kind, arrived, resets>>

\* pistorm_net_write_frame: a copy of the backend is used without the lock.
WriteFrame ==
    /\ Running /\ tx = "no" /\ NetFree /\ dev.enabled
    /\ dev' = [dev EXCEPT !.tx_busy = TRUE]
    /\ tx' = dev.backend
    /\ UNCHANGED <<rx, lock, main, driver, thread, calling, irq, kind, arrived, resets>>

\* pnet_slirp_send: slirp_input under ctx->lock ...
SlirpSend ==
    /\ tx = "slirp" /\ lock.ctx = Free
    /\ lock' = [lock EXCEPT !.ctx = "cpu"]
    /\ tx' = "input"
    /\ UNCHANGED <<dev, rx, main, driver, thread, calling, irq, kind, arrived, resets>>

\* ... which may answer at once, on this thread ...
SlirpAnswers ==
    /\ tx = "input"
    /\ Arrive("cpu")
    /\ UNCHANGED <<dev, rx, lock, main, tx, driver, thread, irq, kind, resets>>

\* ... and returns.
SlirpSent ==
    /\ tx = "input" /\ calling["cpu"] = 0
    /\ lock' = [lock EXCEPT !.ctx = Free]
    /\ tx' = "sent"
    /\ UNCHANGED <<dev, rx, main, driver, thread, calling, irq, kind, arrived, resets>>

\* pnet_tap_send writes, or there is no backend.
OtherSend ==
    /\ tx \in {"tap", "none"}
    /\ tx' = "sent"
    /\ UNCHANGED <<dev, rx, lock, main, driver, thread, calling, irq, kind, arrived, resets>>

WriteDone ==
    /\ tx = "sent" /\ lock.net \in {Free, "cpu"}
    /\ dev' = [dev EXCEPT !.tx_busy = FALSE]
    /\ lock' = [lock EXCEPT !.net = Free]
    /\ tx' = "no"
    /\ UNCHANGED <<rx, main, driver, thread, calling, irq, kind, arrived, resets>>

-----------------------------------------------------------------------------
(* The CPU thread: the driver's interrupt handler (external) *)

Calls(at) == Running /\ tx = "no" /\ NetFree /\ dev.link /\ driver.at = at

\* The default level is the VBL's, so that the handler runs every frame as well.
Vbl ==
    /\ Running /\ ~irq
    /\ irq' = TRUE
    /\ UNCHANGED <<dev, rx, lock, main, tx, driver, thread, calling, kind, arrived, resets>>

\* XIF_IRQ(0): pistorm_net_rx_pending_mask.
Pending ==
    /\ Calls("idle") /\ irq
    /\ irq' = FALSE
    /\ driver' = [at |-> IF rx.ready THEN "read" ELSE "idle", got |-> 0]
    /\ UNCHANGED <<dev, rx, lock, main, tx, thread, calling, kind, arrived, resets>>

\* XIF_READLENGTH and XIF_READBLOCK: pistorm_net_read_frame.
ReadFrame ==
    /\ Calls("read")
    /\ driver' = [at |-> "ack", got |-> IF rx.ready THEN rx.frame ELSE 0]
    /\ UNCHANGED <<dev, rx, lock, main, tx, thread, calling, irq, kind, arrived, resets>>

\* Mutant: only the length is cleared.
MutAckLen ==
    /\ Calls("ack")
    /\ rx' = [rx EXCEPT !.frame = 0]
    /\ driver' = [at |-> "idle", got |-> 0]
    /\ UNCHANGED <<dev, lock, main, tx, thread, calling, irq, kind, arrived, resets>>

\* Mutant: only the interrupt status is acknowledged.
MutAckRx ==
    /\ Calls("ack")
    /\ driver' = [at |-> "idle", got |-> 0]
    /\ UNCHANGED <<dev, rx, lock, main, tx, thread, calling, irq, kind, arrived, resets>>

\* XIF_IRQ(mask): pistorm_net_ack_rx.
AckRx ==
    /\ Calls("ack")
    /\ rx' = [ready |-> FALSE, frame |-> 0]
    /\ driver' = [at |-> "idle", got |-> 0]
    /\ UNCHANGED <<dev, lock, main, tx, thread, calling, irq, kind, arrived, resets>>

\* The guest is reset: the device is not, and the driver begins anew.
GuestReset ==
    /\ Running /\ tx = "no" /\ driver.at # "idle" /\ resets < MaxReset
    /\ driver' = [at |-> "idle", got |-> 0]
    /\ resets' = resets + 1
    /\ UNCHANGED <<dev, rx, lock, main, tx, thread, calling, irq, kind, arrived>>

Cpu ==
    \/ BackendRx("cpu") \/ SlirpSend \/ SlirpSent \/ OtherSend \/ WriteDone
    \/ Vbl \/ Pending \/ ReadFrame \/ AckRx

-----------------------------------------------------------------------------
Init ==
    /\ dev = [enabled |-> FALSE, link |-> FALSE, backend |-> "none", tx_busy |-> FALSE]
    /\ rx = [ready |-> FALSE, frame |-> 0]
    /\ lock = [net |-> Free, ctx |-> Free]
    /\ main = "start" /\ tx = "no" /\ driver = [at |-> "idle", got |-> 0]
    /\ thread = "none" /\ calling = [t \in {"cpu", "rx"} |-> 0]
    /\ irq = FALSE /\ kind \in Backends /\ arrived = 0 /\ resets = 0

Next ==
    \/ Main \/ EmulationEnds
    \/ BackendRx("rx") \/ ThreadBegin \/ ThreadFrame \/ ThreadEnd \/ ThreadExits
    \/ Cpu \/ WriteFrame \/ SlirpAnswers \/ GuestReset

Spec == Init /\ [][Next]_vars

\* The threads run; a mutex that is given back again and again is had in the
\* end; the guest goes on calling its driver.
FairSpec ==
    /\ Spec
    /\ WF_vars(Main) /\ WF_vars(Thread) /\ SF_vars(SlirpSend) /\ WF_vars(Vbl)
    /\ SF_vars(Pending) /\ SF_vars(ReadFrame) /\ SF_vars(AckRx)
    /\ WF_vars(BackendRx("cpu") \/ SlirpSent \/ OtherSend \/ WriteDone)

-----------------------------------------------------------------------------
(* Properties *)

\* Every variable keeps its type; a frame that is ready has its length.
TypeOK ==
    /\ dev \in [enabled : BOOLEAN, link : BOOLEAN, tx_busy : BOOLEAN,
                backend : {"none", "slirp", "tap"}]
    /\ rx \in [ready : BOOLEAN, frame : 0..MaxFrame]
    /\ rx.ready => rx.frame # 0
    /\ lock \in [net : {Free, "cpu", "main"}, ctx : {Free, "cpu", "rx"}]
    /\ main \in {"start", "open", "link", "run", "ended", "join", "closed"}
    /\ tx \in {"no", "none", "slirp", "tap", "input", "sent"}
    /\ driver \in [at : {"idle", "read", "ack"}, got : 0..MaxFrame]
    /\ thread \in {"none", "idle", "busy", "gone"}
    /\ calling \in [{"cpu", "rx"} -> 0..MaxFrame]
    /\ irq \in BOOLEAN /\ kind \in Backends
    /\ arrived \in 0..MaxFrame /\ resets \in 0..MaxReset

\* The backend is freed only when no thread can be inside it.
FreedAlone ==
    main = "closed" => thread \in {"none", "gone"} /\ lock.ctx = Free /\ tx = "no"

\* The frame that the driver acknowledges is the frame that it read, whatever
\* arrives between the two calls.
AckedWasRead ==
    [][rx.ready /\ ~rx'.ready /\ main' = "run" => driver.got = rx.frame]_vars

\* Sending ends: slirp_input may deliver an answer on the same thread, and the
\* backend's thread may be in the device, but nobody waits for a lock for ever.
WriteReturns == (tx # "no") ~> (tx = "no")

\* A frame is taken in the end though its interrupt request may be lost and the
\* guest be reset, so that the device does not refuse every later frame.
FrameTaken == (rx.ready /\ dev.link) ~> ~rx.ready

\* Shutdown ends, whatever the backend's thread was doing.
ShutdownEnds == (main = "ended") ~> (main = "closed")
=============================================================================
