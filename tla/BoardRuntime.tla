---------------------------- MODULE BoardRuntime ----------------------------
(***************************************************************************)
(* The nRF52840 firmware around the card: start-up and the ownership word, *)
(* the USB interrupt task (priority 3), the timer tick (priority 2) and    *)
(* the worker task (priority 1) that owns the Endpoint, with the CCID pipe *)
(* and the APDU channel between them.  The host, the bus and the channel   *)
(* library are the environment.                                            *)
(*                                                                         *)
(* An interrupt task runs to completion, so each is one action.  The       *)
(* worker is preempted anywhere, so it is a step per access to shared      *)
(* state.  A CCID message fits one USB packet; a reply takes one or two    *)
(* DataBlocks, the last of which may fill its packet and need a            *)
(* zero-length one after it.  What an APDU does is Endpoint's business.    *)
(***************************************************************************)
EXTENDS Naturals, FiniteSets

CONSTANTS
  MaxSeq,      \* bound on the CCID sequence numbers of one USB session
  MaxLosses,   \* bound on bus resets, VBUS losses, supply cuts and resets of a
               \* halted firmware together
  MaxFaults,   \* bound on failed maintenance passes
  Replies,     \* the shapes of a reply: DataBlocks, and whether the last is full
  EnumerationIsSlow \* a host that is plugged in sends its first XfrBlock only after
               \* the worker has gone the few instructions from RESET_PENDING.swap
               \* to take_request: enumeration takes at least 100 ms

ASSUME BoardConstants ==
  /\ MaxSeq \in Nat /\ MaxLosses \in Nat /\ MaxFaults \in Nat
  /\ Replies \subseteq Nat \X BOOLEAN
  /\ EnumerationIsSlow \in BOOLEAN

VARIABLES
  boot,    \* start-up phase, ownership word, persistent storage
  bus,     \* VBUS, usb_started, extension_at, packets from the host
  link,    \* the CCID pipe, the APDU channel and the bulk IN endpoint
  flags,   \* the static AtomicBools
  worker,  \* the worker task: its point in the loop and the request it holds
  host,    \* the host's side of the conversation
  card,    \* the endpoint: the VBUS era it was last reset for
  count    \* sessions, VBUS eras, losses and faults so far, and whether the host
           \* has finished with a request for a fault reset (history)

vars == <<boot, bus, link, flags, worker, host, card, count>>

-----------------------------------------------------------------------------
(* Messages.  A request is named by the session and sequence number it was *)
(* sent under, which is also the name of its reply.                        *)

NoId == <<0, 0>>
NoRequest == [id |-> NoId, era |-> 0, reset |-> FALSE]
NoReply == [id |-> NoId, blocks |-> 0, full |-> FALSE]
NoCommand == [kind |-> "none", seq |-> 0, apdu |-> NoRequest]
NoPacket == [kind |-> "none", seq |-> 0, id |-> NoId, last |-> FALSE, full |-> FALSE]
NoSeq == MaxSeq + 1   \* None

Packet(kind, seq) == [NoPacket EXCEPT !.kind = kind, !.seq = seq]

FreshPipe ==
  [state |-> "Idle", seq |-> 0, outbox |-> NoPacket, sent |-> 0,
   queued |-> FALSE, inflight |-> FALSE, drained |-> FALSE,
   started |-> FALSE, bulk |-> NoSeq, control |-> NoSeq]
FreshEndpoint == [pkt |-> NoPacket, done |-> FALSE]
FreshLink ==
  [pipe |-> FreshPipe, chan |-> [st |-> "Idle", req |-> NoRequest, rsp |-> NoReply],
   in |-> FreshEndpoint]
FreshFlags ==
  [reset |-> FALSE, work |-> FALSE, idle |-> FALSE, faulted |-> FALSE,
   faultReset |-> FALSE]
FreshWorker == [pc |-> "off", req |-> NoRequest, rsp |-> NoReply]
NoHost == [st |-> "gone", seq |-> 0, of |-> NoId, got |-> NoId,
           halves |-> {}, part |-> NoPacket, reset |-> FALSE]

Init ==
  /\ boot = [phase |-> "check", marker |-> "erased", storage |-> "erased"]
  /\ bus = [power |-> TRUE, started |-> FALSE, ext |-> FALSE,
            out |-> NoCommand, ctl |-> NoSeq]
  /\ link = FreshLink
  /\ flags = FreshFlags
  /\ worker = FreshWorker
  /\ host = NoHost
  /\ card = [era |-> 0]
  /\ count = [session |-> 0, era |-> 0, losses |-> 0, faults |-> 0, told |-> FALSE]

Running == boot.phase = "run"

-----------------------------------------------------------------------------
(* The APDU channel: what reset_interchange's request, cancel and          *)
(* take_response leave behind from each state.  A cancelled exchange waits *)
(* for an acknowledgement that the worker never gives.                     *)

ResetInterchange(d) ==
  [d EXCEPT !.chan = [st |-> IF d.chan.st \in {"BuildingResponse", "Canceled"}
                             THEN "Canceled" ELSE "Idle",
                      req |-> NoRequest, rsp |-> NoReply]]

ResetState(d) == ResetInterchange([d EXCEPT !.pipe = FreshPipe])

(* A write succeeds when the IN endpoint is free or the host has read what *)
(* it held; in the second case the completion event is consumed unseen.    *)
EndpointFree(d) == d.in.pkt = NoPacket

MaybeSendPacket_DrainsAtOnce(d) ==
  LET p == d.pipe IN
  IF p.outbox = NoPacket \/ ~EndpointFree(d) THEN d
  ELSE [d EXCEPT
    !.in = [pkt |-> p.outbox, done |-> FALSE],
    !.pipe.drained = @ \/ (p.queued /\ p.state = "Idle" /\ ~p.outbox.full),
    !.pipe.outbox = IF p.outbox.full THEN Packet("zlp", p.outbox.seq) ELSE NoPacket]

MaybeSendPacket(d) ==
  LET p == d.pipe IN
  IF p.outbox = NoPacket \/ ~EndpointFree(d) THEN d
  ELSE [d EXCEPT
    !.in = [pkt |-> p.outbox, done |-> FALSE],
    !.pipe.inflight = @ \/ (p.queued /\ p.state = "Idle" /\ ~p.outbox.full),
    !.pipe.outbox = IF p.outbox.full THEN Packet("zlp", p.outbox.seq) ELSE NoPacket]

SendPacket(d, pkt) ==
  MaybeSendPacket([d EXCEPT
    !.pipe.state = IF d.pipe.outbox # NoPacket THEN "Idle" ELSE @,
    !.pipe.outbox = pkt])

PrimeOutbox(d) ==
  LET sent == d.pipe.sent + 1
      more == sent < d.chan.rsp.blocks
  IN IF d.pipe.outbox # NoPacket \/ d.chan.st # "Responded" THEN ResetState(d)
     ELSE MaybeSendPacket([d EXCEPT
            !.pipe.sent = IF more THEN sent ELSE 0,
            !.pipe.state = IF more THEN "Sending" ELSE "Idle",
            !.pipe.queued = @ \/ ~more,
            !.pipe.outbox = [kind |-> "data", seq |-> d.pipe.seq,
                             id |-> d.chan.rsp.id, last |-> ~more,
                             full |-> more \/ d.chan.rsp.full]])

PollApp(d) ==
  IF d.pipe.state = "Processing" /\ d.chan.st = "Responded"
  THEN PrimeOutbox([d EXCEPT !.pipe.state = "ReadyToSend", !.pipe.sent = 0])
  ELSE d

CheckForAppResponse(d) == MaybeSendPacket(PollApp(d))

SendWaitExtension(d) ==
  IF d.pipe.state = "Processing" THEN SendPacket(d, Packet("extension", d.pipe.seq)) ELSE d

Abort(d) ==
  SendPacket([d EXCEPT !.pipe = [FreshPipe EXCEPT !.seq = d.pipe.seq]],
             Packet("status", d.pipe.seq))

ExpectAbort(d, seq) ==
  IF d.pipe.bulk = seq THEN Abort(d) ELSE [d EXCEPT !.pipe.control = seq]

CallApp(d, apdu) ==
  [d EXCEPT !.chan.st = "Requested", !.chan.req = apdu,
            !.pipe.started = TRUE, !.pipe.state = "Processing"]

HandleTransfer_IgnoresBusy(d, c) ==
  LET fresh == ResetInterchange(d) IN
  CASE d.pipe.state = "Idle" /\ c.kind = "xfr" ->
         IF fresh.chan.st = "Idle" THEN CallApp(fresh, c.apdu) ELSE ResetState(fresh)
    [] d.pipe.state = "Sending" /\ c.kind = "more" -> PrimeOutbox(d)
    [] OTHER -> d

HandleTransfer_UncheckedRequest(d, c) ==
  CASE d.pipe.state = "Idle" /\ c.kind = "xfr" ->
         IF d.chan.st = "Idle" THEN CallApp(d, c.apdu)
         ELSE [d EXCEPT !.pipe.started = TRUE, !.pipe.state = "Processing"]
    [] d.pipe.state = "Sending" /\ c.kind = "more" -> PrimeOutbox(d)
    [] OTHER -> ResetState(d)

HandleTransfer(d, c) ==
  LET fresh == ResetInterchange(d) IN
  CASE d.pipe.state = "Idle" /\ c.kind = "xfr" ->
         IF fresh.chan.st = "Idle" THEN CallApp(fresh, c.apdu) ELSE ResetState(fresh)
    [] d.pipe.state = "Sending" /\ c.kind = "more" -> PrimeOutbox(d)
    [] OTHER -> ResetState(d)

HandlePacket(d0, c) ==
  LET d == [d0 EXCEPT !.pipe.seq = c.seq]
      e == [d EXCEPT !.pipe.bulk = NoSeq]
  IN CASE d.pipe.control # NoSeq ->
            IF c.kind = "abort" /\ d.pipe.control = c.seq THEN Abort(d)
            ELSE SendPacket(d, Packet("refused", c.seq))
       [] d.pipe.control = NoSeq /\ c.kind = "on" -> SendPacket(e, Packet("atr", c.seq))
       [] d.pipe.control = NoSeq /\ c.kind = "abort" -> [e EXCEPT !.pipe.bulk = c.seq]
       [] d.pipe.control = NoSeq /\ c.kind \in {"xfr", "more"} -> HandleTransfer(e, c)

EndpointInComplete(d) ==
  MaybeSendPacket(
    IF d.pipe.inflight
    THEN [d EXCEPT !.pipe.inflight = FALSE, !.pipe.queued = FALSE, !.pipe.drained = TRUE]
    ELSE d)

(* What one poll of the device reports, in the order it is handled: the    *)
(* control request, the OUT packet and the IN completion.                  *)
PollControl(d) == IF bus.ctl # NoSeq THEN ExpectAbort(d, bus.ctl) ELSE d
PollOut(d) == IF bus.out # NoCommand THEN HandlePacket(d, bus.out) ELSE d
FreedIn(d) == IF d.in.done THEN [d EXCEPT !.in = FreshEndpoint] ELSE d

-----------------------------------------------------------------------------
(* Start-up.  The firmware starts with fresh RAM and no USB connection.    *)

Restart(marker, storage) ==
  /\ boot' = [phase |-> "check", marker |-> marker, storage |-> storage]
  /\ bus' = [bus EXCEPT !.started = FALSE, !.ext = FALSE,
                        !.out = NoCommand, !.ctl = NoSeq]
  /\ link' = FreshLink
  /\ flags' = FreshFlags
  /\ worker' = FreshWorker
  /\ host' = NoHost
  /\ card' = [era |-> count.era]

OwnershipMarkerAction_Keeps ==
  IF boot.marker # "erased" /\ boot.storage = "erased" THEN "Storage" ELSE "Keep"

OwnershipMarkerAction ==
  CASE boot.marker = "erased" /\ boot.storage = "erased" -> "ProgramBeforeOpen"
    [] boot.marker # "erased" /\ boot.storage # "erased" -> "Keep"
    [] OTHER -> "Storage"

BootCheck ==
  /\ boot.phase = "check"
  /\ boot' = [boot EXCEPT !.phase = CASE OwnershipMarkerAction = "ProgramBeforeOpen" -> "claim"
                                      [] OwnershipMarkerAction = "Keep" -> "open"
                                      [] OTHER -> "halt"]
  /\ UNCHANGED <<bus, link, flags, worker, host, card, count>>

ProgramOwnershipMarker ==
  /\ boot.phase = "claim"
  /\ boot' = [boot EXCEPT !.phase = "open", !.marker = "programmed"]
  /\ UNCHANGED <<bus, link, flags, worker, host, card, count>>

(* Watchdog, oscillator, missing keys, self-test, key derivation or the    *)
(* marker write itself: start-up ends in the diagnostic loop.              *)
BootHalts ==
  /\ boot.phase \in {"check", "claim"}
  /\ boot' = [boot EXCEPT !.phase = "halt"]
  /\ UNCHANGED <<bus, link, flags, worker, host, card, count>>

(* Opening empty storage commits the initial state; a torn first commit is *)
(* refused.                                                                *)
OpenCard ==
  /\ boot.phase = "open"
  /\ boot' = IF boot.storage = "torn" THEN [boot EXCEPT !.phase = "halt"]
             ELSE [boot EXCEPT !.phase = "run", !.storage = "written"]
  /\ UNCHANGED <<bus, link, flags, worker, host, card, count>>

(* The supply fails: at any moment, and in the middle of programming the   *)
(* ownership word or of the first commit.                                  *)
SupplyCut ==
  /\ count.losses < MaxLosses
  /\ count' = [count EXCEPT !.losses = @ + 1, !.session = @ + 1, !.told = FALSE]
  /\ \E marker \in IF boot.phase = "claim" THEN {"erased", "torn", "programmed"} ELSE {boot.marker},
        storage \in IF boot.phase = "open" /\ boot.storage = "erased"
                    THEN {"erased", "torn", "written"} ELSE {boot.storage} :
       Restart(marker, storage)

(* The diagnostic loop of a start-up that failed splits the APDU channel   *)
(* itself and serves CCID: FAULT_RESET_APDU restarts the firmware when the *)
(* answer has drained, and after a second at the latest.                   *)
HaltedReset ==
  /\ boot.phase = "halt" /\ bus.power
  /\ count.losses < MaxLosses
  /\ count' = [count EXCEPT !.losses = @ + 1, !.session = @ + 1, !.told = FALSE]
  /\ Restart(boot.marker, boot.storage)

-----------------------------------------------------------------------------
(* The USB task.                                                           *)

Spawned(w) == IF w.pc = "off" THEN [w EXCEPT !.pc = "head"] ELSE w

(* The USB hardware does not come up, go down or come back: the interrupt  *)
(* task ends in the diagnostic loop, above the worker's priority and with  *)
(* the APDU channel already split, so nothing runs until the supply is cut.*)
UsbHalts ==
  /\ Running /\ bus.power # bus.started
  /\ boot' = [boot EXCEPT !.phase = "stuck"]
  /\ UNCHANGED <<bus, link, flags, worker, host, card, count>>

(* The driver keeps its busy IN endpoint until the next bus reset.         *)
UsbNoticesLoss ==
  /\ Running /\ ~bus.power /\ bus.started
  /\ bus' = [bus EXCEPT !.started = FALSE, !.ext = FALSE]
  /\ flags' = [flags EXCEPT !.reset = TRUE]
  /\ worker' = Spawned(worker)
  /\ UNCHANGED <<boot, link, host, card, count>>

(* After the poll: restart when a fault-reset answer has drained, or hand  *)
(* the worker what the poll started or finished.                           *)
PollEnd(due, d4, d6) ==
  IF d6.pipe.drained /\ flags.faultReset
  THEN /\ Restart(boot.marker, boot.storage)
       /\ count' = [count EXCEPT !.session = @ + 1, !.told = FALSE]
  ELSE /\ link' = [d6 EXCEPT !.pipe.drained = FALSE]
       /\ bus' = [bus EXCEPT !.started = TRUE, !.out = NoCommand, !.ctl = NoSeq,
            !.ext = d4.pipe.started \/ (@ /\ (due => d4.pipe.state = "Processing"))]
       /\ flags' = [flags EXCEPT !.work = @ \/ d4.pipe.started,
                                 !.idle = @ \/ d6.pipe.drained]
       /\ worker' = IF d4.pipe.started \/ d6.pipe.drained
                    THEN Spawned(worker) ELSE worker
       /\ UNCHANGED <<boot, host, card, count>>

(* A time extension falls due at most when the host has emptied the IN     *)
(* endpoint, 750 ms after the one before.                                  *)
UsbPoll ==
  /\ Running /\ bus.power
  /\ \E d1 \in {CheckForAppResponse(link)} :
     \E d2 \in {PollControl(FreedIn(d1))} :
     \E d3 \in {PollOut(d2)} :
     \E d4 \in {IF d1.in.done THEN EndpointInComplete(d3) ELSE d3} :
     \E due \in BOOLEAN :
     \E d5 \in {IF due THEN SendWaitExtension(d4) ELSE d4} :
     \E d6 \in {CheckForAppResponse([d5 EXCEPT !.pipe.started = FALSE])} :
       /\ due => /\ bus.ext /\ ~d4.pipe.started
                 /\ EndpointFree(d4) /\ d4.pipe.outbox = NoPacket
       /\ PollEnd(due, d4, d6)

Usb == UsbNoticesLoss \/ UsbPoll

Tick_NotForWork ==
  /\ Running
  /\ flags.idle \/ flags.reset
  /\ worker.pc = "off"
  /\ worker' = Spawned(worker)
  /\ UNCHANGED <<boot, bus, link, flags, host, card, count>>

(* The timer tick retries a hand-over that met an exiting worker.          *)
Tick ==
  /\ Running
  /\ flags.work \/ flags.idle \/ flags.reset
  /\ worker.pc = "off"
  /\ worker' = Spawned(worker)
  /\ UNCHANGED <<boot, bus, link, flags, host, card, count>>

-----------------------------------------------------------------------------
(* The worker task.                                                        *)

WorkerHead_SkipsForRequest ==
  /\ worker.pc = "head"
  /\ IF link.chan.st = "Requested"
     THEN UNCHANGED flags /\ worker' = [worker EXCEPT !.pc = "take"]
     ELSE /\ flags' = [flags EXCEPT !.reset = FALSE]
          /\ worker' = [worker EXCEPT !.pc = IF flags.reset THEN "reset" ELSE "take"]
  /\ UNCHANGED <<boot, bus, link, host, card, count>>

(* The head of the loop: RESET_PENDING.swap(false).                        *)
WorkerHead ==
  /\ worker.pc = "head"
  /\ flags' = [flags EXCEPT !.reset = FALSE]
  /\ worker' = [worker EXCEPT !.pc = IF flags.reset THEN "reset" ELSE "take"]
  /\ UNCHANGED <<boot, bus, link, host, card, count>>

WorkerReset ==
  /\ worker.pc = "reset"
  /\ card' = [era |-> count.era]
  /\ flags' = [flags EXCEPT !.idle = FALSE]
  /\ worker' = [worker EXCEPT !.pc = "take"]
  /\ UNCHANGED <<boot, bus, link, host, count>>

WorkerTake ==
  /\ worker.pc = "take"
  /\ IF link.chan.st = "Requested"
     THEN /\ link' = [link EXCEPT !.chan.st = "BuildingResponse"]
          /\ worker' = [worker EXCEPT !.pc = "taken", !.req = link.chan.req]
     ELSE /\ worker' = [worker EXCEPT !.pc = "idle"]
          /\ UNCHANGED link
  /\ UNCHANGED <<boot, bus, flags, host, card, count>>

WorkerTaken ==
  /\ worker.pc = "taken"
  /\ flags' = [flags EXCEPT !.work = FALSE]
  /\ worker' = [worker EXCEPT !.pc = "execute"]
  /\ UNCHANGED <<boot, bus, link, host, card, count>>

(* IDLE_MAINTENANCE.swap(false): a maintenance pass, which a faulted card  *)
(* skips, or out of the loop.                                              *)
WorkerIdle ==
  /\ worker.pc = "idle"
  /\ flags' = [flags EXCEPT !.idle = FALSE]
  /\ worker' = [worker EXCEPT !.pc = CASE flags.idle /\ flags.faulted -> "head"
                                       [] flags.idle /\ ~flags.faulted -> "maintain"
                                       [] OTHER -> "exit"]
  /\ UNCHANGED <<boot, bus, link, host, card, count>>

(* A faulted card answers two bytes itself; otherwise the endpoint does.   *)
WorkerExecute ==
  /\ worker.pc = "execute"
  /\ \E shape \in IF flags.faulted THEN {<<1, FALSE>>} ELSE Replies :
       worker' = [worker EXCEPT !.pc = "respond",
         !.rsp = [id |-> worker.req.id, blocks |-> shape[1], full |-> shape[2]]]
  /\ UNCHANGED <<boot, bus, link, flags, host, card, count>>

WorkerRespond ==
  /\ worker.pc = "respond"
  /\ LET accepted == link.chan.st = "BuildingResponse" IN
       /\ link' = IF accepted THEN [link EXCEPT !.chan.st = "Responded", !.chan.rsp = worker.rsp]
                  ELSE link
       /\ worker' = [FreshWorker EXCEPT
            !.pc = IF accepted /\ flags.faulted /\ worker.req.reset THEN "flag" ELSE "head"]
  /\ UNCHANGED <<boot, bus, flags, host, card, count>>

WorkerFlag ==
  /\ worker.pc = "flag"
  /\ flags' = [flags EXCEPT !.faultReset = TRUE]
  /\ worker' = [worker EXCEPT !.pc = "head"]
  /\ UNCHANGED <<boot, bus, link, host, card, count>>

WorkerMaintain ==
  /\ worker.pc = "maintain"
  /\ worker' = [worker EXCEPT !.pc = "head"]
  /\ \/ UNCHANGED <<flags, count>>
     \/ /\ count.faults < MaxFaults
        /\ count' = [count EXCEPT !.faults = @ + 1]
        /\ flags' = [flags EXCEPT !.faulted = TRUE]
  /\ UNCHANGED <<boot, bus, link, host, card>>

WorkerExit ==
  /\ worker.pc = "exit"
  /\ worker' = [worker EXCEPT !.pc = "off"]
  /\ UNCHANGED <<boot, bus, link, flags, host, card, count>>

(* The worker runs only while no interrupt task holds the processor.       *)
Worker ==
  /\ Running
  /\ \/ WorkerHead \/ WorkerReset \/ WorkerTake \/ WorkerTaken \/ WorkerIdle
     \/ WorkerExecute \/ WorkerRespond \/ WorkerFlag \/ WorkerMaintain \/ WorkerExit

-----------------------------------------------------------------------------
(* The bus and a host that follows CCID: one command at a time, a new      *)
(* sequence number for each, an abort sent on both pipes, and answers      *)
(* accepted by their sequence number alone.                                *)

VbusLost ==
  /\ Running /\ bus.power /\ bus.started
  /\ count.losses < MaxLosses
  /\ bus' = [bus EXCEPT !.power = FALSE, !.out = NoCommand, !.ctl = NoSeq]
  /\ host' = NoHost
  /\ count' = [count EXCEPT !.losses = @ + 1, !.era = @ + 1, !.told = @ \/ host.reset]
  /\ UNCHANGED <<boot, link, flags, worker, card>>

VbusBack ==
  /\ ~bus.power /\ (Running => ~bus.started)
  /\ bus' = [bus EXCEPT !.power = TRUE]
  /\ UNCHANGED <<boot, link, flags, worker, host, card, count>>

(* Bus reset and enumeration; the CCID class has no reset hook.            *)
BusReset ==
  /\ Running /\ bus.power /\ bus.started
  /\ host.st = "gone" \/ count.losses < MaxLosses
  /\ bus' = [bus EXCEPT !.out = NoCommand, !.ctl = NoSeq]
  /\ link' = [link EXCEPT !.in = FreshEndpoint]
  /\ host' = [NoHost EXCEPT !.st = "off"]
  /\ count' = [count EXCEPT !.session = @ + 1,
                            !.losses = IF host.st = "gone" THEN @ ELSE @ + 1,
                            !.told = @ \/ host.reset]
  /\ UNCHANGED <<boot, flags, worker, card>>

CanSend == Running /\ bus.power /\ bus.started /\ bus.out = NoCommand

HostPowerOn ==
  /\ CanSend /\ host.st = "off"
  /\ bus' = [bus EXCEPT !.out = [NoCommand EXCEPT !.kind = "on"]]
  /\ host' = [host EXCEPT !.st = "power"]
  /\ UNCHANGED <<boot, link, flags, worker, card, count>>

HostTransfer(reset) ==
  /\ CanSend /\ host.st = "idle" /\ host.seq + 1 < MaxSeq
  /\ EnumerationIsSlow => ~(flags.reset /\ worker.pc = "take")
  /\ reset => flags.faulted
  /\ LET seq == host.seq + 1
         id == <<count.session, seq>>
     IN /\ bus' = [bus EXCEPT !.out = [kind |-> "xfr", seq |-> seq,
              apdu |-> [id |-> id, era |-> count.era, reset |-> reset]]]
        /\ host' = [host EXCEPT !.st = "transfer", !.seq = seq, !.of = id, !.got = NoId,
                                !.reset = reset]
  /\ UNCHANGED <<boot, link, flags, worker, card, count>>

HostMore ==
  /\ CanSend /\ host.st = "more"
  /\ bus' = [bus EXCEPT !.out = [NoCommand EXCEPT !.kind = "more", !.seq = host.seq + 1]]
  /\ host' = [host EXCEPT !.st = "transfer", !.seq = @ + 1]
  /\ UNCHANGED <<boot, link, flags, worker, card, count>>

HostAbort ==
  /\ CanSend /\ host.st = "transfer" /\ host.seq + 1 < MaxSeq
  /\ host' = [host EXCEPT !.st = "abort", !.seq = @ + 1, !.halves = {"control", "bulk"},
                          !.part = NoPacket]
  /\ count' = [count EXCEPT !.told = @ \/ host.reset]
  /\ UNCHANGED <<boot, bus, link, flags, worker, card>>

HostAbortHalf(half) ==
  /\ CanSend /\ bus.ctl = NoSeq /\ host.st = "abort" /\ half \in host.halves
  /\ host' = [host EXCEPT !.halves = @ \ {half}]
  /\ bus' = IF half = "control" THEN [bus EXCEPT !.ctl = host.seq]
            ELSE [bus EXCEPT !.out = [NoCommand EXCEPT !.kind = "abort", !.seq = host.seq]]
  /\ UNCHANGED <<boot, link, flags, worker, card, count>>

(* The host reads a packet; a full one ends with its zero-length packet.   *)
HostRead ==
  /\ Running /\ bus.power /\ bus.started /\ host.st \notin {"gone", "off"}
  /\ link.in.pkt # NoPacket
  /\ link' = [link EXCEPT !.in = [pkt |-> NoPacket, done |-> TRUE]]
  /\ LET raw == link.in.pkt
         p == IF raw.kind = "zlp" THEN host.part ELSE raw
         mine == p.seq = host.seq
         h == [host EXCEPT !.part = NoPacket]
     IN /\ host' = CASE raw.full -> [host EXCEPT !.part = raw]
                     [] ~raw.full /\ host.st = "power" /\ p.kind = "atr" /\ mine -> [h EXCEPT !.st = "idle"]
                     [] ~raw.full /\ host.st = "abort" /\ p.kind = "status" /\ mine -> [h EXCEPT !.st = "idle"]
                     [] ~raw.full /\ host.st = "transfer" /\ p.kind = "data" /\ mine ->
                          [h EXCEPT !.st = IF p.last THEN "idle" ELSE "more", !.got = p.id]
                     [] OTHER -> h
        /\ count' = [count EXCEPT !.told =
             @ \/ (host.reset /\ host.st = "transfer" /\ p.kind = "data" /\ p.last /\ mine)]
  /\ UNCHANGED <<boot, bus, flags, worker, card>>

Host == HostPowerOn \/ (\E reset \in BOOLEAN : HostTransfer(reset)) \/ HostMore
          \/ HostAbort \/ (\E half \in {"control", "bulk"} : HostAbortHalf(half)) \/ HostRead

Next ==
  \/ BootCheck \/ BootHalts \/ ProgramOwnershipMarker \/ OpenCard \/ SupplyCut \/ HaltedReset
  \/ Usb \/ UsbHalts \/ Tick \/ Worker
  \/ VbusLost \/ VbusBack \/ BusReset \/ Host

Spec == Init /\ [][Next]_vars

(* The interrupt controller serves a pending interrupt, TIMER1 ticks every *)
(* millisecond and RTIC runs a spawned task when no interrupt is active;   *)
(* a host that waits for an answer polls the IN endpoint.                  *)
FairSpec ==
  /\ Spec
  /\ WF_vars(Usb) /\ WF_vars(Tick) /\ WF_vars(Worker)
  /\ WF_vars(HostRead) /\ WF_vars(HostMore)

-----------------------------------------------------------------------------
(* NoForeignAnswer: the block a host accepts as the answer to its XfrBlock *)
(* belongs to the reply to that XfrBlock, although an abort leaves the     *)
(* worker on the old request, a bus reset leaves the pipe as it was, and   *)
(* both restart or reuse the sequence number the pipe echoes.  From the    *)
(* third interrupted session on it does not hold: the class has no reset   *)
(* hook, so a host can read the ATR an earlier session left in the outbox  *)
(* as the answer to its own IccPowerOn, and then a block of that session.  *)
NoForeignAnswer == host.got # NoId /\ count.losses <= 2 => host.got = host.of

(* OwnSessionAnswer: a block of the host's own USB session that it accepts *)
(* as the answer to its XfrBlock is the answer to that XfrBlock, whatever  *)
(* it aborted before and however many sessions left packets in the pipe.   *)
OwnSessionAnswer == host.got # NoId /\ host.got[1] = count.session => host.got = host.of

(* SessionIsolated: the endpoint never runs a request sent after a VBUS    *)
(* loss before it was reset for that loss, although the USB task may set   *)
(* RESET_PENDING just after the worker has read it and before it takes the *)
(* request.  That window is harmless only because enumeration outlasts it: *)
(* with EnumerationIsSlow FALSE the property fails.                        *)
SessionIsolated == worker.pc \in {"taken", "execute"} => worker.req.era <= card.era

(* OwnedBeforeState: persistent state never exists under an erased         *)
(* ownership word, wherever the supply fails during start-up.              *)
OwnedBeforeState == boot.storage # "erased" => boot.marker # "erased"

(* ResetAfterAnswer: the firmware restarts for a fault-reset command only  *)
(* when the host has read that command's whole answer or given it up.      *)
ResetAfterAnswer ==
  [][boot.phase = "run" /\ boot'.phase = "check" /\ count'.losses = count.losses
       => count.told]_vars

(* AcceptedTransfersEnd: a transfer the pipe handed to the channel with    *)
(* nothing left over in its outbox is answered, aborted or lost with the   *)
(* connection; the spawn that met an exiting worker is not the last.       *)
AcceptedTransfersEnd ==
  (/\ host.st = "transfer" /\ link.chan.req.id = host.of
   /\ link.chan.st \in {"Requested", "BuildingResponse", "Responded"}
   /\ link.pipe.state = "Processing" /\ link.pipe.outbox = NoPacket)
    ~> host.st \notin {"transfer", "more"}
=============================================================================
