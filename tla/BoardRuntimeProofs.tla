------------------------- MODULE BoardRuntimeProofs -------------------------
(***************************************************************************)
(* TLAPS proofs about BoardRuntime, for any number of losses, faults,      *)
(* sequence numbers and reply shapes: the ownership word precedes state, a *)
(* replugged host that is slow to enumerate meets a reset card, within one *)
(* USB session a host accepts only the answer to its own command, and a    *)
(* fault reset waits for its answer to be read.                            *)
(***************************************************************************)
EXTENDS BoardRuntime, TLAPS

USE BoardConstants

-----------------------------------------------------------------------------
(* Types *)

Ids == Nat \X Nat
Requests == [id : Ids, era : Nat, reset : BOOLEAN]
Answers == [id : Ids, blocks : Nat, full : BOOLEAN]
Commands == [kind : {"none", "on", "xfr", "more", "abort"}, seq : Nat, apdu : Requests]
Packets ==
  [kind : {"none", "zlp", "extension", "status", "refused", "atr", "data"},
   seq : Nat, id : Ids, last : BOOLEAN, full : BOOLEAN]
Pipes ==
  [state : {"Idle", "Processing", "ReadyToSend", "Sending"}, seq : Nat, outbox : Packets,
   sent : Nat, queued : BOOLEAN, inflight : BOOLEAN, drained : BOOLEAN,
   started : BOOLEAN, bulk : Nat, control : Nat]
Channels ==
  [st : {"Idle", "Requested", "BuildingResponse", "Responded", "Canceled"},
   req : Requests, rsp : Answers]
Links == [pipe : Pipes, chan : Channels, in : [pkt : Packets, done : BOOLEAN]]
Workers ==
  [pc : {"off", "head", "reset", "take", "taken", "idle", "execute", "respond", "flag",
         "maintain", "exit"},
   req : Requests, rsp : Answers]
Hosts ==
  [st : {"gone", "off", "power", "idle", "transfer", "more", "abort"},
   seq : Nat, of : Ids, got : Ids, halves : SUBSET {"control", "bulk"},
   part : Packets, reset : BOOLEAN]
Counts == [session : Nat, era : Nat, losses : Nat, faults : Nat, told : BOOLEAN]

TypeOK ==
  /\ boot \in [phase : {"check", "claim", "open", "run", "halt", "stuck"},
               marker : {"erased", "torn", "programmed"},
               storage : {"erased", "torn", "written"}]
  /\ bus \in [power : BOOLEAN, started : BOOLEAN, ext : BOOLEAN, out : Commands, ctl : Nat]
  /\ link \in Links
  /\ flags \in [reset : BOOLEAN, work : BOOLEAN, idle : BOOLEAN, faulted : BOOLEAN,
                faultReset : BOOLEAN]
  /\ worker \in Workers
  /\ host \in Hosts
  /\ card \in [era : Nat]
  /\ count \in Counts

-----------------------------------------------------------------------------
(* The inductive invariant.  Its part about the link is stated for a link  *)
(* d, a bulk command and an abort the device has not handled yet, so that  *)
(* one poll can be followed operation by operation.                        *)

Current(id) == id[1] = count.session
Greeted == host.st \in {"idle", "transfer", "more", "abort"}

(* The pipe is at work on a request of this session. *)
AtWork(d) == d.pipe.state \in {"Processing", "ReadyToSend", "Sending"}
CurrentWork(d) == AtWork(d) /\ Current(d.chan.req.id)

(* A request the endpoint may run: no later than the era it was reset for, *)
(* unless a reset is still ahead of the next take_request.                 *)
MayRun(r) ==
  /\ r.era <= count.era
  /\ EnumerationIsSlow =>
       \/ worker.pc = "reset" \/ (flags.reset /\ worker.pc # "take")
       \/ r.era <= card.era

(* The request in the channel is the one the worker holds and answers.     *)
Answering(d) ==
  /\ d.chan.st = "BuildingResponse" =>
       worker.pc \in {"taken", "execute", "respond"} /\ worker.req.id = d.chan.req.id
  /\ d.chan.st = "Responded" => d.chan.rsp.id = d.chan.req.id

(* A data packet of this session is not ahead of the host, and answers the *)
(* host's command when it carries its sequence number.                     *)
OwnData(p) ==
  Greeted /\ p.kind = "data" /\ Current(p.id) =>
    /\ p.seq <= host.seq
    /\ host.st = "transfer" /\ p.seq = host.seq => p.id = host.of

(* Once the host has seen an abort acknowledged, the pipe is off its work. *)
OwnStatus(d, p) ==
  Greeted /\ p.kind = "status" =>
    /\ p.seq <= host.seq
    /\ host.st = "abort" /\ p.seq = host.seq => ~CurrentWork(d)

OwnPackets(d) ==
  \A p \in {d.in.pkt, d.pipe.outbox} : OwnData(p) /\ OwnStatus(d, p)

LinkInv(d, out, ctl) ==
  /\ d \in Links
  /\ Answering(d)
  /\ MayRun(d.chan.req)
  /\ d.chan.req.id[1] <= count.session
  /\ \A p \in {d.in.pkt, d.pipe.outbox} :
       p.id[1] <= count.session /\ (p.full => p.kind = "data")
  /\ OwnPackets(d)
  (* nothing of this session exists before the host's first transfer *)
  /\ (host.st \in {"off", "power"} \/ out.kind = "on") =>
       /\ ~Current(d.chan.req.id)
       /\ \A p \in {d.in.pkt, d.pipe.outbox} : p.kind = "data" => ~Current(p.id)
  (* a status packet left over from before is read before the ATR *)
  /\ host.st \in {"off", "power"} /\ d.in.pkt.kind = "atr" => d.pipe.outbox.kind # "status"
  /\ (Greeted \/ host.st = "power") /\ out.kind # "on" => d.pipe.seq <= host.seq
  /\ out.kind = "xfr" => d.pipe.seq < host.seq
  (* no abort is half done under a host that is not aborting *)
  /\ CurrentWork(d) /\ host.st \in {"idle", "transfer", "more"} =>
       d.pipe.control = NoSeq /\ ctl = NoSeq
  (* the pipe works for the command the host waits on *)
  /\ CurrentWork(d) /\ host.st \in {"transfer", "more"} /\ out.kind # "xfr" =>
       d.chan.req.id = host.of

CommandInv ==
  /\ bus.out.kind = "none" => bus.out = NoCommand
  /\ bus.out.kind # "none" => Greeted \/ host.st = "power"
  /\ bus.out.kind # "none" => bus.out.seq <= host.seq
  /\ bus.out.kind = "on" => host.st \in {"power", "idle"} /\ host.seq = 0 /\ bus.ctl = NoSeq
  /\ bus.out.kind = "abort" \/ bus.ctl # NoSeq => Greeted
  /\ bus.out.kind = "xfr" =>
       /\ bus.out.apdu.id = host.of /\ bus.out.seq = host.seq
       /\ host.st \in {"idle", "transfer", "more"}
  /\ bus.out.kind = "more" => bus.out.seq = host.seq
  /\ MayRun(bus.out.apdu)

HostInv ==
  /\ host.st = "off" => bus.out = NoCommand
  /\ host.st \in {"off", "power"} => bus.ctl = NoSeq /\ host.seq = 0 /\ host.got = NoId
  /\ host.st = "gone" => bus.out = NoCommand /\ bus.ctl = NoSeq
  /\ host.st \in {"gone", "off", "power"} \/ bus.out.kind = "on" =>
       (host.part.kind = "data" => ~Current(host.part.id))
  /\ host.of[1] <= count.session /\ host.part.id[1] <= count.session
  /\ OwnData(host.part) /\ host.part.kind \in {"none", "data"}
  /\ host.got # NoId /\ Current(host.got) => host.got = host.of

SessionInv ==
  /\ bus.started => boot.phase \in {"run", "stuck"}
  /\ card.era <= count.era
  /\ \/ card.era = count.era \/ flags.reset \/ worker.pc = "reset"
     \/ (~bus.power /\ bus.started) \/ boot.phase = "stuck"
  /\ EnumerationIsSlow /\ worker.pc \in {"taken", "execute"} => worker.req.era <= card.era
  /\ worker.pc = "respond" => worker.rsp.id = worker.req.id
  /\ worker.req.id[1] <= count.session

(* Storage is opened, and the card runs, under a programmed word. *)
BootInv ==
  /\ boot.phase \in {"open", "run"} => boot.marker # "erased"
  /\ boot.phase = "claim" => boot.storage = "erased"

BoardInv ==
  /\ TypeOK
  /\ OwnedBeforeState /\ BootInv
  /\ LinkInv(link, bus.out, bus.ctl)
  /\ CommandInv
  /\ HostInv
  /\ SessionInv

USE DEF Counts, Workers, Hosts

-----------------------------------------------------------------------------
(* The operations of the pipe *)

\* The empty values are typed, and belong to no session but the first.
LEMMA EmptyTypes ==
  /\ NoId \in Ids /\ NoId[1] = 0
  /\ NoRequest \in Requests /\ NoRequest.id = NoId /\ NoRequest.era = 0
  /\ NoReply \in Answers
  /\ NoPacket \in Packets /\ NoPacket.kind = "none" /\ NoPacket.id = NoId /\ ~NoPacket.full
  /\ NoCommand \in Commands /\ NoCommand.kind = "none" /\ NoCommand.apdu = NoRequest
  /\ NoSeq \in Nat
  /\ FreshPipe \in Pipes /\ FreshPipe.state = "Idle" /\ FreshPipe.seq = 0
  /\ FreshPipe.outbox = NoPacket /\ FreshPipe.control = NoSeq /\ FreshPipe.bulk = NoSeq
  /\ FreshEndpoint \in [pkt : Packets, done : BOOLEAN] /\ FreshEndpoint.pkt = NoPacket
<1>1. NoId \in Ids /\ NoId[1] = 0
  BY DEF NoId, Ids
<1>2. NoRequest \in Requests /\ NoRequest.id = NoId /\ NoRequest.era = 0
  BY <1>1 DEF NoRequest, Requests
<1>3. NoReply \in Answers
  BY <1>1 DEF NoReply, Answers
<1>4. NoPacket \in Packets /\ NoPacket.kind = "none" /\ NoPacket.id = NoId /\ ~NoPacket.full
  BY <1>1 DEF NoPacket, Packets
<1>5. NoCommand \in Commands /\ NoCommand.kind = "none" /\ NoCommand.apdu = NoRequest
  BY <1>2 DEF NoCommand, Commands
<1>6. NoSeq \in Nat
  BY DEF NoSeq
<1>7. /\ FreshPipe \in Pipes /\ FreshPipe.state = "Idle" /\ FreshPipe.seq = 0
      /\ FreshPipe.outbox = NoPacket /\ FreshPipe.control = NoSeq /\ FreshPipe.bulk = NoSeq
  BY <1>4, <1>6 DEF FreshPipe, Pipes
<1>8. FreshEndpoint \in [pkt : Packets, done : BOOLEAN] /\ FreshEndpoint.pkt = NoPacket
  BY <1>4 DEF FreshEndpoint
<1> QED BY <1>1, <1>2, <1>3, <1>4, <1>5, <1>6, <1>7, <1>8

\* A link whose channel and sequence number are kept, which does no work it
\* did not do before, and which holds no new data or status packet, keeps
\* the invariant.
LEMMA LinkFrame ==
  ASSUME TypeOK, NEW d, NEW e \in Links, NEW out \in Commands, NEW ctl \in Nat,
         LinkInv(d, out, ctl),
         e.chan = d.chan, AtWork(e) => AtWork(d),
         e.pipe.seq = d.pipe.seq, e.pipe.control = d.pipe.control,
         \A p \in {e.in.pkt, e.pipe.outbox} :
           \/ p \in {d.in.pkt, d.pipe.outbox}
           \/ p.kind \notin {"data", "status"} /\ p.id[1] <= count.session /\ ~p.full,
         e.in.pkt.kind = "atr" /\ e.pipe.outbox.kind = "status" =>
           d.in.pkt.kind = "atr" /\ d.pipe.outbox.kind = "status"
  PROVE  LinkInv(e, out, ctl)
<1>1. CurrentWork(e) => CurrentWork(d)
  BY DEF CurrentWork
<1>2. Answering(e) /\ MayRun(e.chan.req)
  BY DEF LinkInv, Answering
<1>3. \A p \in {e.in.pkt, e.pipe.outbox} :
        OwnData(p) /\ p.id[1] <= count.session /\ (p.full => p.kind = "data")
  BY DEF LinkInv, OwnPackets, OwnData
<1>4. \A p \in {e.in.pkt, e.pipe.outbox} : OwnStatus(e, p)
  BY <1>1 DEF LinkInv, OwnPackets, OwnStatus
<1>5. OwnPackets(e)
  BY <1>3, <1>4 DEF OwnPackets
<1> QED BY <1>1, <1>2, <1>3, <1>5 DEF LinkInv

\* maybe_send_packet only moves the outbox to the endpoint, and follows a
\* full packet by a zero-length one.
LEMMA MaybeSendKeeps ==
  ASSUME TypeOK, NEW d, NEW out \in Commands, NEW ctl \in Nat, LinkInv(d, out, ctl)
  PROVE  /\ LinkInv(MaybeSendPacket(d), out, ctl)
         /\ MaybeSendPacket(d).pipe.state = d.pipe.state
<1> DEFINE e == MaybeSendPacket(d)
<1>0. d \in Links
  BY DEF LinkInv
<1>1. CASE d.pipe.outbox = NoPacket \/ ~EndpointFree(d)
  BY <1>1 DEF MaybeSendPacket
<1>2. CASE ~(d.pipe.outbox = NoPacket \/ ~EndpointFree(d))
  <2> DEFINE z == Packet("zlp", d.pipe.outbox.seq)
  <2>1. z \in Packets /\ z.kind = "zlp" /\ z.id = NoId /\ ~z.full
    BY <1>0, EmptyTypes DEF Packet, Packets, Links, Pipes
  <2>2. /\ e \in Links
        /\ e.chan = d.chan /\ e.pipe.state = d.pipe.state
        /\ e.pipe.seq = d.pipe.seq /\ e.pipe.control = d.pipe.control
        /\ e.in.pkt = d.pipe.outbox
        /\ e.pipe.outbox = IF d.pipe.outbox.full THEN z ELSE NoPacket
    BY <1>0, <1>2, <2>1, EmptyTypes DEF MaybeSendPacket, Links, Pipes
  <2>3. z.id[1] <= count.session /\ NoPacket.id[1] <= count.session
    BY <2>1, EmptyTypes DEF TypeOK
  <2> QED BY <2>1, <2>2, <2>3, LinkFrame, EmptyTypes DEF AtWork
<1> QED BY <1>1, <1>2

\* Answers without data or status go through send_packet unharmed.
LEMMA SendKeeps ==
  ASSUME TypeOK, NEW d, NEW out \in Commands, NEW ctl \in Nat, LinkInv(d, out, ctl),
         NEW k \in {"extension", "refused", "atr"}, NEW n \in Nat
  PROVE  LinkInv(SendPacket(d, Packet(k, n)), out, ctl)
<1> DEFINE q == Packet(k, n)
           e == [d EXCEPT !.pipe.state = IF d.pipe.outbox # NoPacket THEN "Idle" ELSE @,
                          !.pipe.outbox = q]
<1>0. d \in Links
  BY DEF LinkInv
<1>1. q \in Packets /\ q.kind = k /\ q.id = NoId /\ ~q.full
  BY EmptyTypes DEF Packet, Packets
<1>2. /\ e \in Links
      /\ e.chan = d.chan /\ e.pipe.state \in {d.pipe.state, "Idle"}
      /\ e.pipe.seq = d.pipe.seq /\ e.pipe.control = d.pipe.control
      /\ e.in.pkt = d.in.pkt /\ e.pipe.outbox = q
  BY <1>0, <1>1 DEF Links, Pipes
<1>3. q.id[1] <= count.session /\ q.kind \notin {"data", "status"} /\ ~q.full
  BY <1>1, EmptyTypes DEF TypeOK
<1>4. AtWork(e) => AtWork(d)
  BY <1>2 DEF AtWork
<1>5. LinkInv(e, out, ctl)
  <2> HIDE DEF e, q
  <2> QED BY <1>2, <1>3, <1>4, LinkFrame
<1> QED BY <1>5, MaybeSendKeeps DEF SendPacket

\* A reset of the pipe drops its work and cancels the exchange.
LEMMA ResetKeeps ==
  ASSUME TypeOK, NEW d, NEW out \in Commands, NEW ctl \in Nat, LinkInv(d, out, ctl)
  PROVE  /\ LinkInv(ResetState(d), out, ctl)
         /\ ~AtWork(ResetState(d)) /\ ResetState(d).pipe.control = NoSeq
<1> DEFINE e == ResetState(d)
<1>0. d \in Links
  BY DEF LinkInv
<1>1. /\ e \in Links
      /\ e.chan.st \in {"Idle", "Canceled"} /\ e.chan.req = NoRequest
      /\ e.pipe = FreshPipe /\ e.in = d.in
  BY <1>0, EmptyTypes DEF ResetState, ResetInterchange, Links, Channels
<1>2. ~AtWork(e) /\ ~CurrentWork(e)
  BY <1>1, EmptyTypes DEF AtWork, CurrentWork
<1>3. Answering(e) /\ MayRun(e.chan.req)
  BY <1>1, EmptyTypes DEF Answering, MayRun, TypeOK
<1>4. OwnPackets(e)
  BY <1>1, <1>2, EmptyTypes DEF OwnPackets, OwnData, OwnStatus, LinkInv
<1>5. e.chan.req.id[1] <= count.session /\ e.pipe.outbox.id[1] <= count.session
  BY <1>1, EmptyTypes DEF TypeOK
<1>6. 0 <= host.seq /\ (out.kind = "xfr" => 0 < host.seq)
  BY <1>0 DEF TypeOK, LinkInv, Links, Pipes
<1>7. (host.st \in {"off", "power"} \/ out.kind = "on") => ~Current(NoId)
  BY <1>0, EmptyTypes DEF LinkInv, Current, TypeOK, Links, Channels, Requests, Ids
<1>8. LinkInv(e, out, ctl)
  <2> HIDE DEF e
  <2> QED BY <1>1, <1>2, <1>3, <1>4, <1>5, <1>6, <1>7, EmptyTypes DEF LinkInv
<1> QED BY <1>1, <1>2, <1>8, EmptyTypes

\* prime_outbox sends the next block of the answer to the request at work.
LEMMA PrimeKeeps ==
  ASSUME TypeOK, NEW d, NEW out \in Commands, NEW ctl \in Nat, LinkInv(d, out, ctl),
         AtWork(d)
  PROVE  LinkInv(PrimeOutbox(d), out, ctl)
<1> DEFINE more == d.pipe.sent + 1 < d.chan.rsp.blocks
           q == [kind |-> "data", seq |-> d.pipe.seq, id |-> d.chan.rsp.id,
                 last |-> ~more, full |-> more \/ d.chan.rsp.full]
           e == [d EXCEPT
                  !.pipe.sent = IF more THEN d.pipe.sent + 1 ELSE 0,
                  !.pipe.state = IF more THEN "Sending" ELSE "Idle",
                  !.pipe.queued = @ \/ ~more,
                  !.pipe.outbox = q]
<1>0. d \in Links
  BY DEF LinkInv
<1>1. CASE d.pipe.outbox # NoPacket \/ d.chan.st # "Responded"
  BY <1>1, ResetKeeps DEF PrimeOutbox
<1>2. CASE ~(d.pipe.outbox # NoPacket \/ d.chan.st # "Responded")
  <2>1. q \in Packets /\ q.kind = "data" /\ q.seq = d.pipe.seq /\ q.id = d.chan.req.id
    BY <1>0, <1>2 DEF Packets, Links, Pipes, Channels, Answers, LinkInv, Answering
  <2>2. /\ e \in Links
        /\ e.chan = d.chan /\ e.pipe.state \in {"Sending", "Idle"}
        /\ e.pipe.seq = d.pipe.seq /\ e.pipe.control = d.pipe.control
        /\ e.in.pkt = d.in.pkt /\ e.pipe.outbox = q
    <3>1. d.pipe.sent + 1 \in Nat
      BY <1>0 DEF Links, Pipes
    <3> HIDE DEF q, more
    <3> QED BY <1>0, <2>1, <3>1 DEF Links, Pipes
  <2>3. CurrentWork(e) => CurrentWork(d)
    BY <2>2 DEF CurrentWork
  <2>4. Current(q.id) <=> CurrentWork(d)
    BY <2>1 DEF CurrentWork
  <2>5. OwnData(q)
    BY <1>0, <2>1, <2>4 DEF OwnData, LinkInv, Links, Pipes, TypeOK, Greeted
  <2>6. OwnPackets(e)
    BY <2>1, <2>2, <2>3, <2>5 DEF OwnPackets, OwnStatus, LinkInv
  <2>7. Answering(e) /\ MayRun(e.chan.req)
    BY <2>2 DEF LinkInv, Answering
  <2>8. LinkInv(e, out, ctl)
    <3> HIDE DEF e, q
    <3> QED BY <2>1, <2>2, <2>3, <2>4, <2>6, <2>7 DEF LinkInv, CurrentWork
  <2>9. PrimeOutbox(d) = MaybeSendPacket(e)
    BY <1>2 DEF PrimeOutbox
  <2> QED BY <2>8, <2>9, MaybeSendKeeps
<1> QED BY <1>1, <1>2

\* poll_app and check_for_app_response.
LEMMA CheckKeeps ==
  ASSUME TypeOK, NEW d, NEW out \in Commands, NEW ctl \in Nat, LinkInv(d, out, ctl)
  PROVE  LinkInv(CheckForAppResponse(d), out, ctl)
<1> DEFINE e == [d EXCEPT !.pipe.state = "ReadyToSend", !.pipe.sent = 0]
<1>0. d \in Links
  BY DEF LinkInv
<1>1. CASE d.pipe.state = "Processing" /\ d.chan.st = "Responded"
  <2>1. /\ e \in Links
        /\ e.chan = d.chan /\ e.pipe.state = "ReadyToSend"
        /\ e.pipe.seq = d.pipe.seq /\ e.pipe.control = d.pipe.control
        /\ e.in.pkt = d.in.pkt /\ e.pipe.outbox = d.pipe.outbox
    BY <1>0 DEF Links, Pipes
  <2>2. AtWork(d) /\ AtWork(e)
    BY <1>1, <2>1 DEF AtWork
  <2>3. LinkInv(e, out, ctl)
    <3> HIDE DEF e
    <3> QED BY <2>1, <2>2, LinkFrame
  <2>4. LinkInv(PrimeOutbox(e), out, ctl)
    <3> HIDE DEF e
    <3> QED BY <2>2, <2>3, PrimeKeeps
  <2> QED BY <1>1, <2>4, MaybeSendKeeps DEF CheckForAppResponse, PollApp
<1>2. CASE ~(d.pipe.state = "Processing" /\ d.chan.st = "Responded")
  BY <1>2, MaybeSendKeeps DEF CheckForAppResponse, PollApp
<1> QED BY <1>1, <1>2

\* A time extension says nothing about the answer.
LEMMA ExtensionKeeps ==
  ASSUME TypeOK, NEW d, NEW out \in Commands, NEW ctl \in Nat, LinkInv(d, out, ctl)
  PROVE  LinkInv(SendWaitExtension(d), out, ctl)
<1>1. d.pipe.seq \in Nat
  BY DEF LinkInv, Links, Pipes
<1> QED BY <1>1, SendKeeps DEF SendWaitExtension

\* The completion of an IN transfer, and the endpoint it frees.
LEMMA CompleteKeeps ==
  ASSUME TypeOK, NEW d, NEW out \in Commands, NEW ctl \in Nat, LinkInv(d, out, ctl)
  PROVE  LinkInv(EndpointInComplete(d), out, ctl) /\ LinkInv(FreedIn(d), out, ctl)
<1> DEFINE e == [d EXCEPT !.pipe.inflight = FALSE, !.pipe.queued = FALSE,
                          !.pipe.drained = TRUE]
           f == [d EXCEPT !.in = FreshEndpoint]
<1>0. d \in Links
  BY DEF LinkInv
<1>1. LinkInv(e, out, ctl)
  <2>1. /\ e \in Links
        /\ e.chan = d.chan /\ e.pipe.state = d.pipe.state
        /\ e.pipe.seq = d.pipe.seq /\ e.pipe.control = d.pipe.control
        /\ e.in.pkt = d.in.pkt /\ e.pipe.outbox = d.pipe.outbox
    BY <1>0 DEF Links, Pipes
  <2> HIDE DEF e
  <2> QED BY <2>1, LinkFrame DEF AtWork
<1>2. LinkInv(f, out, ctl)
  <2>1. /\ f \in Links
        /\ f.chan = d.chan /\ f.pipe = d.pipe /\ f.in.pkt = NoPacket
    BY <1>0, EmptyTypes DEF Links
  <2>2. NoPacket.id[1] <= count.session
    BY EmptyTypes DEF TypeOK
  <2> HIDE DEF f
  <2> QED BY <2>1, <2>2, LinkFrame, EmptyTypes DEF AtWork
<1> QED BY <1>1, <1>2, MaybeSendKeeps DEF EndpointInComplete, FreedIn

-----------------------------------------------------------------------------
(* Commands of the host *)

\* An abort acknowledged on either pipe leaves the pipe without work.
LEMMA AbortKeeps ==
  ASSUME TypeOK, NEW d, NEW out \in Commands, NEW ctl \in Nat, LinkInv(d, out, ctl),
         Greeted, d.pipe.seq <= host.seq
  PROVE  LinkInv(Abort(d), out, ctl) /\ ~AtWork(Abort(d))
<1> DEFINE q == Packet("status", d.pipe.seq)
           p == [FreshPipe EXCEPT !.seq = d.pipe.seq]
           c == [d EXCEPT !.pipe = p]
           e == [c EXCEPT !.pipe.state = IF c.pipe.outbox # NoPacket THEN "Idle" ELSE @,
                          !.pipe.outbox = q]
<1>0. d \in Links /\ d.pipe.seq \in Nat
  BY DEF LinkInv, Links, Pipes
<1>1. q \in Packets /\ q.kind = "status" /\ q.id = NoId /\ q.seq = d.pipe.seq
      /\ ~q.full
  BY <1>0, EmptyTypes DEF Packet, Packets
<1>2. /\ p \in Pipes /\ p.state = "Idle" /\ p.seq = d.pipe.seq
      /\ p.outbox = NoPacket /\ p.control = NoSeq
  BY <1>0, EmptyTypes DEF Pipes
<1>3. c \in Links /\ c.pipe = p /\ c.chan = d.chan /\ c.in = d.in
  <2> HIDE DEF p
  <2> QED BY <1>0, <1>2 DEF Links
<1>4. /\ e \in Links
      /\ e.chan = d.chan /\ e.pipe.state = "Idle"
      /\ e.pipe.seq = d.pipe.seq /\ e.pipe.control = NoSeq
      /\ e.in.pkt = d.in.pkt /\ e.pipe.outbox = q
  <2> HIDE DEF p, c, q
  <2> QED BY <1>1, <1>2, <1>3 DEF Links, Pipes
<1> HIDE DEF e, p, c, q
<1>5. ~AtWork(e) /\ ~CurrentWork(e)
  BY <1>4 DEF AtWork, CurrentWork
<1>6. OwnPackets(e)
  BY <1>1, <1>4, <1>5 DEF OwnPackets, OwnData, OwnStatus, LinkInv
<1>7. Answering(e) /\ MayRun(e.chan.req)
  BY <1>4 DEF LinkInv, Answering
<1>8. e.pipe.outbox.id[1] <= count.session
  BY <1>1, <1>4, EmptyTypes DEF TypeOK
<1>9. LinkInv(e, out, ctl)
  BY <1>1, <1>4, <1>5, <1>6, <1>7, <1>8 DEF LinkInv, Greeted
<1>10. Abort(d) = MaybeSendPacket(e)
  BY DEF Abort, SendPacket, e, c, p, q
<1> QED BY <1>5, <1>9, <1>10, MaybeSendKeeps DEF AtWork

\* An abort on the control pipe.
LEMMA ControlKeeps ==
  ASSUME BoardInv, NEW d, LinkInv(d, bus.out, bus.ctl)
  PROVE  LinkInv(PollControl(d), bus.out, NoSeq)
<1> DEFINE e == [d EXCEPT !.pipe.control = bus.ctl]
<1>0. TypeOK /\ bus.out \in Commands /\ bus.ctl \in Nat /\ d \in Links /\ NoSeq \in Nat
  BY EmptyTypes DEF BoardInv, TypeOK, LinkInv
<1>1. CASE bus.ctl = NoSeq
  BY <1>1 DEF PollControl
<1>2. CASE bus.ctl # NoSeq
  <2>0. Greeted /\ bus.out.kind # "on"
    BY <1>2 DEF BoardInv, CommandInv
  <2>1. CASE d.pipe.bulk = bus.ctl
    <3>1. d.pipe.seq <= host.seq
      BY <2>0 DEF LinkInv
    <3>2. LinkInv(Abort(d), bus.out, bus.ctl) /\ ~AtWork(Abort(d))
      BY <1>0, <2>0, <3>1, AbortKeeps
    <3> QED BY <1>2, <2>1, <3>2 DEF PollControl, ExpectAbort, LinkInv, CurrentWork
  <2>2. CASE d.pipe.bulk # bus.ctl
    <3>1. /\ e \in Links
          /\ e.chan = d.chan /\ e.pipe.state = d.pipe.state
          /\ e.pipe.seq = d.pipe.seq /\ e.in = d.in /\ e.pipe.outbox = d.pipe.outbox
      BY <1>0 DEF Links, Pipes
    <3> HIDE DEF e
    <3>2. CurrentWork(e) <=> CurrentWork(d)
      BY <3>1 DEF CurrentWork, AtWork
    <3>3. Answering(e) /\ OwnPackets(e)
      BY <3>1, <3>2 DEF LinkInv, Answering, OwnPackets, OwnStatus
    <3>4. LinkInv(e, bus.out, NoSeq)
      BY <1>2, <3>1, <3>2, <3>3 DEF LinkInv
    <3> QED BY <1>2, <2>2, <3>4 DEF PollControl, ExpectAbort, e
  <2> QED BY <2>1, <2>2
<1> QED BY <1>1, <1>2

(* The link e is d after the header of the pending command was read. *)
Received(d, e) ==
  /\ e \in Links
  /\ e.chan = d.chan /\ e.in = d.in
  /\ e.pipe.state = d.pipe.state /\ e.pipe.control = d.pipe.control
  /\ e.pipe.seq = bus.out.seq /\ e.pipe.outbox = d.pipe.outbox

\* A command other than a transfer changes what the pipe echoes, not what it
\* works on.
LEMMA ReceiveKeeps ==
  ASSUME BoardInv, NEW d, NEW e, LinkInv(d, bus.out, NoSeq), Received(d, e),
         bus.out.kind \in {"on", "more", "abort"} \/ (bus.out.kind = "xfr" /\ ~CurrentWork(d))
  PROVE  LinkInv(e, NoCommand, NoSeq)
<1>1. bus.out.seq <= host.seq /\ NoCommand.kind = "none"
  BY EmptyTypes DEF BoardInv, CommandInv
<1>2. bus.out.kind = "on" => host.st \notin {"transfer", "more"}
  BY DEF BoardInv, CommandInv
<1>3. bus.out.kind = "xfr" => host.st \notin {"off", "power"}
  BY DEF BoardInv, CommandInv
<1>4. CurrentWork(e) <=> CurrentWork(d)
  BY DEF CurrentWork, AtWork, Received
<1>5. Answering(e) /\ OwnPackets(e)
  BY <1>4 DEF LinkInv, Answering, OwnPackets, OwnStatus, Received
<1> QED BY <1>1, <1>2, <1>3, <1>4, <1>5 DEF LinkInv, Received

\* A command is consumed by a pipe that does no work.
LEMMA ConsumeKeeps ==
  ASSUME BoardInv, NEW d, LinkInv(d, bus.out, NoSeq), ~AtWork(d), d.pipe.seq <= host.seq
  PROVE  LinkInv(d, NoCommand, NoSeq)
BY EmptyTypes DEF LinkInv, CurrentWork

\* A transfer is handed to the channel by an idle pipe, and resets a busy one.
LEMMA TransferKeeps ==
  ASSUME BoardInv, NEW d, NEW e, LinkInv(d, bus.out, NoSeq), Received(d, e),
         bus.out.kind = "xfr", d.pipe.control = NoSeq
  PROVE  LinkInv(HandleTransfer(e, bus.out), NoCommand, NoSeq)
<1> DEFINE fresh == ResetInterchange(e)
           f == CallApp(fresh, bus.out.apdu)
<1>0. TypeOK /\ bus.out \in Commands /\ d \in Links
  BY DEF BoardInv, TypeOK, LinkInv
<1>1. /\ e \in Links
      /\ e.chan = d.chan /\ e.pipe.state = d.pipe.state /\ e.pipe.control = NoSeq
      /\ e.pipe.seq = bus.out.seq /\ e.in = d.in /\ e.pipe.outbox = d.pipe.outbox
  BY DEF Received
<1>2. /\ fresh \in Links /\ fresh.pipe = e.pipe /\ fresh.in = e.in
      /\ fresh.chan = [st |-> IF d.chan.st \in {"BuildingResponse", "Canceled"}
                             THEN "Canceled" ELSE "Idle",
                      req |-> NoRequest, rsp |-> NoReply]
  BY <1>1, EmptyTypes DEF ResetInterchange, Links, Channels
<1> HIDE DEF fresh
<1>3. LinkInv(ResetState(d), NoCommand, NoSeq)
  <2>1. LinkInv(ResetState(d), bus.out, NoSeq) /\ ~AtWork(ResetState(d))
    BY <1>0, ResetKeeps, EmptyTypes
  <2>2. ResetState(d).pipe.seq <= host.seq
    BY <1>0, EmptyTypes DEF ResetState, ResetInterchange, Links, TypeOK
  <2> QED BY <2>1, <2>2, ConsumeKeeps
<1>4. ResetState(e) = ResetState(d)
  <2>1. [e EXCEPT !.pipe = FreshPipe] = [d EXCEPT !.pipe = FreshPipe]
    BY <1>0, <1>1 DEF Links
  <2> QED BY <2>1 DEF ResetState
<1>5. ResetState(fresh) = ResetState(d)
  <2> DEFINE x == [fresh EXCEPT !.pipe = FreshPipe]
             y == [d EXCEPT !.pipe = FreshPipe]
  <2>1. x \in Links /\ y \in Links /\ x.pipe = y.pipe /\ x.in = y.in
        /\ x.chan = fresh.chan /\ y.chan = d.chan
    BY <1>0, <1>1, <1>2, EmptyTypes DEF Links
  <2> HIDE DEF x, y
  <2>2. (x.chan.st \in {"BuildingResponse", "Canceled"})
          <=> (y.chan.st \in {"BuildingResponse", "Canceled"})
    BY <1>2, <2>1
  <2>3. ResetInterchange(x) = ResetInterchange(y)
    BY <2>1, <2>2 DEF ResetInterchange, Links
  <2> QED BY <2>3 DEF ResetState, x, y
<1>6. CASE d.pipe.state # "Idle"
  BY <1>1, <1>3, <1>4, <1>6 DEF HandleTransfer
<1>7. CASE d.pipe.state = "Idle" /\ fresh.chan.st # "Idle"
  BY <1>1, <1>3, <1>5, <1>7 DEF HandleTransfer, fresh
<1>8. CASE d.pipe.state = "Idle" /\ fresh.chan.st = "Idle"
  <2>1. /\ f \in Links
        /\ f.chan.st = "Requested" /\ f.chan.req = bus.out.apdu
        /\ f.pipe.state = "Processing" /\ f.pipe.control = NoSeq
        /\ f.pipe.seq = bus.out.seq /\ f.in = d.in /\ f.pipe.outbox = d.pipe.outbox
    BY <1>0, <1>1, <1>2 DEF CallApp, Links, Pipes, Channels, Commands
  <2> HIDE DEF f
  <2>2. /\ bus.out.apdu.id = host.of /\ bus.out.seq = host.seq /\ host.of[1] <= count.session
        /\ host.st \in {"idle", "transfer", "more"} /\ MayRun(bus.out.apdu)
    BY DEF BoardInv, CommandInv, HostInv
  <2>3. Answering(f) /\ OwnPackets(f)
    BY <2>1, <2>2 DEF LinkInv, Answering, OwnPackets, OwnStatus
  <2>4. LinkInv(f, NoCommand, NoSeq)
    BY <1>0, <2>1, <2>2, <2>3, EmptyTypes DEF LinkInv, TypeOK
  <2> QED BY <1>1, <1>8, <2>4 DEF HandleTransfer, fresh, f
<1> QED BY <1>6, <1>7, <1>8

\* A command received on the bulk pipe.
LEMMA OutKeeps ==
  ASSUME BoardInv, NEW d, LinkInv(d, bus.out, NoSeq)
  PROVE  LinkInv(PollOut(d), NoCommand, NoSeq)
<1> DEFINE c == bus.out
           d1 == [d EXCEPT !.pipe.seq = c.seq]
           e == [d1 EXCEPT !.pipe.bulk = NoSeq]
           g == [e EXCEPT !.pipe.bulk = c.seq]
<1>0. TypeOK /\ c \in Commands /\ c.seq \in Nat /\ d \in Links /\ NoSeq \in Nat
      /\ NoCommand \in Commands
  BY EmptyTypes DEF BoardInv, TypeOK, LinkInv, Commands
<1>1. CASE c = NoCommand
  BY <1>1 DEF PollOut
<1>2. CASE c # NoCommand
  <2>1. c.kind \in {"on", "xfr", "more", "abort"}
    <3>1. c.kind # "none"
      BY <1>2 DEF BoardInv, CommandInv
    <3> QED BY <1>0, <3>1 DEF Commands
  <2>2. Received(d, d1)
    BY <1>0 DEF Received, Links, Pipes
  <2>a. Received(d, e)
    BY <1>0 DEF Received, Links, Pipes
  <2>b. Received(d, g)
    BY <1>0 DEF Received, Links, Pipes
  <2>c. d1.pipe.control = d.pipe.control /\ d1.pipe.seq = c.seq /\ e.pipe.state = d.pipe.state
    BY <2>2, <2>a DEF Received
  <2> HIDE DEF d1, e, g
  <2>3. PollOut(d) = HandlePacket(d, c)
    BY <1>2 DEF PollOut
  <2>4. CASE d.pipe.control # NoSeq
    <3>1. ~(c.kind = "xfr" /\ CurrentWork(d))
      BY <2>4 DEF BoardInv, CommandInv, LinkInv
    <3>2. LinkInv(d1, NoCommand, NoSeq)
      BY <2>1, <2>2, <3>1, ReceiveKeeps
    <3>3. CASE c.kind = "abort" /\ d1.pipe.control = c.seq
      <4>1. Greeted /\ c.seq <= host.seq
        BY <3>3 DEF BoardInv, CommandInv
      <4>2. LinkInv(Abort(d1), NoCommand, NoSeq)
        BY <1>0, <2>c, <3>2, <4>1, AbortKeeps
      <4> QED BY <2>c, <2>3, <2>4, <3>3, <4>2 DEF HandlePacket, d1, e
    <3>4. CASE ~(c.kind = "abort" /\ d1.pipe.control = c.seq)
      <4>1. LinkInv(SendPacket(d1, Packet("refused", c.seq)), NoCommand, NoSeq)
        BY <1>0, <3>2, SendKeeps
      <4> QED BY <2>c, <2>3, <2>4, <3>4, <4>1 DEF HandlePacket, d1, e, g
    <3> QED BY <3>3, <3>4
  <2>5. CASE d.pipe.control = NoSeq
    <3>1. CASE c.kind = "on"
      <4>1. LinkInv(e, NoCommand, NoSeq)
        BY <2>a, <3>1, ReceiveKeeps
      <4>2. LinkInv(SendPacket(e, Packet("atr", c.seq)), NoCommand, NoSeq)
        BY <1>0, <4>1, SendKeeps
      <4> QED BY <2>c, <2>3, <2>5, <3>1, <4>2 DEF HandlePacket, d1, e
    <3>2. CASE c.kind = "abort"
      <4>1. LinkInv(g, NoCommand, NoSeq)
        BY <2>b, <3>2, ReceiveKeeps
      <4> QED BY <2>c, <2>3, <2>5, <3>2, <4>1 DEF HandlePacket, d1, e, g
    <3>3. CASE c.kind = "xfr"
      <4>1. LinkInv(HandleTransfer(e, c), NoCommand, NoSeq)
        BY <2>a, <2>5, <3>3, TransferKeeps
      <4> QED BY <2>c, <2>3, <2>5, <3>3, <4>1 DEF HandlePacket, d1, e, g
    <3>4. CASE c.kind = "more"
      <4>1. LinkInv(e, NoCommand, NoSeq)
        BY <2>a, <3>4, ReceiveKeeps
      <4>2. LinkInv(ResetState(e), NoCommand, NoSeq)
        BY <1>0, <4>1, ResetKeeps
      <4>3. e.pipe.state = "Sending" => LinkInv(PrimeOutbox(e), NoCommand, NoSeq)
        BY <1>0, <4>1, PrimeKeeps DEF AtWork
      <4>4. LinkInv(HandleTransfer(e, c), NoCommand, NoSeq)
        <5> HIDE DEF e
        <5> QED BY <3>4, <4>2, <4>3 DEF HandleTransfer
      <4> QED BY <2>c, <2>3, <2>5, <3>4, <4>4 DEF HandlePacket, d1, e
    <3> QED BY <2>1, <3>1, <3>2, <3>3, <3>4
  <2> QED BY <2>4, <2>5
<1> QED BY <1>1, <1>2

\* The start and drain marks are not part of the invariant.
LEMMA MarkKeeps ==
  ASSUME TypeOK, NEW d, NEW out \in Commands, NEW ctl \in Nat, LinkInv(d, out, ctl)
  PROVE  /\ LinkInv([d EXCEPT !.pipe.started = FALSE], out, ctl)
         /\ LinkInv([d EXCEPT !.pipe.drained = FALSE], out, ctl)
<1> DEFINE e == [d EXCEPT !.pipe.started = FALSE]
           f == [d EXCEPT !.pipe.drained = FALSE]
<1>0. d \in Links
  BY DEF LinkInv
<1>1. /\ e \in Links
      /\ e.chan = d.chan /\ e.pipe.state = d.pipe.state
      /\ e.pipe.seq = d.pipe.seq /\ e.pipe.control = d.pipe.control
      /\ e.in.pkt = d.in.pkt /\ e.pipe.outbox = d.pipe.outbox
  BY <1>0 DEF Links, Pipes
<1>2. /\ f \in Links
      /\ f.chan = d.chan /\ f.pipe.state = d.pipe.state
      /\ f.pipe.seq = d.pipe.seq /\ f.pipe.control = d.pipe.control
      /\ f.in.pkt = d.in.pkt /\ f.pipe.outbox = d.pipe.outbox
  BY <1>0 DEF Links, Pipes
<1> HIDE DEF e, f
<1>3. LinkInv(e, out, ctl)
  BY <1>1, LinkFrame DEF AtWork
<1>4. LinkInv(f, out, ctl)
  BY <1>2, LinkFrame DEF AtWork
<1> QED BY <1>3, <1>4 DEF e, f

\* One poll of the device keeps the invariant of the link.
LEMMA PollKeeps ==
  ASSUME BoardInv, NEW due \in BOOLEAN,
         NEW d1, d1 = CheckForAppResponse(link),
         NEW d2, d2 = PollControl(FreedIn(d1)),
         NEW d3, d3 = PollOut(d2),
         NEW d4, d4 = IF d1.in.done THEN EndpointInComplete(d3) ELSE d3,
         NEW d5, d5 = IF due THEN SendWaitExtension(d4) ELSE d4,
         NEW d6, d6 = CheckForAppResponse([d5 EXCEPT !.pipe.started = FALSE])
  PROVE  /\ LinkInv(d4, NoCommand, NoSeq) /\ LinkInv(d6, NoCommand, NoSeq)
         /\ LinkInv([d6 EXCEPT !.pipe.drained = FALSE], NoCommand, NoSeq)
<1>0. TypeOK /\ bus.out \in Commands /\ bus.ctl \in Nat /\ NoSeq \in Nat /\ NoCommand \in Commands
  BY EmptyTypes DEF BoardInv, TypeOK
<1>1. LinkInv(d1, bus.out, bus.ctl)
  BY <1>0, CheckKeeps DEF BoardInv
<1>2. LinkInv(FreedIn(d1), bus.out, bus.ctl)
  BY <1>0, <1>1, CompleteKeeps
<1>3. LinkInv(d2, bus.out, NoSeq)
  BY <1>2, ControlKeeps
<1>4. LinkInv(d3, NoCommand, NoSeq)
  BY <1>3, OutKeeps
<1>5. LinkInv(d4, NoCommand, NoSeq)
  BY <1>0, <1>4, CompleteKeeps
<1>6. LinkInv(d5, NoCommand, NoSeq)
  BY <1>0, <1>5, ExtensionKeeps
<1>7. LinkInv([d5 EXCEPT !.pipe.started = FALSE], NoCommand, NoSeq)
  BY <1>0, <1>6, MarkKeeps
<1>8. LinkInv(d6, NoCommand, NoSeq)
  BY <1>0, <1>7, CheckKeeps
<1>9. LinkInv([d6 EXCEPT !.pipe.drained = FALSE], NoCommand, NoSeq)
  BY <1>0, <1>8, MarkKeeps
<1> QED BY <1>5, <1>8, <1>9

-----------------------------------------------------------------------------
(* Actions *)

\* Start-up keeps the invariant: the ownership word is programmed before
\* storage is opened.
LEMMA BootKeeps ==
  ASSUME BoardInv, BootCheck \/ ProgramOwnershipMarker \/ BootHalts \/ OpenCard
  PROVE  BoardInv'
<1> USE DEF BoardInv
<1>0. TypeOK /\ OwnedBeforeState /\ BootInv
  OBVIOUS
<1>1. UNCHANGED <<bus, link, flags, worker, host, card, count>>
  BY DEF BootCheck, ProgramOwnershipMarker, BootHalts, OpenCard
<1>2. boot' \in [phase : {"check", "claim", "open", "run", "halt", "stuck"},
               marker : {"erased", "torn", "programmed"},
               storage : {"erased", "torn", "written"}]
  <2>1. CASE BootCheck
    BY <1>0, <2>1 DEF BootCheck, TypeOK
  <2>2. CASE ProgramOwnershipMarker
    BY <1>0, <2>2 DEF ProgramOwnershipMarker, TypeOK
  <2>3. CASE BootHalts
    BY <1>0, <2>3 DEF BootHalts, TypeOK
  <2>4. CASE OpenCard
    BY <1>0, <2>4 DEF OpenCard, TypeOK
  <2> QED BY <2>1, <2>2, <2>3, <2>4
<1>3. TypeOK'
  BY <1>0, <1>1, <1>2 DEF TypeOK
<1>4. OwnedBeforeState' /\ BootInv'
  <2>1. CASE BootCheck
    BY <1>0, <2>1 DEF BootCheck, TypeOK, OwnedBeforeState, BootInv, OwnershipMarkerAction
  <2>2. CASE ProgramOwnershipMarker \/ BootHalts \/ OpenCard
    BY <1>0, <2>2 DEF ProgramOwnershipMarker, BootHalts, OpenCard, TypeOK, OwnedBeforeState,
       BootInv
  <2> QED BY <2>1, <2>2
<1>5. boot.phase \notin {"run", "stuck"}
  BY DEF BootCheck, ProgramOwnershipMarker, BootHalts, OpenCard
<1>6. SessionInv'
  BY <1>1, <1>5 DEF SessionInv, Running
<1>7. CommandInv' /\ HostInv'
  BY <1>1 DEF CommandInv, HostInv, Greeted, MayRun, OwnData, Current
<1>8. LinkInv(link, bus.out, bus.ctl)'
  BY <1>1 DEF LinkInv, Answering, MayRun, OwnPackets, OwnData, OwnStatus, CurrentWork,
     Current, Greeted, AtWork
<1> QED BY <1>3, <1>4, <1>6, <1>7, <1>8

\* A restart begins with fresh RAM, no connection, and a reset card.
LEMMA RestartKeeps ==
  ASSUME BoardInv, NEW m \in {"erased", "torn", "programmed"},
         NEW t \in {"erased", "torn", "written"}, Restart(m, t),
         t # "erased" => m # "erased",
         count'.era = count.era, count'.session = count.session + 1,
         count' \in Counts
  PROVE  BoardInv'
<1>0. TypeOK
  BY DEF BoardInv
<1>1. /\ NoHost \in Hosts
      /\ NoHost.st = "gone" /\ NoHost.of = NoId /\ NoHost.got = NoId /\ NoHost.part = NoPacket
  BY EmptyTypes DEF NoHost
<1>2. /\ FreshLink \in Links /\ FreshLink.pipe = FreshPipe
      /\ FreshLink.in.pkt = NoPacket
      /\ FreshLink.chan.st = "Idle" /\ FreshLink.chan.req = NoRequest
  BY EmptyTypes DEF FreshLink, Links, Channels
<1>3. /\ FreshWorker \in Workers
      /\ FreshWorker.pc = "off" /\ FreshWorker.req = NoRequest
  BY EmptyTypes DEF FreshWorker
<1>4. FreshFlags \in [reset : BOOLEAN, work : BOOLEAN, idle : BOOLEAN, faulted : BOOLEAN,
                faultReset : BOOLEAN]
  BY DEF FreshFlags
<1>5. /\ bus' \in [power : BOOLEAN, started : BOOLEAN, ext : BOOLEAN, out : Commands, ctl : Nat]
      /\ bus'.out = NoCommand /\ bus'.ctl = NoSeq /\ bus'.started = FALSE
  BY <1>0, EmptyTypes DEF Restart, TypeOK
<1>6. /\ link' = FreshLink /\ flags' = FreshFlags /\ worker' = FreshWorker /\ host' = NoHost
      /\ card' = [era |-> count.era]
      /\ boot' = [phase |-> "check", marker |-> m, storage |-> t]
  BY DEF Restart
<1>7. count.era \in Nat /\ count.session \in Nat
  BY <1>0 DEF TypeOK
<1>8. TypeOK'
  BY <1>1, <1>2, <1>3, <1>4, <1>5, <1>6, <1>7 DEF TypeOK
<1>9. OwnedBeforeState' /\ BootInv'
  BY <1>6 DEF OwnedBeforeState, BootInv
<1>10. SessionInv'
  BY <1>3, <1>5, <1>6, <1>7, EmptyTypes DEF SessionInv
<1>11. CommandInv' /\ HostInv'
  BY <1>1, <1>5, <1>6, <1>7, EmptyTypes DEF CommandInv, HostInv, Greeted, MayRun, OwnData
<1>12. LinkInv(link, bus.out, bus.ctl)'
  <2>1. ~AtWork(link)'
    BY <1>2, <1>6, EmptyTypes DEF AtWork
  <2>2. Answering(link)' /\ MayRun(link.chan.req)'
    BY <1>2, <1>6, <1>7, EmptyTypes DEF Answering, MayRun
  <2>3. OwnPackets(link)'
    BY <1>1, <1>2, <1>6, EmptyTypes DEF OwnPackets, OwnData, OwnStatus
  <2> QED BY <1>1, <1>2, <1>5, <1>6, <1>7, <2>1, <2>2, <2>3, EmptyTypes
      DEF LinkInv, CurrentWork, Greeted
<1> QED BY <1>8, <1>9, <1>10, <1>11, <1>12 DEF BoardInv

\* The USB task stops in the diagnostic loop and leaves everything as it is.
LEMMA UsbHaltsKeeps == BoardInv /\ UsbHalts => BoardInv'
<1> SUFFICES ASSUME BoardInv, UsbHalts PROVE BoardInv'
  OBVIOUS
<1>0. TypeOK /\ OwnedBeforeState /\ SessionInv
  BY DEF BoardInv
<1>1. /\ UNCHANGED <<bus, link, flags, worker, host, card, count>>
      /\ boot' = [boot EXCEPT !.phase = "stuck"]
  BY DEF UsbHalts
<1>2. TypeOK' /\ OwnedBeforeState' /\ BootInv' /\ boot'.phase = "stuck"
  BY <1>0, <1>1 DEF TypeOK, OwnedBeforeState, BootInv
<1>3. SessionInv'
  BY <1>0, <1>1, <1>2 DEF SessionInv
<1>4. CommandInv' /\ HostInv'
  BY <1>1 DEF BoardInv, CommandInv, HostInv, Greeted, MayRun, OwnData, Current
<1>5. LinkInv(link, bus.out, bus.ctl)'
  BY <1>1 DEF BoardInv, LinkInv, Answering, MayRun, OwnPackets, OwnData, OwnStatus,
     CurrentWork, Current, Greeted, AtWork
<1> QED BY <1>2, <1>3, <1>4, <1>5 DEF BoardInv

\* A halted start-up restarts on command.
LEMMA HaltedResetKeeps == BoardInv /\ HaltedReset => BoardInv'
<1> SUFFICES ASSUME BoardInv, HaltedReset PROVE BoardInv'
  OBVIOUS
<1>0. TypeOK /\ OwnedBeforeState
  BY DEF BoardInv
<1>1. /\ boot.marker \in {"erased", "torn", "programmed"}
      /\ boot.storage \in {"erased", "torn", "written"}
      /\ boot.storage # "erased" => boot.marker # "erased"
  BY <1>0 DEF TypeOK, OwnedBeforeState
<1>2. /\ count' \in Counts /\ count'.era = count.era /\ count'.session = count.session + 1
  <2>1. count \in Counts
    BY <1>0 DEF TypeOK
  <2>2. count' = [count EXCEPT !.losses = @ + 1, !.session = @ + 1, !.told = FALSE]
    BY DEF HaltedReset
  <2>3. count.losses + 1 \in Nat /\ count.session + 1 \in Nat
    BY <2>1
  <2> QED BY <2>1, <2>2, <2>3
<1>3. Restart(boot.marker, boot.storage)
  BY DEF HaltedReset
<1> QED BY <1>1, <1>2, <1>3, RestartKeeps

\* A supply cut, wherever it falls during start-up.
LEMMA CutKeeps == BoardInv /\ SupplyCut => BoardInv'
<1> SUFFICES ASSUME BoardInv, SupplyCut PROVE BoardInv'
  OBVIOUS
<1>0. TypeOK /\ OwnedBeforeState /\ BootInv
  BY DEF BoardInv
<1>1. PICK m \in IF boot.phase = "claim" THEN {"erased", "torn", "programmed"} ELSE {boot.marker},
           t \in IF boot.phase = "open" /\ boot.storage = "erased"
                 THEN {"erased", "torn", "written"} ELSE {boot.storage} : Restart(m, t)
  BY DEF SupplyCut
<1>2. m \in {"erased", "torn", "programmed"} /\ t \in {"erased", "torn", "written"}
  BY <1>0, <1>1 DEF TypeOK
<1>3. t # "erased" => m # "erased"
  BY <1>0, <1>1 DEF OwnedBeforeState, BootInv
<1>4. /\ count' \in Counts /\ count'.era = count.era /\ count'.session = count.session + 1
  <2>1. count \in Counts
    BY <1>0 DEF TypeOK
  <2>2. count' = [count EXCEPT !.losses = @ + 1, !.session = @ + 1, !.told = FALSE]
    BY DEF SupplyCut
  <2>3. count.losses + 1 \in Nat /\ count.session + 1 \in Nat
    BY <2>1
  <2> QED BY <2>1, <2>2, <2>3
<1> QED BY <1>1, <1>2, <1>3, <1>4, RestartKeeps

\* The USB task sees the loss of VBUS and asks for a reset.
LEMMA LossKeeps == BoardInv /\ UsbNoticesLoss => BoardInv'
<1> SUFFICES ASSUME BoardInv, UsbNoticesLoss PROVE BoardInv'
  OBVIOUS
<1>0. TypeOK /\ LinkInv(link, bus.out, bus.ctl) /\ bus.out \in Commands /\ bus.ctl \in Nat
  BY DEF BoardInv, TypeOK
<1>1. /\ UNCHANGED <<boot, link, host, card, count>>
      /\ flags' = [flags EXCEPT !.reset = TRUE] /\ flags'.reset
      /\ bus'.out = bus.out /\ bus'.ctl = bus.ctl /\ bus'.power = bus.power /\ ~bus'.started
      /\ bus' \in [power : BOOLEAN, started : BOOLEAN, ext : BOOLEAN, out : Commands, ctl : Nat]
  BY <1>0 DEF UsbNoticesLoss, TypeOK
<1>2. /\ worker' \in Workers
      /\ worker'.req = worker.req /\ worker'.rsp = worker.rsp
      /\ worker'.pc = worker.pc \/ (worker.pc = "off" /\ worker'.pc = "head")
  BY <1>0 DEF UsbNoticesLoss, Spawned, TypeOK
<1>4. TypeOK'
  BY <1>0, <1>1, <1>2 DEF TypeOK
<1>5. OwnedBeforeState' /\ BootInv'
  BY <1>1 DEF BoardInv, OwnedBeforeState, BootInv
<1>6. SessionInv'
  BY <1>1, <1>2 DEF BoardInv, SessionInv
<1>7. CommandInv' /\ HostInv'
  BY <1>1, <1>2 DEF BoardInv, CommandInv, HostInv, Greeted, MayRun, OwnData, Current
<1>8. LinkInv(link, bus.out, bus.ctl)'
  BY <1>0, <1>1, <1>2 DEF LinkInv, Answering, MayRun, OwnPackets, OwnData, OwnStatus,
     CurrentWork, Current, Greeted, AtWork
<1> QED BY <1>4, <1>5, <1>6, <1>7, <1>8 DEF BoardInv

\* A poll of the device, with or without a fault reset at its end.
LEMMA PollBoardKeeps == BoardInv /\ UsbPoll => BoardInv'
<1> SUFFICES ASSUME BoardInv, UsbPoll PROVE BoardInv'
  OBVIOUS
<1>0. TypeOK
  BY DEF BoardInv
<1> DEFINE d1 == CheckForAppResponse(link)
           d2 == PollControl(FreedIn(d1))
           d3 == PollOut(d2)
           d4 == IF d1.in.done THEN EndpointInComplete(d3) ELSE d3
           d5(due) == IF due THEN SendWaitExtension(d4) ELSE d4
           d6(due) == CheckForAppResponse([d5(due) EXCEPT !.pipe.started = FALSE])
<1> HIDE DEF d1, d2, d3, d4, d5, d6
<1>1. PICK due \in BOOLEAN : PollEnd(due, d4, d6(due))
  BY DEF UsbPoll, d1, d2, d3, d4, d5, d6
<1>2. /\ LinkInv(d4, NoCommand, NoSeq) /\ LinkInv(d6(due), NoCommand, NoSeq)
      /\ LinkInv([d6(due) EXCEPT !.pipe.drained = FALSE], NoCommand, NoSeq)
  BY PollKeeps DEF d1, d2, d3, d4, d5, d6
<1>3. CASE d6(due).pipe.drained /\ flags.faultReset
  <2>1. /\ Restart(boot.marker, boot.storage)
        /\ count' = [count EXCEPT !.session = @ + 1, !.told = FALSE]
    BY <1>1, <1>3 DEF PollEnd
  <2>2. /\ count' \in Counts /\ count'.era = count.era /\ count'.session = count.session + 1
    <3>1. count \in Counts
      BY <1>0 DEF TypeOK
    <3>2. count.session + 1 \in Nat
      BY <3>1
    <3> QED BY <2>1, <3>1, <3>2
  <2>3. /\ boot.marker \in {"erased", "torn", "programmed"}
        /\ boot.storage \in {"erased", "torn", "written"}
        /\ boot.storage # "erased" => boot.marker # "erased"
    BY <1>0 DEF TypeOK, BoardInv, OwnedBeforeState
  <2> QED BY <2>1, <2>2, <2>3, RestartKeeps
<1>4. CASE ~(d6(due).pipe.drained /\ flags.faultReset)
  <2>1. /\ link' = [d6(due) EXCEPT !.pipe.drained = FALSE]
        /\ bus' = [bus EXCEPT !.started = TRUE, !.out = NoCommand, !.ctl = NoSeq,
                  !.ext = d4.pipe.started \/ (@ /\ (due => d4.pipe.state = "Processing"))]
        /\ flags' = [flags EXCEPT !.work = @ \/ d4.pipe.started,
                                       !.idle = @ \/ d6(due).pipe.drained]
        /\ worker' = IF d4.pipe.started \/ d6(due).pipe.drained
                          THEN Spawned(worker) ELSE worker
        /\ UNCHANGED <<boot, host, card, count>>
    BY <1>1, <1>4 DEF PollEnd
  <2>2. Running /\ bus.power
    BY DEF UsbPoll
  <2>3. d4.pipe.started \in BOOLEAN /\ d6(due).pipe.drained \in BOOLEAN
    BY <1>2 DEF LinkInv, Links, Pipes
  <2>4. /\ bus' \in [power : BOOLEAN, started : BOOLEAN, ext : BOOLEAN, out : Commands, ctl : Nat]
        /\ bus'.out = NoCommand /\ bus'.ctl = NoSeq /\ bus'.power
    BY <1>0, <2>1, <2>2, <2>3, EmptyTypes DEF TypeOK
  <2>5. /\ flags' \in [reset : BOOLEAN, work : BOOLEAN, idle : BOOLEAN, faulted : BOOLEAN,
                        faultReset : BOOLEAN]
        /\ flags'.reset = flags.reset
    BY <1>0, <2>1, <2>3 DEF TypeOK
  <2>6. /\ worker' \in Workers
        /\ worker'.req = worker.req /\ worker'.rsp = worker.rsp
        /\ worker'.pc = worker.pc \/ (worker.pc = "off" /\ worker'.pc = "head")
    BY <1>0, <2>1 DEF Spawned, TypeOK
  <2>7. LinkInv(link', NoCommand, NoSeq) /\ UNCHANGED <<boot, host, card, count>>
    BY <1>2, <2>1
  <2>8. TypeOK'
    BY <1>0, <2>4, <2>5, <2>6, <2>7 DEF TypeOK, LinkInv
  <2>9. OwnedBeforeState' /\ BootInv'
    BY <2>7 DEF BoardInv, OwnedBeforeState, BootInv
  <2>10. SessionInv'
    BY <2>2, <2>4, <2>5, <2>6, <2>7 DEF BoardInv, SessionInv, Running
  <2>11. CommandInv' /\ HostInv'
    <3>1. MayRun(NoRequest)
      BY <1>0, EmptyTypes DEF MayRun, TypeOK
    <3>2. CommandInv'
      BY <2>4, <2>5, <2>6, <2>7, <3>1, EmptyTypes DEF CommandInv, MayRun
    <3>3. HostInv'
      BY <2>4, <2>7, EmptyTypes DEF BoardInv, HostInv, Greeted, OwnData, Current
    <3> QED BY <3>2, <3>3
  <2>12. LinkInv(link, bus.out, bus.ctl)'
    BY <2>4, <2>5, <2>6, <2>7 DEF LinkInv, Answering, MayRun, OwnPackets, OwnData, OwnStatus,
       CurrentWork, Current, Greeted, AtWork
  <2> QED BY <2>8, <2>9, <2>10, <2>11, <2>12 DEF BoardInv
<1> QED BY <1>3, <1>4

\* The timer tick starts a worker that was not running.
LEMMA TickKeeps == BoardInv /\ Tick => BoardInv'
<1> SUFFICES ASSUME BoardInv, Tick PROVE BoardInv'
  OBVIOUS
<1>0. TypeOK
  BY DEF BoardInv
<1>1. /\ UNCHANGED <<boot, bus, link, flags, host, card, count>>
      /\ worker' \in Workers
      /\ worker'.req = worker.req /\ worker.pc = "off" /\ worker'.pc = "head"
  BY <1>0 DEF Tick, Spawned, TypeOK
<1>2. TypeOK' /\ OwnedBeforeState' /\ BootInv'
  BY <1>0, <1>1 DEF TypeOK, BoardInv, OwnedBeforeState, BootInv
<1>3. SessionInv'
  BY <1>1 DEF BoardInv, SessionInv, Running
<1>4. CommandInv' /\ HostInv'
  BY <1>1 DEF BoardInv, CommandInv, HostInv, Greeted, MayRun, OwnData, Current
<1>5. LinkInv(link, bus.out, bus.ctl)'
  BY <1>1 DEF BoardInv, LinkInv, Answering, MayRun, OwnPackets, OwnData, OwnStatus,
     CurrentWork, Current, Greeted, AtWork
<1> QED BY <1>2, <1>3, <1>4, <1>5 DEF BoardInv

\* The worker's loop between its requests applies a pending reset before it
\* takes a request.
LEMMA LoopKeeps ==
  BoardInv /\ (WorkerHead \/ WorkerReset \/ WorkerTaken \/ WorkerIdle) => BoardInv'
<1> SUFFICES ASSUME BoardInv, WorkerHead \/ WorkerReset \/ WorkerTaken \/ WorkerIdle
             PROVE  BoardInv'
  OBVIOUS
<1>0. /\ TypeOK /\ LinkInv(link, bus.out, bus.ctl) /\ SessionInv
      /\ worker \in Workers /\ card \in [era : Nat] /\ count.era \in Nat
      /\ flags \in [reset : BOOLEAN, work : BOOLEAN, idle : BOOLEAN, faulted : BOOLEAN,
                    faultReset : BOOLEAN]
  BY DEF BoardInv, TypeOK
<1>1. UNCHANGED <<boot, bus, link, host, count>>
  BY DEF WorkerHead, WorkerReset, WorkerTaken, WorkerIdle
<1>2. /\ worker' \in Workers /\ worker'.req = worker.req /\ worker'.rsp = worker.rsp
      /\ flags' \in [reset : BOOLEAN, work : BOOLEAN, idle : BOOLEAN, faulted : BOOLEAN,
                    faultReset : BOOLEAN]
      /\ card' \in [era : Nat]
      /\ \/ /\ worker.pc = "head" /\ worker'.pc = IF flags.reset THEN "reset" ELSE "take"
            /\ card' = card
         \/ /\ worker.pc = "reset" /\ worker'.pc = "take" /\ card'.era = count.era
         \/ /\ worker.pc = "taken" /\ worker'.pc = "execute"
            /\ card' = card /\ flags'.reset = flags.reset
         \/ /\ worker.pc = "idle" /\ worker'.pc \in {"head", "maintain", "exit"}
            /\ card' = card /\ flags'.reset = flags.reset
  <2>1. CASE WorkerHead
    BY <1>0, <2>1 DEF WorkerHead
  <2>2. CASE WorkerReset
    BY <1>0, <2>2 DEF WorkerReset
  <2>3. CASE WorkerTaken
    BY <1>0, <2>3 DEF WorkerTaken
  <2>4. CASE WorkerIdle
    BY <1>0, <2>4 DEF WorkerIdle
  <2> QED BY <2>1, <2>2, <2>3, <2>4
<1>3. TypeOK' /\ OwnedBeforeState' /\ BootInv'
  BY <1>0, <1>1, <1>2 DEF TypeOK, BoardInv, OwnedBeforeState, BootInv
<1>4. SessionInv'
  BY <1>0, <1>1, <1>2 DEF SessionInv
<1>6. link.chan.req \in Requests /\ bus.out.apdu \in Requests
  BY <1>0 DEF TypeOK, Links, Channels, Commands
<1>7. MayRun(link.chan.req)' /\ MayRun(bus.out.apdu)'
  <2>1. MayRun(link.chan.req) /\ MayRun(bus.out.apdu)
    BY DEF BoardInv, LinkInv, CommandInv
  <2> QED BY <1>0, <1>1, <1>2, <1>6, <2>1 DEF MayRun, Requests
<1>8. CommandInv' /\ HostInv'
  BY <1>1, <1>7 DEF BoardInv, CommandInv, HostInv, Greeted, OwnData, Current
<1>9. LinkInv(link, bus.out, bus.ctl)'
  <2>1. Answering(link)'
    BY <1>0, <1>1, <1>2 DEF LinkInv, Answering
  <2> QED BY <1>0, <1>1, <1>7, <2>1 DEF LinkInv, OwnPackets, OwnData, OwnStatus,
      CurrentWork, Current, Greeted, AtWork
<1> QED BY <1>3, <1>4, <1>8, <1>9 DEF BoardInv

\* The request the worker takes is one the endpoint may run.
LEMMA TakeKeeps == BoardInv /\ WorkerTake => BoardInv'
<1> SUFFICES ASSUME BoardInv, WorkerTake PROVE BoardInv'
  OBVIOUS
<1>0. /\ TypeOK /\ LinkInv(link, bus.out, bus.ctl) /\ SessionInv
      /\ worker \in Workers /\ link \in Links /\ link.chan.req \in Requests
  BY DEF BoardInv, TypeOK, Links, Channels
<1> DEFINE requested == link.chan.st = "Requested"
<1>1. UNCHANGED <<boot, bus, flags, host, card, count>> /\ worker.pc = "take"
  BY DEF WorkerTake
<1>2. /\ worker' \in Workers
      /\ worker'.req = IF requested THEN link.chan.req ELSE worker.req
      /\ worker'.pc = IF requested THEN "taken" ELSE "idle"
  <2>1. CASE requested
    <3>1. worker' = [worker EXCEPT !.pc = "taken", !.req = link.chan.req]
      BY <2>1 DEF WorkerTake
    <3> QED BY <1>0, <2>1, <3>1
  <2>2. CASE ~requested
    <3>1. worker' = [worker EXCEPT !.pc = "idle"]
      BY <2>2 DEF WorkerTake
    <3> QED BY <1>0, <2>2, <3>1
  <2> QED BY <2>1, <2>2
<1>3. /\ link' \in Links /\ link'.pipe = link.pipe /\ link'.in = link.in
      /\ link'.chan.req = link.chan.req /\ link'.chan.rsp = link.chan.rsp
      /\ link'.chan.st = IF requested THEN "BuildingResponse" ELSE link.chan.st
  <2>1. link' = IF requested THEN [link EXCEPT !.chan.st = "BuildingResponse"] ELSE link
    BY DEF WorkerTake
  <2> QED BY <1>0, <2>1 DEF Links, Channels
<1>4. TypeOK' /\ OwnedBeforeState' /\ BootInv'
  BY <1>0, <1>1, <1>2, <1>3 DEF TypeOK, BoardInv, OwnedBeforeState, BootInv
<1>5. /\ MayRun(link.chan.req) /\ MayRun(bus.out.apdu)
      /\ EnumerationIsSlow => link.chan.req.era <= card.era /\ bus.out.apdu.era <= card.era
  <2>1. MayRun(link.chan.req) /\ MayRun(bus.out.apdu)
    BY DEF BoardInv, LinkInv, CommandInv
  <2> QED BY <1>1, <2>1 DEF MayRun
<1>6. SessionInv'
  <2>1. worker'.req.id[1] <= count.session
    BY <1>0, <1>2 DEF SessionInv, LinkInv
  <2> QED BY <1>0, <1>1, <1>2, <1>5, <2>1 DEF SessionInv
<1>7. MayRun(link.chan.req)' /\ MayRun(bus.out.apdu)'
  BY <1>1, <1>3, <1>5 DEF MayRun
<1>8. CommandInv' /\ HostInv'
  BY <1>1, <1>7 DEF BoardInv, CommandInv, HostInv, Greeted, OwnData, Current
<1>9. LinkInv(link, bus.out, bus.ctl)'
  <2>1. Answering(link)'
    <3>1. ~(link.chan.st = "BuildingResponse")
      BY <1>0, <1>1 DEF LinkInv, Answering
    <3> QED BY <1>0, <1>2, <1>3, <3>1 DEF Answering, LinkInv
  <2>2. (CurrentWork(link)' <=> CurrentWork(link)) /\ (Current(link.chan.req.id)' <=> Current(link.chan.req.id))
    BY <1>1, <1>3 DEF CurrentWork, Current, AtWork
  <2>3. OwnPackets(link)'
    BY <1>0, <1>1, <1>3, <2>2 DEF LinkInv, OwnPackets, OwnData, OwnStatus, Greeted, Current
  <2> QED BY <1>0, <1>1, <1>3, <1>7, <2>1, <2>2, <2>3 DEF LinkInv, Greeted, Current
<1> QED BY <1>4, <1>6, <1>8, <1>9 DEF BoardInv

\* The rest of the worker's loop.
LEMMA WorkerKeeps ==
  BoardInv /\ (WorkerExecute \/ WorkerRespond \/ WorkerFlag \/ WorkerMaintain \/ WorkerExit)
    => BoardInv'
<1> SUFFICES ASSUME BoardInv,
                    WorkerExecute \/ WorkerRespond \/ WorkerFlag \/ WorkerMaintain \/ WorkerExit
             PROVE  BoardInv'
  OBVIOUS
<1>0. /\ TypeOK /\ LinkInv(link, bus.out, bus.ctl) /\ SessionInv
      /\ worker \in Workers /\ worker.req \in Requests
  BY DEF BoardInv, TypeOK
<1>1. /\ UNCHANGED <<boot, bus, host, card>> /\ flags'.reset = flags.reset
      /\ flags' \in [reset : BOOLEAN, work : BOOLEAN, idle : BOOLEAN, faulted : BOOLEAN,
                      faultReset : BOOLEAN]
  BY <1>0 DEF WorkerExecute, WorkerRespond, WorkerFlag, WorkerMaintain, WorkerExit, TypeOK
<1>2. count' \in Counts /\ count'.session = count.session /\ count'.era = count.era
  <2>1. count \in Counts /\ count.faults + 1 \in Nat
    BY <1>0 DEF TypeOK
  <2>2. UNCHANGED count \/ count' = [count EXCEPT !.faults = @ + 1]
    BY DEF WorkerExecute, WorkerRespond, WorkerFlag, WorkerMaintain, WorkerExit
  <2> QED BY <2>1, <2>2
<1>3. /\ worker' \in Workers
      /\ worker'.req \in {worker.req, NoRequest}
      /\ worker'.pc \notin {"taken", "execute", "reset", "take"}
      /\ worker.pc \notin {"reset", "take"}
      /\ worker'.pc = "respond" =>
           worker.pc = "execute" /\ worker'.req = worker.req /\ worker'.rsp.id = worker.req.id
  <2>1. CASE WorkerExecute
    <3>1. PICK shape \in IF flags.faulted THEN {<<1, FALSE>>} ELSE Replies :
            worker' = [worker EXCEPT !.pc = "respond",
              !.rsp = [id |-> worker.req.id, blocks |-> shape[1], full |-> shape[2]]]
      BY <2>1 DEF WorkerExecute
    <3>2. shape[1] \in Nat /\ shape[2] \in BOOLEAN
      <4>1. <<1, FALSE>> \in Nat \X BOOLEAN
        OBVIOUS
      <4>2. shape \in Nat \X BOOLEAN
        BY <4>1, <3>1
      <4> QED BY <4>2
    <3>3. [id |-> worker.req.id, blocks |-> shape[1], full |-> shape[2]] \in Answers
      BY <1>0, <3>2 DEF Answers, Requests
    <3> QED BY <1>0, <2>1, <3>1, <3>3 DEF WorkerExecute
  <2>2. CASE WorkerRespond
    BY <1>0, <2>2, EmptyTypes DEF WorkerRespond, FreshWorker
  <2>3. CASE WorkerFlag \/ WorkerMaintain \/ WorkerExit
    BY <1>0, <2>3 DEF WorkerFlag, WorkerMaintain, WorkerExit
  <2> QED BY <2>1, <2>2, <2>3
<1>4. /\ link' \in Links /\ link'.pipe = link.pipe /\ link'.in = link.in
      /\ link'.chan.req = link.chan.req
      /\ \/ link' = link /\ (link.chan.st = "BuildingResponse" => worker.pc # "respond")
         \/ /\ link'.chan.st = "Responded" /\ link'.chan.rsp = worker.rsp
            /\ worker.pc = "respond" /\ link.chan.st = "BuildingResponse"
  <2>0. link \in Links /\ worker.rsp \in Answers
    BY <1>0 DEF TypeOK
  <2>1. CASE WorkerRespond /\ link.chan.st = "BuildingResponse"
    <3>1. link' = [link EXCEPT !.chan.st = "Responded", !.chan.rsp = worker.rsp]
      BY <2>1 DEF WorkerRespond
    <3>2. /\ link' \in Links /\ link'.pipe = link.pipe /\ link'.in = link.in
          /\ link'.chan.req = link.chan.req /\ link'.chan.st = "Responded"
          /\ link'.chan.rsp = worker.rsp
      BY <2>0, <3>1 DEF Links, Channels
    <3>3. worker.pc = "respond"
      BY <2>1 DEF WorkerRespond
    <3> QED BY <2>1, <3>2, <3>3
  <2>2. CASE WorkerRespond /\ link.chan.st # "BuildingResponse"
    BY <2>0, <2>2 DEF WorkerRespond
  <2>3. CASE WorkerExecute \/ WorkerFlag \/ WorkerMaintain \/ WorkerExit
    BY <2>0, <2>3 DEF WorkerExecute, WorkerFlag, WorkerMaintain, WorkerExit
  <2> QED BY <2>1, <2>2, <2>3
<1>5. TypeOK' /\ OwnedBeforeState' /\ BootInv'
  BY <1>0, <1>1, <1>2, <1>3, <1>4 DEF TypeOK, BoardInv, OwnedBeforeState, BootInv
<1>6. SessionInv'
  BY <1>0, <1>1, <1>2, <1>3, EmptyTypes DEF SessionInv, Running, TypeOK
<1>7. CommandInv' /\ HostInv'
  BY <1>1, <1>2, <1>3 DEF BoardInv, CommandInv, HostInv, Greeted, MayRun, OwnData, Current
<1>8. LinkInv(link, bus.out, bus.ctl)'
  <2>1. MayRun(link.chan.req)'
    BY <1>0, <1>1, <1>2, <1>3, <1>4 DEF LinkInv, MayRun
  <2>2. Answering(link)'
    <3>1. CASE link' = link /\ (link.chan.st = "BuildingResponse" => worker.pc # "respond")
      <4>0. worker.pc # "taken"
        BY DEF WorkerExecute, WorkerRespond, WorkerFlag, WorkerMaintain, WorkerExit
      <4>1. link.chan.st = "BuildingResponse" => worker.pc = "execute" /\ worker.req.id = link.chan.req.id
        BY <1>0, <3>1, <4>0 DEF LinkInv, Answering
      <4>2. worker.pc = "execute" => WorkerExecute
        BY DEF WorkerRespond, WorkerFlag, WorkerMaintain, WorkerExit
      <4>3. WorkerExecute => worker'.pc = "respond" /\ worker'.req = worker.req
        BY <1>0 DEF WorkerExecute
      <4> QED BY <1>0, <3>1, <4>1, <4>2, <4>3 DEF LinkInv, Answering
    <3>2. CASE /\ link'.chan.st = "Responded" /\ link'.chan.rsp = worker.rsp
               /\ worker.pc = "respond" /\ link.chan.st = "BuildingResponse"
      BY <1>0, <1>4, <3>2 DEF LinkInv, Answering, SessionInv
    <3> QED BY <1>4, <3>1, <3>2
  <2>3. /\ CurrentWork(link)' <=> CurrentWork(link)
        /\ Current(link.chan.req.id)' <=> Current(link.chan.req.id)
    BY <1>2, <1>4 DEF CurrentWork, Current, AtWork
  <2>4. OwnPackets(link)'
    BY <1>0, <1>1, <1>2, <1>4, <2>3 DEF LinkInv, OwnPackets, OwnData, OwnStatus, Greeted, Current
  <2> QED BY <1>0, <1>1, <1>2, <1>4, <2>1, <2>2, <2>3, <2>4 DEF LinkInv, Greeted, Current
<1> QED BY <1>5, <1>6, <1>7, <1>8 DEF BoardInv

-----------------------------------------------------------------------------
(* The bus and the host *)

\* VBUS is lost: a new era begins, in which no request exists yet.
LEMMA LostKeeps == BoardInv /\ VbusLost => BoardInv'
<1> SUFFICES ASSUME BoardInv, VbusLost PROVE BoardInv'
  OBVIOUS
<1>0. TypeOK /\ LinkInv(link, bus.out, bus.ctl) /\ SessionInv
  BY DEF BoardInv
<1>1. /\ UNCHANGED <<boot, link, flags, worker, card>> /\ host' = NoHost
      /\ Running /\ bus.started /\ bus'.started /\ ~bus'.power
      /\ bus'.out = NoCommand /\ bus'.ctl = NoSeq
      /\ bus' \in [power : BOOLEAN, started : BOOLEAN, ext : BOOLEAN, out : Commands, ctl : Nat]
  BY <1>0, EmptyTypes DEF VbusLost, TypeOK
<1>2. /\ count' \in Counts /\ count'.session = count.session /\ count'.era = count.era + 1
  <2>1. count \in Counts /\ count.losses + 1 \in Nat /\ count.era + 1 \in Nat
        /\ host.reset \in BOOLEAN
    BY <1>0 DEF TypeOK
  <2>2. count' = [count EXCEPT !.losses = @ + 1, !.era = @ + 1, !.told = @ \/ host.reset]
    BY DEF VbusLost
  <2> QED BY <2>1, <2>2
<1>3. /\ NoHost \in Hosts
      /\ NoHost.st = "gone" /\ NoHost.of = NoId /\ NoHost.got = NoId /\ NoHost.part = NoPacket
  BY EmptyTypes DEF NoHost
<1>4. TypeOK' /\ OwnedBeforeState' /\ BootInv'
  BY <1>0, <1>1, <1>2, <1>3 DEF TypeOK, BoardInv, OwnedBeforeState, BootInv
<1>5. \A r \in Requests : MayRun(r) => MayRun(r)'
  BY <1>0, <1>1, <1>2 DEF MayRun, TypeOK, Requests
<1>6. SessionInv'
  BY <1>0, <1>1, <1>2 DEF SessionInv, Running, TypeOK
<1>7. CommandInv' /\ HostInv'
  <2>1. MayRun(NoRequest)'
    BY <1>0, <1>1, <1>2, EmptyTypes DEF MayRun, TypeOK
  <2> QED BY <1>0, <1>1, <1>2, <1>3, <2>1, EmptyTypes
      DEF CommandInv, HostInv, Greeted, OwnData, Current, TypeOK
<1>8. LinkInv(link, bus.out, bus.ctl)'
  <2>1. MayRun(link.chan.req)'
    <3>1. link.chan.req \in Requests /\ MayRun(link.chan.req)
      BY <1>0 DEF LinkInv, Links, Channels
    <3> QED BY <1>0, <1>1, <1>2, <3>1 DEF MayRun, TypeOK, Requests
  <2>2. Answering(link)'
    BY <1>0, <1>1 DEF LinkInv, Answering
  <2>3. OwnPackets(link)'
    BY <1>1, <1>3 DEF OwnPackets, OwnData, OwnStatus, Greeted
  <2> QED BY <1>0, <1>1, <1>2, <1>3, <2>1, <2>2, <2>3, EmptyTypes DEF LinkInv, Greeted
<1> QED BY <1>4, <1>6, <1>7, <1>8 DEF BoardInv

\* VBUS returns only after the USB task has seen the loss, or to a device
\* that is starting.
LEMMA BackKeeps == BoardInv /\ VbusBack => BoardInv'
<1> SUFFICES ASSUME BoardInv, VbusBack PROVE BoardInv'
  OBVIOUS
<1>0. TypeOK
  BY DEF BoardInv
<1>1. /\ UNCHANGED <<boot, link, flags, worker, host, card, count>>
      /\ bus'.out = bus.out /\ bus'.ctl = bus.ctl /\ bus'.started = bus.started
      /\ Running => ~bus.started
      /\ bus' \in [power : BOOLEAN, started : BOOLEAN, ext : BOOLEAN, out : Commands, ctl : Nat]
  BY <1>0 DEF VbusBack, TypeOK
<1>2. TypeOK' /\ OwnedBeforeState' /\ BootInv'
  BY <1>0, <1>1 DEF TypeOK, BoardInv, OwnedBeforeState, BootInv
<1>3. SessionInv'
  BY <1>1 DEF BoardInv, SessionInv, Running
<1>4. CommandInv' /\ HostInv'
  BY <1>1 DEF BoardInv, CommandInv, HostInv, Greeted, MayRun, OwnData, Current
<1>5. LinkInv(link, bus.out, bus.ctl)'
  BY <1>1 DEF BoardInv, LinkInv, Answering, MayRun, OwnPackets, OwnData, OwnStatus,
     CurrentWork, Current, Greeted, AtWork
<1> QED BY <1>2, <1>3, <1>4, <1>5 DEF BoardInv

\* A bus reset begins a session to which nothing in the pipe belongs.
LEMMA ResetBusKeeps == BoardInv /\ BusReset => BoardInv'
<1> SUFFICES ASSUME BoardInv, BusReset PROVE BoardInv'
  OBVIOUS
<1>0. TypeOK /\ LinkInv(link, bus.out, bus.ctl) /\ SessionInv
  BY DEF BoardInv
<1>1. /\ UNCHANGED <<boot, flags, worker, card>>
      /\ bus'.out = NoCommand /\ bus'.ctl = NoSeq /\ bus'.started = bus.started
      /\ bus'.power = bus.power
      /\ bus' \in [power : BOOLEAN, started : BOOLEAN, ext : BOOLEAN, out : Commands, ctl : Nat]
  BY <1>0, EmptyTypes DEF BusReset, TypeOK
<1>2. /\ count' \in Counts /\ count'.session = count.session + 1 /\ count'.era = count.era
  <2>1. count \in Counts /\ count.losses + 1 \in Nat /\ count.session + 1 \in Nat
        /\ host.reset \in BOOLEAN
    BY <1>0 DEF TypeOK
  <2>2. PICK n \in {count.losses, count.losses + 1} :
          count' = [count EXCEPT !.session = @ + 1, !.losses = n, !.told = @ \/ host.reset]
    BY DEF BusReset
  <2> QED BY <2>1, <2>2
<1>3. /\ host' \in Hosts
      /\ host'.st = "off" /\ host'.of = NoId /\ host'.got = NoId /\ host'.part = NoPacket
      /\ host'.seq = 0
  BY EmptyTypes DEF BusReset, NoHost
<1>4. /\ link' \in Links /\ link'.pipe = link.pipe /\ link'.chan = link.chan
      /\ link'.in.pkt = NoPacket
  BY <1>0, EmptyTypes DEF BusReset, TypeOK, Links
<1>5. TypeOK' /\ OwnedBeforeState' /\ BootInv'
  BY <1>0, <1>1, <1>2, <1>3, <1>4 DEF TypeOK, BoardInv, OwnedBeforeState, BootInv
<1>6. SessionInv'
  <2>1. worker.req.id[1] \in Nat /\ count.session \in Nat
    BY <1>0 DEF TypeOK, Requests, Ids
  <2> QED BY <1>0, <1>1, <1>2, <2>1 DEF SessionInv, Running
<1>7. CommandInv' /\ HostInv'
  <2>1. MayRun(NoRequest)'
    BY <1>0, <1>1, <1>2, EmptyTypes DEF MayRun, TypeOK
  <2> QED BY <1>0, <1>1, <1>2, <1>3, <2>1, EmptyTypes
      DEF CommandInv, HostInv, Greeted, OwnData, Current, TypeOK
<1>8. LinkInv(link, bus.out, bus.ctl)'
  <2>1. MayRun(link.chan.req)'
    BY <1>0, <1>1, <1>2, <1>4 DEF LinkInv, MayRun
  <2>2. Answering(link)'
    BY <1>0, <1>1, <1>4 DEF LinkInv, Answering
  <2>3. OwnPackets(link)'
    BY <1>1, <1>3 DEF OwnPackets, OwnData, OwnStatus, Greeted
  <2>4. /\ link.chan.req.id[1] \in Nat /\ link.pipe.outbox.id[1] \in Nat
        /\ count.session \in Nat
    BY <1>0 DEF TypeOK, Links, Channels, Requests, Ids, Pipes, Packets
  <2>5. /\ link.chan.req.id[1] < count'.session /\ link.pipe.outbox.id[1] < count'.session
        /\ NoPacket.id[1] < count'.session
        /\ link.pipe.outbox.full => link.pipe.outbox.kind = "data"
    BY <1>0, <1>2, <2>4, EmptyTypes DEF LinkInv
  <2> QED BY <1>1, <1>2, <1>3, <1>4, <2>1, <2>2, <2>3, <2>4, <2>5, EmptyTypes
      DEF LinkInv, Greeted, Current
<1> QED BY <1>5, <1>6, <1>7, <1>8 DEF BoardInv

\* The host powers the card on under sequence number 0.
LEMMA PowerOnKeeps == BoardInv /\ HostPowerOn => BoardInv'
<1> SUFFICES ASSUME BoardInv, HostPowerOn PROVE BoardInv'
  OBVIOUS
<1>0. TypeOK /\ LinkInv(link, bus.out, bus.ctl) /\ SessionInv /\ HostInv /\ CommandInv
  BY DEF BoardInv
<1>1. /\ UNCHANGED <<boot, link, flags, worker, card, count>> /\ host.st = "off"
      /\ host' \in Hosts /\ host'.st = "power" /\ host'.seq = host.seq /\ host'.of = host.of
      /\ host'.got = host.got /\ host'.part = host.part
  BY <1>0 DEF HostPowerOn, TypeOK
<1>2. /\ bus'.out.kind = "on" /\ bus'.out.seq = 0 /\ bus'.out.apdu = NoRequest
      /\ bus'.out \in Commands /\ bus'.ctl = bus.ctl /\ bus'.started = bus.started
      /\ bus'.power = bus.power
      /\ bus' \in [power : BOOLEAN, started : BOOLEAN, ext : BOOLEAN, out : Commands, ctl : Nat]
  <2> DEFINE c == [NoCommand EXCEPT !.kind = "on"]
  <2>1. c \in Commands /\ c.kind = "on" /\ c.seq = 0 /\ c.apdu = NoRequest
    BY EmptyTypes DEF NoCommand, Commands
  <2>2. bus' = [bus EXCEPT !.out = c]
    BY DEF HostPowerOn
  <2> HIDE DEF c
  <2> QED BY <1>0, <2>1, <2>2 DEF TypeOK
<1>3. TypeOK' /\ OwnedBeforeState' /\ BootInv'
  BY <1>0, <1>1, <1>2 DEF TypeOK, BoardInv, OwnedBeforeState, BootInv
<1>4. SessionInv'
  BY <1>0, <1>1, <1>2 DEF SessionInv, Running
<1>5. CommandInv' /\ HostInv'
  <2>1. MayRun(NoRequest)'
    BY <1>0, <1>1, EmptyTypes DEF MayRun, TypeOK
  <2> QED BY <1>0, <1>1, <1>2, <2>1 DEF CommandInv, HostInv, Greeted, OwnData, Current
<1>6. LinkInv(link, bus.out, bus.ctl)'
  <2>1. MayRun(link.chan.req)' /\ Answering(link)'
    BY <1>0, <1>1 DEF LinkInv, MayRun, Answering
  <2>2. OwnPackets(link)'
    BY <1>1 DEF OwnPackets, OwnData, OwnStatus, Greeted
  <2> QED BY <1>0, <1>1, <1>2, <2>1, <2>2 DEF LinkInv, Greeted, Current
<1> QED BY <1>3, <1>4, <1>5, <1>6 DEF BoardInv

\* A host that sends has a connection, under which the card is reset for
\* this era or about to be.
LEMMA SenderMayRun ==
  ASSUME BoardInv, CanSend, NEW id \in Ids, NEW reset \in BOOLEAN,
         EnumerationIsSlow => ~(flags.reset /\ worker.pc = "take")
  PROVE  LET r == [id |-> id, era |-> count.era, reset |-> reset]
         IN  r \in Requests /\ MayRun(r)
BY DEF BoardInv, CanSend, Running, SessionInv, MayRun, Requests, TypeOK

\* The host sends a command under its next sequence number, which nothing in
\* the pipe carries yet.
LEMMA TransferBoardKeeps ==
  ASSUME BoardInv, NEW reset \in BOOLEAN, HostTransfer(reset)
  PROVE  BoardInv'
<1>0. TypeOK /\ LinkInv(link, bus.out, bus.ctl) /\ SessionInv /\ HostInv /\ CommandInv
  BY DEF BoardInv
<1> DEFINE seq == host.seq + 1
           id == <<count.session, seq>>
           r == [id |-> id, era |-> count.era, reset |-> reset]
           c == [kind |-> "xfr", seq |-> seq, apdu |-> r]
<1>1. seq \in Nat /\ id \in Ids /\ id[1] = count.session /\ count.session \in Nat
  BY <1>0 DEF TypeOK, Ids
<1>2. CanSend /\ host.st = "idle" /\ bus.out.kind = "none"
  BY EmptyTypes DEF HostTransfer, CanSend
<1> HIDE DEF id, seq
<1>3. r \in Requests /\ MayRun(r) /\ r.id = id
  <2>1. EnumerationIsSlow => ~(flags.reset /\ worker.pc = "take")
    BY DEF HostTransfer
  <2> QED BY <1>1, <1>2, <2>1, SenderMayRun
<1> HIDE DEF r
<1>4. c \in Commands /\ c.kind = "xfr" /\ c.seq = seq /\ c.apdu = r
  BY <1>1, <1>3 DEF Commands
<1> HIDE DEF c
<1>5. /\ UNCHANGED <<boot, link, flags, worker, card, count>>
      /\ bus' = [bus EXCEPT !.out = c]
      /\ host' = [host EXCEPT !.st = "transfer", !.seq = seq, !.of = id, !.got = NoId,
                              !.reset = reset]
  BY DEF HostTransfer, c, r, id, seq
<1>6. /\ bus'.out = c /\ bus'.ctl = bus.ctl /\ bus'.started = bus.started
      /\ bus'.power = bus.power
      /\ bus' \in [power : BOOLEAN, started : BOOLEAN, ext : BOOLEAN, out : Commands, ctl : Nat]
  BY <1>0, <1>4, <1>5 DEF TypeOK
<1>7. /\ host' \in Hosts /\ host'.st = "transfer" /\ host'.seq = seq /\ host'.of = id
      /\ host'.got = NoId /\ host'.part = host.part
  BY <1>0, <1>1, <1>5, EmptyTypes DEF TypeOK
<1>8. TypeOK' /\ OwnedBeforeState' /\ BootInv'
  BY <1>0, <1>5, <1>6, <1>7 DEF TypeOK, BoardInv, OwnedBeforeState, BootInv
<1>9. SessionInv'
  BY <1>0, <1>5, <1>6 DEF SessionInv, Running
<1>10. CommandInv' /\ HostInv'
  <2>1. MayRun(bus.out.apdu)'
    BY <1>3, <1>4, <1>5, <1>6 DEF MayRun
  <2>2. OwnData(host.part)'
    <3>1. host.part \in Packets /\ OwnData(host.part)
      BY <1>0 DEF TypeOK, HostInv
    <3> QED BY <1>0, <1>2, <1>5, <1>7, <3>1 DEF OwnData, Greeted, Current, TypeOK, Packets, seq
  <2> QED BY <1>0, <1>1, <1>3, <1>4, <1>5, <1>6, <1>7, <2>1, <2>2
      DEF CommandInv, HostInv, Greeted, Current, TypeOK
<1>11. LinkInv(link, bus.out, bus.ctl)'
  <2>1. MayRun(link.chan.req)' /\ Answering(link)'
    BY <1>0, <1>5 DEF LinkInv, MayRun, Answering
  <2>2. link.in.pkt \in Packets /\ link.pipe.outbox \in Packets /\ link.pipe.seq \in Nat
        /\ host.seq \in Nat
    BY <1>0 DEF TypeOK, Links, Pipes
  <2>3. OwnPackets(link)'
    BY <1>0, <1>2, <1>5, <1>7, <2>2
       DEF LinkInv, OwnPackets, OwnData, OwnStatus, Greeted, Current, Packets, seq
  <2>4. link.pipe.seq < seq
    BY <1>0, <1>2, <2>2 DEF LinkInv, Greeted, seq
  <2>5. CurrentWork(link)' <=> CurrentWork(link)
    BY <1>5 DEF CurrentWork, Current, AtWork
  <2> QED BY <1>0, <1>1, <1>2, <1>4, <1>5, <1>6, <1>7, <2>1, <2>2, <2>3, <2>4, <2>5
      DEF LinkInv, Current
<1> QED BY <1>8, <1>9, <1>10, <1>11 DEF BoardInv

\* The host asks for the next block of its answer, starts an abort, or sends
\* one half of it.
LEMMA ContinueKeeps ==
  ASSUME BoardInv, HostMore \/ HostAbort \/ (\E half \in {"control", "bulk"} : HostAbortHalf(half))
  PROVE  BoardInv'
<1>0. TypeOK /\ LinkInv(link, bus.out, bus.ctl) /\ SessionInv /\ HostInv /\ CommandInv
  BY DEF BoardInv
<1>1. /\ UNCHANGED <<boot, link, flags, worker, card>> /\ CanSend /\ bus.out = NoCommand
      /\ count' \in Counts /\ count'.session = count.session /\ count'.era = count.era
  <2>1. count \in Counts /\ host.reset \in BOOLEAN
    BY <1>0 DEF TypeOK
  <2>2. UNCHANGED count \/ count' = [count EXCEPT !.told = @ \/ host.reset]
    BY DEF HostMore, HostAbort, HostAbortHalf
  <2>3. UNCHANGED <<boot, link, flags, worker, card>> /\ CanSend
    BY DEF HostMore, HostAbort, HostAbortHalf
  <2> QED BY <2>1, <2>2, <2>3 DEF CanSend
<1>2. host.seq \in Nat /\ host.seq + 1 \in Nat /\ NoPacket \in Packets /\ host \in Hosts
  BY <1>0, EmptyTypes DEF TypeOK
<1>3. /\ host' \in Hosts /\ host'.of = host.of /\ host'.got = host.got
      /\ host'.part = host.part \/ host'.part = NoPacket
      /\ \/ /\ host.st = "more" /\ host'.st = "transfer" /\ host'.seq = host.seq + 1
         \/ /\ host.st = "transfer" /\ host'.st = "abort" /\ host'.seq = host.seq + 1
            /\ bus' = bus
         \/ /\ host.st = "abort" /\ host'.st = "abort" /\ host'.seq = host.seq
            /\ host'.part = host.part
  <2>1. CASE HostMore
    <3>1. host' = [host EXCEPT !.st = "transfer", !.seq = @ + 1] /\ host.st = "more"
      BY <2>1 DEF HostMore
    <3> QED BY <1>2, <3>1
  <2>2. CASE HostAbort
    <3>1. /\ host' = [host EXCEPT !.st = "abort", !.seq = @ + 1, !.halves = {"control", "bulk"},
                          !.part = NoPacket]
          /\ host.st = "transfer" /\ bus' = bus
      BY <2>2 DEF HostAbort
    <3> QED BY <1>2, <3>1
  <2>3. ASSUME NEW half \in {"control", "bulk"}, HostAbortHalf(half)
        PROVE  /\ host' \in Hosts /\ host'.of = host.of /\ host'.got = host.got
               /\ host.st = "abort" /\ host'.st = "abort" /\ host'.seq = host.seq
               /\ host'.part = host.part
    <3>1. host' = [host EXCEPT !.halves = @ \ {half}] /\ host.st = "abort"
      BY <2>3 DEF HostAbortHalf
    <3> QED BY <1>2, <3>1
  <2> QED BY <2>1, <2>2, <2>3
<1>4. /\ bus' \in [power : BOOLEAN, started : BOOLEAN, ext : BOOLEAN, out : Commands, ctl : Nat]
      /\ bus'.started = bus.started /\ bus'.power = bus.power
      /\ \/ bus' = bus
         \/ /\ host.st = "more" /\ bus'.ctl = bus.ctl
            /\ bus'.out.kind = "more" /\ bus'.out.seq = host.seq + 1 /\ bus'.out.apdu = NoRequest
         \/ /\ host.st = "abort" /\ bus'.out = bus.out
         \/ /\ host.st = "abort" /\ bus'.ctl = bus.ctl
            /\ bus'.out.kind = "abort" /\ bus'.out.seq = host.seq /\ bus'.out.apdu = NoRequest
  <2>0. \A k \in {"more", "abort"}, n \in Nat :
          LET c == [NoCommand EXCEPT !.kind = k, !.seq = n] IN
          c \in Commands /\ c.kind = k /\ c.seq = n /\ c.apdu = NoRequest
    BY EmptyTypes DEF NoCommand, Commands
  <2>1. CASE HostMore
    <3>1. /\ bus' = [bus EXCEPT !.out = [NoCommand EXCEPT !.kind = "more", !.seq = host.seq + 1]]
          /\ host.st = "more"
      BY <2>1 DEF HostMore
    <3> QED BY <1>0, <1>2, <2>0, <3>1 DEF TypeOK
  <2>2. CASE HostAbort
    BY <1>0, <2>2 DEF HostAbort, TypeOK
  <2>3. ASSUME HostAbortHalf("control")
        PROVE  /\ bus' \in [power : BOOLEAN, started : BOOLEAN, ext : BOOLEAN, out : Commands, ctl : Nat]
               /\ bus'.started = bus.started /\ bus'.power = bus.power
               /\ host.st = "abort" /\ bus'.out = bus.out
    BY <1>0, <1>2, <2>3 DEF HostAbortHalf, TypeOK
  <2>4. ASSUME HostAbortHalf("bulk")
        PROVE  /\ bus' \in [power : BOOLEAN, started : BOOLEAN, ext : BOOLEAN, out : Commands, ctl : Nat]
               /\ bus'.started = bus.started /\ bus'.power = bus.power
               /\ host.st = "abort" /\ bus'.ctl = bus.ctl
               /\ bus'.out.kind = "abort" /\ bus'.out.seq = host.seq /\ bus'.out.apdu = NoRequest
    <3>1. /\ bus' = [bus EXCEPT !.out = [NoCommand EXCEPT !.kind = "abort", !.seq = host.seq]]
          /\ host.st = "abort"
      BY <2>4 DEF HostAbortHalf
    <3> QED BY <1>0, <1>2, <2>0, <3>1 DEF TypeOK
  <2> QED BY <2>1, <2>2, <2>3, <2>4
<1>5. TypeOK' /\ OwnedBeforeState' /\ BootInv'
  BY <1>0, <1>1, <1>3, <1>4 DEF TypeOK, BoardInv, OwnedBeforeState, BootInv
<1>6. SessionInv'
  BY <1>0, <1>1, <1>4 DEF SessionInv, Running
<1>7. Greeted /\ Greeted'
  BY <1>3 DEF Greeted
<1>8. \A p \in Packets : OwnData(p) =>
        (p.kind = "data" /\ Current(p.id) =>
           /\ p.seq <= host'.seq
           /\ host'.st = "transfer" /\ p.seq = host'.seq => p.id = host'.of)
  BY <1>2, <1>3, <1>7 DEF OwnData, Packets
<1>9. CommandInv' /\ HostInv'
  <2>1. MayRun(bus.out.apdu)'
    <3>1. MayRun(bus.out.apdu) /\ MayRun(NoRequest)
      BY <1>0, EmptyTypes DEF CommandInv, MayRun, TypeOK
    <3> QED BY <1>1, <1>4, <3>1, EmptyTypes DEF MayRun
  <2>2. OwnData(host.part)' /\ host'.part.id[1] <= count.session
    <3>1. host.part \in Packets /\ OwnData(host.part) /\ OwnData(NoPacket) /\ count.session \in Nat
          /\ host.part.id[1] <= count.session
      BY <1>0, EmptyTypes DEF TypeOK, HostInv, OwnData
    <3> QED BY <1>1, <1>2, <1>3, <1>8, <3>1, EmptyTypes DEF OwnData, Current
  <2>3. CommandInv'
    BY <1>0, <1>1, <1>2, <1>3, <1>4, <1>7, <2>1, EmptyTypes DEF CommandInv
  <2>4. HostInv'
    BY <1>0, <1>1, <1>3, <1>4, <1>7, <2>2, EmptyTypes DEF HostInv, Current
  <2> QED BY <2>3, <2>4
<1>10. LinkInv(link, bus.out, bus.ctl)'
  <2>1. MayRun(link.chan.req)' /\ Answering(link)'
    BY <1>0, <1>1 DEF LinkInv, MayRun, Answering
  <2>2. link.in.pkt \in Packets /\ link.pipe.outbox \in Packets /\ link.pipe.seq \in Nat
    BY <1>0 DEF TypeOK, Links, Pipes
  <2>3. /\ CurrentWork(link)' <=> CurrentWork(link)
        /\ Current(link.chan.req.id)' <=> Current(link.chan.req.id)
    BY <1>1 DEF CurrentWork, Current, AtWork
  <2>4. \A p \in {link.in.pkt, link.pipe.outbox} : OwnData(p)'
    BY <1>0, <1>1, <1>8, <2>2 DEF LinkInv, OwnPackets, OwnData, Current
  <2>5. \A p \in {link.in.pkt, link.pipe.outbox} : OwnStatus(link, p)'
    BY <1>0, <1>1, <1>2, <1>3, <1>7, <2>2, <2>3 DEF LinkInv, OwnPackets, OwnStatus, Packets
  <2>6. OwnPackets(link)'
    BY <1>1, <2>4, <2>5 DEF OwnPackets
  <2>7. link.pipe.seq <= host.seq /\ bus.out.kind = "none"
    BY <1>0, <1>1, <1>7, EmptyTypes DEF LinkInv
  <2>8. bus'.out.kind \notin {"on", "xfr"}
    BY <1>4, <2>7
  <2>9. CurrentWork(link) /\ host'.st \in {"transfer", "more"} =>
          /\ link.pipe.control = NoSeq /\ bus'.ctl = NoSeq /\ link.chan.req.id = host'.of
    BY <1>0, <1>3, <1>4, <2>7 DEF LinkInv
  <2> QED BY <1>0, <1>1, <1>2, <1>3, <1>7, <2>1, <2>2, <2>3, <2>6, <2>7, <2>8, <2>9
      DEF LinkInv, Greeted
<1> QED BY <1>5, <1>6, <1>9, <1>10 DEF BoardInv

\* The host reads a packet, and accepts it by its sequence number alone.
LEMMA ReadKeeps == BoardInv /\ HostRead => BoardInv'
<1> SUFFICES ASSUME BoardInv, HostRead PROVE BoardInv'
  OBVIOUS
<1>0. TypeOK /\ LinkInv(link, bus.out, bus.ctl) /\ SessionInv /\ HostInv /\ CommandInv
  BY DEF BoardInv
<1> DEFINE raw == link.in.pkt
           p == IF raw.kind = "zlp" THEN host.part ELSE raw
           mine == p.seq = host.seq
           h == [host EXCEPT !.part = NoPacket]
           w == [host EXCEPT !.part = raw]
           a == [h EXCEPT !.st = "idle"]
           b(t) == [h EXCEPT !.st = t, !.got = p.id]
<1>1. /\ UNCHANGED <<boot, bus, flags, worker, card>>
      /\ host.st \notin {"gone", "off"}
  BY DEF HostRead
<1>2. count' \in Counts /\ count'.session = count.session /\ count'.era = count.era
  <2>1. count \in Counts /\ host.reset \in BOOLEAN
    BY <1>0 DEF TypeOK
  <2>2. PICK t \in BOOLEAN : count' = [count EXCEPT !.told = @ \/ t]
    <3>1. count' = [count EXCEPT !.told = @ \/ (host.reset /\ host.st = "transfer"
                                       /\ p.kind = "data" /\ p.last /\ mine)]
      BY DEF HostRead
    <3> QED BY <3>1
  <2> QED BY <2>1, <2>2
<1>3. /\ link' \in Links /\ link'.pipe = link.pipe /\ link'.chan = link.chan
      /\ link'.in.pkt = NoPacket
  BY <1>0, EmptyTypes DEF HostRead, TypeOK, Links
<1>4. raw \in Packets /\ host \in Hosts /\ host.part \in Packets /\ p \in Packets
  BY <1>0 DEF TypeOK, Links
<1>5. \/ host' = w /\ raw.full
      \/ host' = h
      \/ host' = a /\ host.st = "power" /\ p.kind = "atr" /\ mine
      \/ host' = a /\ host.st = "abort" /\ p.kind = "status" /\ mine
      \/ /\ host.st = "transfer" /\ p.kind = "data" /\ mine
         /\ host' = b("idle") \/ host' = b("more")
  BY DEF HostRead
<1>6. /\ w \in Hosts /\ w.st = host.st /\ w.seq = host.seq /\ w.of = host.of /\ w.got = host.got
      /\ w.part = raw
  BY <1>4
<1>7. /\ h \in Hosts /\ h.st = host.st /\ h.seq = host.seq /\ h.of = host.of /\ h.got = host.got
      /\ h.part = NoPacket
  BY <1>4, EmptyTypes
<1>8. /\ a \in Hosts /\ a.st = "idle" /\ a.seq = host.seq /\ a.of = host.of /\ a.got = host.got
      /\ a.part = NoPacket
  <2> HIDE DEF h
  <2> QED BY <1>7
<1>9. \A t \in {"idle", "more"} :
        /\ b(t) \in Hosts /\ b(t).st = t /\ b(t).seq = host.seq /\ b(t).of = host.of
        /\ b(t).got = p.id /\ b(t).part = NoPacket
  <2>1. p.id \in Ids
    BY <1>4 DEF Packets
  <2> HIDE DEF h, p
  <2> QED BY <1>7, <2>1
<1>10. /\ host' \in Hosts /\ host'.seq = host.seq /\ host'.of = host.of
       /\ host'.part = NoPacket \/ (host'.part = raw /\ raw.full /\ host'.st = host.st)
       /\ \/ host'.st = host.st /\ host'.got = host.got
          \/ /\ host'.st = "idle" /\ host.st = "power" /\ p.kind = "atr" /\ host'.got = host.got
          \/ /\ host'.st = "idle" /\ host.st = "abort" /\ p.kind = "status" /\ mine
             /\ host'.got = host.got
          \/ /\ host'.st \in {"idle", "more"} /\ host.st = "transfer" /\ p.kind = "data" /\ mine
             /\ host'.got = p.id
  <2> HIDE DEF w, h, a, b, p, mine
  <2> QED BY <1>5, <1>6, <1>7, <1>8, <1>9
<1> HIDE DEF w, h, a, b
<1>11. /\ p.kind \in {"atr", "status"} => p = raw
       /\ OwnData(p) /\ OwnData(raw) /\ OwnStatus(link, raw) /\ raw.id[1] <= count.session
       /\ raw.full => raw.kind = "data"
  BY <1>0 DEF LinkInv, HostInv, OwnPackets
<1>12. TypeOK' /\ OwnedBeforeState' /\ BootInv'
  BY <1>0, <1>1, <1>2, <1>3, <1>10 DEF TypeOK, BoardInv, OwnedBeforeState, BootInv
<1>13. SessionInv'
  BY <1>0, <1>1, <1>2 DEF SessionInv, Running
<1>14. CommandInv'
  BY <1>0, <1>1, <1>2, <1>10 DEF CommandInv, Greeted, MayRun
<1>15. HostInv'
  <2>1. OwnData(host.part)' /\ host'.part.kind \in {"none", "data"} /\ host'.part.id[1] <= count.session
    <3>1. CASE host'.part = NoPacket
      BY <1>0, <3>1, EmptyTypes DEF OwnData, TypeOK
    <3>2. CASE host'.part = raw /\ raw.full /\ host'.st = host.st
      BY <1>2, <1>10, <1>11, <3>2 DEF OwnData, Greeted, Current
    <3> QED BY <1>10, <3>1, <3>2
  <2>2. host'.st \in {"gone", "off", "power"} \/ bus'.out.kind = "on" =>
          (host'.part.kind = "data" => ~Current(host'.part.id))
    BY <1>0, <1>1, <1>10, EmptyTypes DEF LinkInv
  <2>3. host'.got # NoId /\ Current(host'.got) => host'.got = host'.of
    BY <1>0, <1>10, <1>11 DEF HostInv, OwnData, Greeted
  <2> QED BY <1>0, <1>1, <1>2, <1>10, <2>1, <2>2, <2>3 DEF HostInv, Current
<1>16. LinkInv(link, bus.out, bus.ctl)'
  <2>1. MayRun(link.chan.req)' /\ Answering(link)'
    BY <1>0, <1>1, <1>2, <1>3 DEF LinkInv, MayRun, Answering
  <2>2. /\ CurrentWork(link)' <=> CurrentWork(link)
        /\ Current(link.chan.req.id)' <=> Current(link.chan.req.id)
    BY <1>2, <1>3 DEF CurrentWork, Current, AtWork
  <2>3. host.st = "power" =>
          /\ ~Current(link.chan.req.id) /\ ~CurrentWork(link)
          /\ link.pipe.outbox.kind = "data" => ~Current(link.pipe.outbox.id)
          /\ raw.kind = "atr" => link.pipe.outbox.kind # "status"
    BY <1>0 DEF LinkInv, CurrentWork
  <2>4. host.st = "abort" /\ host'.st = "idle" => ~CurrentWork(link)
    BY <1>10, <1>11 DEF OwnStatus, Greeted
  <2>5. OwnData(link.pipe.outbox)' /\ OwnStatus(link, link.pipe.outbox)'
    <3>1. OwnData(link.pipe.outbox) /\ OwnStatus(link, link.pipe.outbox)
      BY <1>0 DEF LinkInv, OwnPackets
    <3>2. OwnData(link.pipe.outbox)'
      BY <1>2, <1>3, <1>10, <2>3, <3>1 DEF OwnData, Greeted, Current
    <3>3. OwnStatus(link, link.pipe.outbox)'
      BY <1>3, <1>10, <1>11, <2>2, <2>3, <3>1 DEF OwnStatus, Greeted
    <3> QED BY <3>2, <3>3
  <2>6. OwnPackets(link)'
    BY <1>3, <2>5, EmptyTypes DEF OwnPackets, OwnData, OwnStatus
  <2>7. CurrentWork(link) /\ host'.st \in {"idle", "transfer", "more"} =>
          link.pipe.control = NoSeq /\ bus.ctl = NoSeq
    BY <1>0, <1>10, <2>3, <2>4 DEF LinkInv
  <2>8. CurrentWork(link) /\ host'.st \in {"transfer", "more"} /\ bus.out.kind # "xfr" =>
          link.chan.req.id = host'.of
    BY <1>0, <1>10 DEF LinkInv
  <2>9. Greeted' \/ host'.st = "power" => Greeted \/ host.st = "power"
    BY <1>10 DEF Greeted
  <2>10. host'.st \in {"off", "power"} => host.st = host'.st
    BY <1>10
  <2>11. NoPacket.id[1] <= count.session
    BY <1>0, EmptyTypes DEF TypeOK
  <2> QED BY <1>0, <1>1, <1>2, <1>3, <1>10, <2>1, <2>2, <2>6, <2>7, <2>8, <2>9, <2>10, <2>11,
             EmptyTypes DEF LinkInv, Current
<1> QED BY <1>12, <1>13, <1>14, <1>15, <1>16 DEF BoardInv

-----------------------------------------------------------------------------
(* Theorems *)

\* The firmware starts with the invariant.
LEMMA BoardInit == Init => BoardInv
<1> SUFFICES ASSUME Init PROVE BoardInv
  OBVIOUS
<1>1. /\ NoHost \in Hosts
      /\ NoHost.st = "gone" /\ NoHost.of = NoId /\ NoHost.got = NoId /\ NoHost.part = NoPacket
  BY EmptyTypes DEF NoHost
<1>2. /\ FreshLink \in Links /\ FreshLink.pipe = FreshPipe
      /\ FreshLink.in.pkt = NoPacket
      /\ FreshLink.chan.st = "Idle" /\ FreshLink.chan.req = NoRequest
  BY EmptyTypes DEF FreshLink, Links, Channels
<1>3. /\ FreshWorker \in Workers
      /\ FreshWorker.pc = "off" /\ FreshWorker.req = NoRequest
  BY EmptyTypes DEF FreshWorker
<1>4. FreshFlags \in [reset : BOOLEAN, work : BOOLEAN, idle : BOOLEAN, faulted : BOOLEAN,
                faultReset : BOOLEAN]
  BY DEF FreshFlags
<1>5. TypeOK
  BY <1>1, <1>2, <1>3, <1>4, EmptyTypes DEF Init, TypeOK
<1>6. OwnedBeforeState /\ BootInv
  BY DEF Init, OwnedBeforeState, BootInv
<1>7. SessionInv
  BY <1>3, EmptyTypes DEF Init, SessionInv
<1>8. CommandInv /\ HostInv
  BY <1>1, EmptyTypes DEF Init, CommandInv, HostInv, Greeted, MayRun, OwnData
<1>9. LinkInv(link, bus.out, bus.ctl)
  <2>1. ~AtWork(link)
    BY <1>2, EmptyTypes DEF Init, AtWork
  <2>2. Answering(link) /\ MayRun(link.chan.req)
    BY <1>2, EmptyTypes DEF Init, Answering, MayRun
  <2>3. OwnPackets(link)
    BY <1>1, <1>2, EmptyTypes DEF Init, OwnPackets, OwnData, OwnStatus
  <2> QED BY <1>1, <1>2, <2>1, <2>2, <2>3, EmptyTypes DEF Init, LinkInv, CurrentWork, Greeted
<1> QED BY <1>5, <1>6, <1>7, <1>8, <1>9 DEF BoardInv

\* Every step of the firmware, the bus and the host keeps the invariant.
LEMMA BoardInductive == BoardInv /\ [Next]_vars => BoardInv'
<1> SUFFICES ASSUME BoardInv, [Next]_vars PROVE BoardInv'
  OBVIOUS
<1>1. CASE BootCheck \/ ProgramOwnershipMarker \/ BootHalts \/ OpenCard
  BY <1>1, BootKeeps
<1>2. CASE SupplyCut \/ HaltedReset
  BY <1>2, CutKeeps, HaltedResetKeeps
<1>3. CASE Usb \/ UsbHalts
  BY <1>3, LossKeeps, PollBoardKeeps, UsbHaltsKeeps DEF Usb
<1>4. CASE Tick
  BY <1>4, TickKeeps
<1>5. CASE Worker
  BY <1>5, LoopKeeps, TakeKeeps, WorkerKeeps DEF Worker
<1>6. CASE VbusLost \/ VbusBack \/ BusReset
  BY <1>6, LostKeeps, BackKeeps, ResetBusKeeps
<1>7. CASE Host
  BY <1>7, PowerOnKeeps, TransferBoardKeeps, ContinueKeeps, ReadKeeps DEF Host
<1>8. CASE UNCHANGED vars
  BY <1>8 DEF vars, BoardInv, TypeOK, OwnedBeforeState, BootInv, SessionInv, Running,
     CommandInv, HostInv, LinkInv, Answering, MayRun, OwnPackets, OwnData, OwnStatus,
     CurrentWork, Current, Greeted, AtWork
<1> QED BY <1>1, <1>2, <1>3, <1>4, <1>5, <1>6, <1>7, <1>8 DEF Next

\* The inductive invariant of the board holds of every behaviour: types, the
\* order of start-up, and what the pipe, the channel, the worker and the host
\* know of one another's requests.
THEOREM BoardInvariantHolds == Spec => []BoardInv
<1>1. Init => BoardInv
  BY BoardInit
<1>2. BoardInv /\ [Next]_vars => BoardInv'
  BY BoardInductive
<1> QED BY <1>1, <1>2, PTL DEF Spec

\* Persistent state never exists under an erased ownership word, wherever the
\* supply fails during start-up (ownership_marker_action, OpenCard).
THEOREM BoardOwnedBeforeState == Spec => []OwnedBeforeState
<1>1. BoardInv => OwnedBeforeState
  BY DEF BoardInv
<1> QED BY <1>1, BoardInvariantHolds, PTL

\* If a newly plugged host's first XfrBlock comes after the worker has gone
\* from RESET_PENDING.swap to take_request, the endpoint never runs a request
\* sent after a VBUS loss before it was reset for that loss, for any number of
\* losses and wherever else the worker was.
THEOREM BoardSessionIsolated == ASSUME EnumerationIsSlow PROVE Spec => []SessionIsolated
<1>1. BoardInv => SessionIsolated
  BY DEF BoardInv, SessionInv, SessionIsolated
<1> QED BY <1>1, BoardInvariantHolds, PTL

\* Within one USB session a host accepts only the answer to its own command,
\* whatever it aborted before and whatever earlier sessions left in the pipe.
THEOREM BoardOwnSessionAnswer == Spec => []OwnSessionAnswer
<1>1. BoardInv => OwnSessionAnswer
  BY DEF BoardInv, HostInv, Current, OwnSessionAnswer
<1> QED BY <1>1, BoardInvariantHolds, PTL

-----------------------------------------------------------------------------
(* The second layer of the invariant, for the answer to a fault reset.  A  *)
(* tail is a block that ends in a zero-length packet: the only packets a   *)
(* host reads in two pieces, and so the only ones it can accept as part of *)
(* a longer reply.                                                         *)

Ending(d) == IF d.in.pkt.kind = "zlp" \/ d.in.pkt = NoPacket THEN host.part ELSE d.in.pkt

TailsBelow(d, n) ==
  /\ d.pipe.outbox.full => d.pipe.outbox.seq < n
  /\ "zlp" \in {d.in.pkt.kind, d.pipe.outbox.kind} => Ending(d).seq < n

(* A packet that is neither a tail nor followed by one. *)
Plain(p) == p.kind # "zlp" /\ ~p.full /\ (p.kind = "data" => p.last)

PacketInv(d) ==
  /\ d \in Links
  /\ d.in.done => d.in.pkt = NoPacket
  /\ \A p \in {d.in.pkt, d.pipe.outbox} :
       (p.kind = "data" /\ ~p.full => p.last) /\ (p.full => p.kind = "data")
  /\ d.pipe.outbox.kind = "zlp" => d.in.pkt = NoPacket \/ d.in.pkt.full

(* Tails left in the pipe are behind the command the host is waiting for.  *)
Bound(out) == IF out.kind = "xfr" THEN host.seq ELSE host.seq + 1

TailInv(d, out) ==
  /\ PacketInv(d)
  /\ host.st = "power" /\ out.kind # "on" /\ d.pipe.outbox.full =>
       d.pipe.outbox.seq < host.seq + 1
  /\ Greeted /\ out.kind # "on" => TailsBelow(d, Bound(out))
  /\ Greeted /\ out.kind = "on" =>
       d.in.pkt.kind # "zlp" /\ (d.pipe.outbox.kind = "zlp" => d.in.pkt # NoPacket)

(* The host waits for the answer to a fault reset. *)
Waits == host.reset /\ ~count.told

(* No request for a fault reset is on its way or carried out. *)
Quiet(d) == ~flags.faultReset /\ worker.pc # "flag" /\ ~d.chan.req.reset /\ ~worker.req.reset

Answer(p) == p.kind = "data" /\ p.last /\ ~p.full /\ p.seq = host.seq
Single(r) == r.blocks = 1 /\ ~r.full

(* The answer is in the pipe, or was dropped without a mark to drain. *)
Settled(d) ==
  /\ d.pipe.state = "Idle"
  /\ \/ Answer(d.pipe.outbox)
     \/ Answer(d.in.pkt)
     \/ ~d.pipe.queued /\ ~d.pipe.inflight

(* The request is with the channel or the worker, and its answer is one    *)
(* short block.                                                            *)
Working(d) ==
  /\ d.pipe.state = "Processing" /\ d.pipe.seq = host.seq
  /\ d.chan.st \in {"Requested", "BuildingResponse", "Responded"}
  /\ d.chan.st = "BuildingResponse" /\ worker.pc = "respond" => Single(worker.rsp)
  /\ d.chan.st = "Responded" => Single(d.chan.rsp)
  /\ flags.faultReset \/ worker.pc = "flag" => d.chan.st = "Responded"

Arrived(d) ==
  /\ host.st = "transfer"
  /\ TailsBelow(d, host.seq)
  /\ Working(d) \/ Settled(d)

WaitInv(d, out, ctl) ==
  /\ ~count.told /\ ~host.reset => Quiet(d) /\ ~out.apdu.reset
  /\ Waits =>
       /\ flags.faulted /\ host.st \in {"transfer", "more"}
       /\ out.apdu.reset => out.kind = "xfr" /\ host.st = "transfer"
       /\ Quiet(d) \/ (out = NoCommand /\ ctl = NoSeq /\ Arrived(d))

AnswerInv ==
  /\ TailInv(link, bus.out)
  /\ WaitInv(link, bus.out, bus.ctl)
  /\ bus.out.kind = "on" /\ Greeted => link.in.pkt = NoPacket /\ link.pipe.outbox.kind # "zlp"
  /\ ~link.pipe.drained
  /\ ~bus.power => host.st = "gone" /\ ~host.reset

-----------------------------------------------------------------------------
(* The operations of the pipe, and the tails they leave *)

(* The link e asks for nothing d did not, and is not drained if d is not.  *)
NoMore(d, e) ==
  /\ e.chan.req \in {d.chan.req, NoRequest}
  /\ e.pipe.drained => d.pipe.drained

\* A packet that is no tail may take the place of the outbox.
LEMMA PlainTails ==
  ASSUME TypeOK, NEW d, NEW e \in Links, NEW out \in Commands, TailInv(d, out),
         e.in.pkt = d.in.pkt, e.in.done => d.in.done,
         e.pipe.outbox = d.pipe.outbox \/ Plain(e.pipe.outbox)
  PROVE  /\ TailInv(e, out)
         /\ \A n \in Nat : TailsBelow(d, n) => TailsBelow(e, n)
<1>1. \A n \in Nat : TailsBelow(d, n) => TailsBelow(e, n)
  BY DEF TailsBelow, Ending, Plain
<1>2. PacketInv(e)
  BY DEF TailInv, PacketInv, Plain
<1>3. Bound(out) \in Nat
  BY DEF Bound, TypeOK
<1>4. Greeted /\ out.kind # "on" => TailsBelow(e, Bound(out))
  BY <1>1, <1>3 DEF TailInv
<1> QED BY <1>1, <1>2, <1>4 DEF TailInv, Plain

\* The four packets that are not data are plain.
LEMMA PlainPackets ==
  /\ Plain(NoPacket)
  /\ \A k \in {"extension", "refused", "atr", "status"}, n \in Nat :
       Packet(k, n) \in Packets /\ Plain(Packet(k, n)) /\ Packet(k, n).kind = k
<1>1. Plain(NoPacket)
  BY EmptyTypes DEF Plain
<1>2. ASSUME NEW k \in {"extension", "refused", "atr", "status"}, NEW n \in Nat
      PROVE  Packet(k, n) \in Packets /\ Plain(Packet(k, n)) /\ Packet(k, n).kind = k
  BY EmptyTypes DEF Packet, Packets, Plain
<1> QED BY <1>1, <1>2

\* What maybe_send_packet does to a link.
LEMMA MaybeSendFacts ==
  ASSUME NEW d \in Links
  PROVE  LET e == MaybeSendPacket(d) IN
         /\ e \in Links
         /\ e.chan = d.chan /\ e.pipe.state = d.pipe.state /\ e.pipe.seq = d.pipe.seq
         /\ e.pipe.queued = d.pipe.queued /\ e.pipe.drained = d.pipe.drained
         /\ ~d.pipe.queued /\ ~d.pipe.inflight => ~e.pipe.inflight
         /\ \/ e = d /\ (d.pipe.outbox = NoPacket \/ d.in.pkt # NoPacket)
            \/ /\ d.pipe.outbox # NoPacket /\ d.in.pkt = NoPacket
               /\ e.in.pkt = d.pipe.outbox /\ e.in.done = FALSE
               /\ e.pipe.outbox.kind = IF d.pipe.outbox.full THEN "zlp" ELSE "none"
               /\ ~e.pipe.outbox.full
               /\ ~d.pipe.outbox.full => e.pipe.outbox = NoPacket
<1> DEFINE e == MaybeSendPacket(d)
<1>1. CASE d.pipe.outbox = NoPacket \/ ~EndpointFree(d)
  BY <1>1 DEF MaybeSendPacket, EndpointFree
<1>2. CASE ~(d.pipe.outbox = NoPacket \/ ~EndpointFree(d))
  <2> DEFINE z == Packet("zlp", d.pipe.outbox.seq)
             f == d.pipe.inflight \/ (d.pipe.queued /\ d.pipe.state = "Idle" /\ ~d.pipe.outbox.full)
  <2>1. z \in Packets /\ z.kind = "zlp" /\ ~z.full
    BY EmptyTypes DEF Packet, Packets, Links, Pipes
  <2>2. f \in BOOLEAN /\ (~d.pipe.queued /\ ~d.pipe.inflight => ~f)
    BY DEF Links, Pipes
  <2>3. e = [d EXCEPT !.in = [pkt |-> d.pipe.outbox, done |-> FALSE],
                      !.pipe.inflight = f,
                      !.pipe.outbox = IF d.pipe.outbox.full THEN z ELSE NoPacket]
    BY <1>2 DEF MaybeSendPacket
  <2> HIDE DEF z, f, e
  <2>4. /\ e \in Links
        /\ e.chan = d.chan /\ e.pipe.state = d.pipe.state /\ e.pipe.seq = d.pipe.seq
        /\ e.pipe.queued = d.pipe.queued /\ e.pipe.drained = d.pipe.drained
        /\ e.pipe.inflight = f
        /\ e.in.pkt = d.pipe.outbox /\ e.in.done = FALSE
        /\ e.pipe.outbox = IF d.pipe.outbox.full THEN z ELSE NoPacket
    BY <2>1, <2>2, <2>3, EmptyTypes DEF Links, Pipes
  <2> QED BY <1>2, <2>1, <2>2, <2>4, EmptyTypes DEF EndpointFree, e
<1> QED BY <1>1, <1>2

\* maybe_send_packet moves a tail with its zero-length packet, and adds none.
LEMMA MaybeSendTails ==
  ASSUME TypeOK, NEW d, NEW out \in Commands, TailInv(d, out)
  PROVE  /\ TailInv(MaybeSendPacket(d), out)
         /\ \A n \in Nat : TailsBelow(d, n) => TailsBelow(MaybeSendPacket(d), n)
         /\ NoMore(d, MaybeSendPacket(d))
<1> DEFINE e == MaybeSendPacket(d)
<1>0. d \in Links
  BY DEF TailInv, PacketInv
<1>1. /\ e \in Links
      /\ e.chan = d.chan /\ e.pipe.drained = d.pipe.drained
      /\ \/ e = d
         \/ /\ d.pipe.outbox # NoPacket /\ d.in.pkt = NoPacket
            /\ e.in.pkt = d.pipe.outbox /\ e.in.done = FALSE
            /\ e.pipe.outbox.kind = IF d.pipe.outbox.full THEN "zlp" ELSE "none"
            /\ ~e.pipe.outbox.full
  BY <1>0, MaybeSendFacts
<1> HIDE DEF e
<1>2. \A n \in Nat : TailsBelow(d, n) => TailsBelow(e, n)
  BY <1>1, EmptyTypes DEF TailsBelow, Ending, TailInv, PacketInv
<1>3. PacketInv(e)
  BY <1>0, <1>1 DEF TailInv, PacketInv
<1>4. Bound(out) \in Nat
  BY DEF Bound, TypeOK
<1>5. Greeted /\ out.kind # "on" => TailsBelow(e, Bound(out))
  BY <1>2, <1>4 DEF TailInv
<1>6. TailInv(e, out)
  BY <1>1, <1>3, <1>5 DEF TailInv
<1>7. NoMore(d, e)
  BY <1>1 DEF NoMore
<1> QED BY <1>2, <1>6, <1>7 DEF e

\* send_packet overwrites the outbox, tail or not.
LEMMA SendTails ==
  ASSUME TypeOK, NEW d, NEW out \in Commands, TailInv(d, out),
         NEW k \in {"extension", "refused", "atr", "status"}, NEW n \in Nat
  PROVE  LET e == SendPacket(d, Packet(k, n)) IN
         /\ TailInv(e, out) /\ TailInv(e, NoCommand)
         /\ \A m \in Nat : TailsBelow(d, m) => TailsBelow(e, m)
         /\ NoMore(d, e)
<1> DEFINE q == Packet(k, n)
           c == [d EXCEPT !.pipe.state = IF d.pipe.outbox # NoPacket THEN "Idle" ELSE @,
                          !.pipe.outbox = q]
<1>0. d \in Links /\ NoCommand \in Commands /\ NoCommand.kind = "none"
  BY EmptyTypes DEF TailInv, PacketInv
<1>1. q \in Packets /\ Plain(q)
  BY PlainPackets
<1> HIDE DEF q
<1>2. /\ c \in Links /\ c.chan = d.chan /\ c.in = d.in /\ c.pipe.outbox = q
      /\ c.pipe.drained = d.pipe.drained
  BY <1>0, <1>1 DEF Links, Pipes
<1> HIDE DEF c
<1>3. TailInv(c, out) /\ \A m \in Nat : TailsBelow(d, m) => TailsBelow(c, m)
  BY <1>1, <1>2, PlainTails
<1>4. TailInv(c, NoCommand)
  <2>1. host.seq \in Nat /\ c.in.pkt.kind = "zlp" => Ending(c).seq \in Nat
    BY <1>2 DEF TypeOK, Ending, Links, Packets
  <2>2. Greeted => TailsBelow(c, host.seq + 1)
    <3>1. CASE out.kind = "on"
      BY <1>1, <1>2, <1>3, <3>1 DEF TailsBelow, TailInv, Plain
    <3>2. CASE out.kind # "on"
      BY <1>0, <1>1, <1>2, <1>3, <2>1, <3>2 DEF TailsBelow, TailInv, Plain, Bound, TypeOK
    <3> QED BY <3>1, <3>2
  <2> QED BY <1>0, <1>1, <1>2, <1>3, <2>2 DEF TailInv, Plain, Bound
<1>5. SendPacket(d, q) = MaybeSendPacket(c)
  BY DEF SendPacket, c
<1>6. /\ TailInv(MaybeSendPacket(c), out) /\ TailInv(MaybeSendPacket(c), NoCommand)
      /\ \A m \in Nat : TailsBelow(c, m) => TailsBelow(MaybeSendPacket(c), m)
      /\ NoMore(c, MaybeSendPacket(c))
  BY <1>0, <1>3, <1>4, MaybeSendTails
<1> QED BY <1>2, <1>3, <1>5, <1>6 DEF NoMore, q

\* A command other than IccPowerOn leaves the tails where they are.
LEMMA ConsumeTails ==
  ASSUME TypeOK, NEW d, NEW out \in Commands, TailInv(d, out), out.kind # "on"
  PROVE  TailInv(d, NoCommand)
<1>1. d \in Links /\ NoCommand.kind = "none" /\ host.seq \in Nat /\ host.part \in Packets
  BY EmptyTypes DEF TailInv, PacketInv, TypeOK
<1>2. d.pipe.outbox.seq \in Nat /\ Ending(d).seq \in Nat
  BY <1>1 DEF Ending, Links, Pipes, Packets
<1>3. Greeted => TailsBelow(d, host.seq + 1)
  BY <1>1, <1>2 DEF TailInv, TailsBelow, Bound
<1> QED BY <1>1, <1>3 DEF TailInv, Bound

\* A reset of the pipe empties the outbox and forgets what was to drain.
LEMMA ResetTails ==
  ASSUME TypeOK, NEW d, NEW out \in Commands, TailInv(d, out)
  PROVE  LET e == ResetState(d) IN
         /\ TailInv(e, out)
         /\ \A n \in Nat : TailsBelow(d, n) => TailsBelow(e, n)
         /\ NoMore(d, e) /\ e.pipe = FreshPipe /\ Settled(e)
<1> DEFINE e == ResetState(d)
<1>0. d \in Links
  BY DEF TailInv, PacketInv
<1>1. e \in Links /\ e.chan.req = NoRequest /\ e.pipe = FreshPipe /\ e.in = d.in
  BY <1>0, EmptyTypes DEF ResetState, ResetInterchange, Links, Channels
<1>2. ~FreshPipe.drained /\ ~FreshPipe.queued /\ ~FreshPipe.inflight
  BY DEF FreshPipe
<1> HIDE DEF e
<1>3. TailInv(e, out) /\ \A n \in Nat : TailsBelow(d, n) => TailsBelow(e, n)
  BY <1>1, PlainPackets, PlainTails, EmptyTypes
<1> QED BY <1>1, <1>2, <1>3, EmptyTypes DEF NoMore, Settled, e

\* What prime_outbox puts in the outbox of a link with an answer.
LEMMA PrimeFacts ==
  ASSUME NEW d \in Links, d.pipe.outbox = NoPacket, d.chan.st = "Responded"
  PROVE  \E c \in Links :
           /\ PrimeOutbox(d) = MaybeSendPacket(c)
           /\ c.in = d.in /\ c.chan = d.chan /\ c.pipe.drained = d.pipe.drained
           /\ c.pipe.outbox.kind = "data" /\ c.pipe.outbox.seq = d.pipe.seq
           /\ ~c.pipe.outbox.full => c.pipe.outbox.last
           /\ Single(d.chan.rsp) /\ d.pipe.sent = 0 =>
                c.pipe.state = "Idle" /\ ~c.pipe.outbox.full
<1> DEFINE more == d.pipe.sent + 1 < d.chan.rsp.blocks
           q == [kind |-> "data", seq |-> d.pipe.seq, id |-> d.chan.rsp.id,
                 last |-> ~more, full |-> more \/ d.chan.rsp.full]
           c == [d EXCEPT
                  !.pipe.sent = IF more THEN d.pipe.sent + 1 ELSE 0,
                  !.pipe.state = IF more THEN "Sending" ELSE "Idle",
                  !.pipe.queued = @ \/ ~more,
                  !.pipe.outbox = q]
<1>1. q \in Packets /\ q.kind = "data" /\ q.seq = d.pipe.seq /\ (~q.full => q.last)
  BY DEF Packets, Links, Pipes, Channels, Answers
<1>2. Single(d.chan.rsp) /\ d.pipe.sent = 0 => ~more /\ ~q.full
  <2>1. Single(d.chan.rsp) /\ d.pipe.sent = 0 => ~more /\ ~d.chan.rsp.full
    BY DEF Single
  <2>2. more \in BOOLEAN /\ d.chan.rsp.full \in BOOLEAN
    BY DEF Links, Channels, Answers
  <2> HIDE DEF more
  <2> QED BY <2>1, <2>2
<1>3. d.pipe.sent + 1 \in Nat
  BY DEF Links, Pipes
<1>4. PrimeOutbox(d) = MaybeSendPacket(c)
  BY DEF PrimeOutbox
<1> HIDE DEF q, more
<1>5. /\ c \in Links /\ c.in = d.in /\ c.chan = d.chan /\ c.pipe.drained = d.pipe.drained
      /\ c.pipe.outbox = q /\ c.pipe.state = IF more THEN "Sending" ELSE "Idle"
  BY <1>1, <1>3 DEF Links, Pipes
<1> HIDE DEF c
<1> QED BY <1>1, <1>2, <1>4, <1>5

\* The block prime_outbox adds carries the number of the last command.
LEMMA PrimeTails ==
  ASSUME TypeOK, NEW d, NEW out \in Commands, NEW ctl \in Nat, LinkInv(d, out, ctl),
         TailInv(d, out)
  PROVE  TailInv(PrimeOutbox(d), out) /\ NoMore(d, PrimeOutbox(d))
<1>0. d \in Links
  BY DEF LinkInv
<1>1. CASE d.pipe.outbox # NoPacket \/ d.chan.st # "Responded"
  BY <1>1, ResetTails DEF PrimeOutbox
<1>2. CASE d.pipe.outbox = NoPacket /\ d.chan.st = "Responded"
  <2>1. PICK c \in Links :
           /\ PrimeOutbox(d) = MaybeSendPacket(c)
           /\ c.in = d.in /\ c.chan = d.chan /\ c.pipe.drained = d.pipe.drained
           /\ c.pipe.outbox.kind = "data" /\ c.pipe.outbox.seq = d.pipe.seq
           /\ ~c.pipe.outbox.full => c.pipe.outbox.last
    BY <1>0, <1>2, PrimeFacts
  <2>2. host.seq \in Nat /\ d.pipe.seq \in Nat
    BY <1>0 DEF TypeOK, Links, Pipes
  <2>3. PacketInv(c)
    BY <2>1 DEF TailInv, PacketInv
  <2>4. Greeted /\ out.kind # "on" => d.pipe.seq < Bound(out)
    BY <2>2 DEF LinkInv, Bound
  <2>5. Greeted /\ out.kind # "on" => TailsBelow(c, Bound(out))
    BY <2>1, <2>4 DEF TailInv, TailsBelow, Ending
  <2>6. host.st = "power" /\ out.kind # "on" => d.pipe.seq < host.seq + 1
    BY <2>2 DEF LinkInv
  <2>7. TailInv(c, out)
    BY <2>1, <2>3, <2>5, <2>6 DEF TailInv
  <2> QED BY <2>1, <2>7, MaybeSendTails DEF NoMore
<1> QED BY <1>1, <1>2

\* poll_app and check_for_app_response.
LEMMA CheckTails ==
  ASSUME TypeOK, NEW d, NEW out \in Commands, NEW ctl \in Nat, LinkInv(d, out, ctl),
         TailInv(d, out)
  PROVE  TailInv(CheckForAppResponse(d), out) /\ NoMore(d, CheckForAppResponse(d))
<1> DEFINE e == [d EXCEPT !.pipe.state = "ReadyToSend", !.pipe.sent = 0]
<1>0. d \in Links
  BY DEF LinkInv
<1>1. CASE d.pipe.state = "Processing" /\ d.chan.st = "Responded"
  <2>1. /\ e \in Links
        /\ e.chan = d.chan /\ e.pipe.state = "ReadyToSend"
        /\ e.pipe.seq = d.pipe.seq /\ e.pipe.control = d.pipe.control
        /\ e.in = d.in /\ e.pipe.outbox = d.pipe.outbox /\ e.pipe.drained = d.pipe.drained
    BY <1>0 DEF Links, Pipes
  <2>2. PollApp(d) = PrimeOutbox(e)
    BY <1>1 DEF PollApp
  <2> HIDE DEF e
  <2>3. LinkInv(e, out, ctl)
    BY <1>1, <2>1, LinkFrame DEF AtWork
  <2>4. TailInv(e, out)
    BY <2>1, PlainTails
  <2>5. TailInv(PrimeOutbox(e), out) /\ NoMore(e, PrimeOutbox(e))
    BY <2>3, <2>4, PrimeTails
  <2> QED BY <2>1, <2>2, <2>5, MaybeSendTails DEF CheckForAppResponse, NoMore
<1>2. CASE ~(d.pipe.state = "Processing" /\ d.chan.st = "Responded")
  BY <1>2, MaybeSendTails DEF CheckForAppResponse, PollApp
<1> QED BY <1>1, <1>2

\* A completion or a freed endpoint leaves the tails; only a completion can
\* drain the pipe.
LEMMA CompleteTails ==
  ASSUME TypeOK, NEW d, NEW out \in Commands, TailInv(d, out)
  PROVE  /\ TailInv(EndpointInComplete(d), out)
         /\ EndpointInComplete(d).chan = d.chan
         /\ \A n \in Nat : TailsBelow(d, n) => TailsBelow(EndpointInComplete(d), n)
         /\ ~d.pipe.inflight => EndpointInComplete(d) = MaybeSendPacket(d)
<1> DEFINE e == [d EXCEPT !.pipe.inflight = FALSE, !.pipe.queued = FALSE,
                          !.pipe.drained = TRUE]
           f == IF d.pipe.inflight THEN e ELSE d
<1>0. d \in Links
  BY DEF TailInv, PacketInv
<1>1. e \in Links /\ e.chan = d.chan /\ e.in = d.in /\ e.pipe.outbox = d.pipe.outbox
  BY <1>0 DEF Links, Pipes
<1>2. f \in Links /\ f.chan = d.chan /\ f.in = d.in /\ f.pipe.outbox = d.pipe.outbox
  <2> HIDE DEF e
  <2> QED BY <1>0, <1>1
<1>3. EndpointInComplete(d) = MaybeSendPacket(f)
  BY DEF EndpointInComplete
<1>4. ~d.pipe.inflight => f = d
  OBVIOUS
<1> HIDE DEF f
<1>5. TailInv(f, out) /\ \A n \in Nat : TailsBelow(d, n) => TailsBelow(f, n)
  BY <1>2, PlainTails
<1>6. /\ TailInv(MaybeSendPacket(f), out) /\ MaybeSendPacket(f).chan = f.chan
      /\ \A n \in Nat : TailsBelow(f, n) => TailsBelow(MaybeSendPacket(f), n)
  BY <1>2, <1>5, MaybeSendTails, MaybeSendFacts
<1> QED BY <1>2, <1>3, <1>4, <1>5, <1>6

\* The endpoint the host has read is already empty.
LEMMA FreedTails ==
  ASSUME TypeOK, NEW d, NEW out \in Commands, TailInv(d, out)
  PROVE  LET e == FreedIn(d) IN
         /\ TailInv(e, out)
         /\ \A n \in Nat : TailsBelow(d, n) => TailsBelow(e, n)
         /\ e.pipe = d.pipe /\ e.chan = d.chan /\ e.in.pkt = d.in.pkt
<1> DEFINE e == FreedIn(d)
<1>1. /\ e \in Links /\ e.pipe = d.pipe /\ e.chan = d.chan /\ e.in.pkt = d.in.pkt
      /\ e.in.done => d.in.done
  BY EmptyTypes DEF FreedIn, TailInv, PacketInv, Links
<1> HIDE DEF e
<1>2. TailInv(e, out) /\ \A n \in Nat : TailsBelow(d, n) => TailsBelow(e, n)
  BY <1>1, PlainTails
<1> QED BY <1>1, <1>2 DEF e

(* Two links that differ in no more than the start and drain marks. *)
SamePipe(d, e) ==
  /\ e.chan = d.chan /\ e.in = d.in /\ e.pipe.outbox = d.pipe.outbox
  /\ e.pipe.state = d.pipe.state /\ e.pipe.seq = d.pipe.seq
  /\ e.pipe.queued = d.pipe.queued /\ e.pipe.inflight = d.pipe.inflight

\* The start and drain marks.
LEMMA MarkTails ==
  ASSUME TypeOK, NEW d, NEW out \in Commands, TailInv(d, out), NEW e,
         \/ e = [d EXCEPT !.pipe.started = FALSE]
         \/ e = [d EXCEPT !.pipe.drained = FALSE] /\ ~e.pipe.drained
  PROVE  TailInv(e, out) /\ NoMore(d, e) /\ SamePipe(d, e)
<1>0. d \in Links
  BY DEF TailInv, PacketInv
<1>1. /\ e \in Links /\ (e.pipe.drained => d.pipe.drained)
      /\ e.chan = d.chan /\ e.in = d.in /\ e.pipe.outbox = d.pipe.outbox
      /\ e.pipe.state = d.pipe.state /\ e.pipe.seq = d.pipe.seq
      /\ e.pipe.queued = d.pipe.queued /\ e.pipe.inflight = d.pipe.inflight
  <2>1. CASE e = [d EXCEPT !.pipe.started = FALSE]
    BY <1>0, <2>1 DEF Links, Pipes
  <2>2. CASE e = [d EXCEPT !.pipe.drained = FALSE] /\ ~e.pipe.drained
    BY <1>0, <2>2 DEF Links, Pipes
  <2> QED BY <2>1, <2>2
<1>2. TailInv(e, out)
  BY <1>1, PlainTails
<1> QED BY <1>1, <1>2 DEF NoMore, SamePipe

\* An acknowledged abort drops the outbox.
LEMMA AbortTails ==
  ASSUME TypeOK, NEW d, NEW out \in Commands, TailInv(d, out)
  PROVE  TailInv(Abort(d), out) /\ NoMore(d, Abort(d))
<1> DEFINE p == [FreshPipe EXCEPT !.seq = d.pipe.seq]
           c == [d EXCEPT !.pipe = p]
<1>0. d \in Links /\ d.pipe.seq \in Nat
  BY DEF TailInv, PacketInv, Links, Pipes
<1>1. p \in Pipes /\ p.outbox = NoPacket /\ p.drained = FALSE
  <2>1. FreshPipe.drained = FALSE
    BY DEF FreshPipe
  <2> QED BY <1>0, <2>1, EmptyTypes DEF Pipes
<1>2. c \in Links /\ c.pipe = p /\ c.chan = d.chan /\ c.in = d.in
  <2> HIDE DEF p
  <2> QED BY <1>0, <1>1 DEF Links
<1>3. Abort(d) = SendPacket(c, Packet("status", d.pipe.seq))
  BY DEF Abort
<1> HIDE DEF c, p
<1>4. TailInv(c, out)
  BY <1>1, <1>2, PlainPackets, PlainTails
<1>5. /\ TailInv(SendPacket(c, Packet("status", d.pipe.seq)), out)
      /\ NoMore(c, SendPacket(c, Packet("status", d.pipe.seq)))
  BY <1>0, <1>4, SendTails
<1> QED BY <1>1, <1>2, <1>3, <1>5 DEF NoMore

\* An abort on the control pipe.
LEMMA ControlTails ==
  ASSUME TypeOK, NEW d, TailInv(d, bus.out)
  PROVE  TailInv(PollControl(d), bus.out) /\ NoMore(d, PollControl(d))
<1> DEFINE e == [d EXCEPT !.pipe.control = bus.ctl]
<1>0. d \in Links /\ bus.out \in Commands /\ bus.ctl \in Nat
  BY DEF TailInv, PacketInv, TypeOK
<1>1. CASE bus.ctl = NoSeq
  BY <1>1 DEF PollControl, NoMore
<1>2. CASE bus.ctl # NoSeq /\ d.pipe.bulk = bus.ctl
  BY <1>0, <1>2, AbortTails DEF PollControl, ExpectAbort
<1>3. CASE bus.ctl # NoSeq /\ d.pipe.bulk # bus.ctl
  <2>1. /\ e \in Links /\ e.pipe.drained = d.pipe.drained
        /\ e.chan = d.chan /\ e.in = d.in /\ e.pipe.outbox = d.pipe.outbox
    BY <1>0 DEF Links, Pipes
  <2>2. PollControl(d) = e
    BY <1>3 DEF PollControl, ExpectAbort
  <2> HIDE DEF e
  <2>3. TailInv(e, bus.out)
    BY <1>0, <2>1, PlainTails
  <2> QED BY <2>1, <2>2, <2>3 DEF NoMore
<1> QED BY <1>1, <1>2, <1>3

(* The pipe handed the pending transfer to the channel. *)
Taken(d, e) ==
  /\ bus.out.kind = "xfr"
  /\ e.chan.req = bus.out.apdu /\ e.chan.st = "Requested"
  /\ e.pipe.state = "Processing" /\ e.pipe.seq = bus.out.seq
  /\ e.in = d.in /\ e.pipe.outbox = d.pipe.outbox
  /\ e.pipe.drained = d.pipe.drained

\* A transfer or a request for the next block.
LEMMA TransferTails ==
  ASSUME BoardInv, NEW e, TailInv(e, NoCommand), bus.out.kind \in {"xfr", "more"},
         bus.out.kind = "more" => LinkInv(e, NoCommand, NoSeq), e.pipe.seq = bus.out.seq
  PROVE  /\ TailInv(HandleTransfer(e, bus.out), NoCommand)
         /\ NoMore(e, HandleTransfer(e, bus.out)) \/ Taken(e, HandleTransfer(e, bus.out))
<1> DEFINE fresh == ResetInterchange(e)
           f == CallApp(fresh, bus.out.apdu)
<1>0. /\ TypeOK /\ bus.out \in Commands /\ e \in Links /\ NoCommand \in Commands
      /\ NoSeq \in Nat
  BY EmptyTypes DEF BoardInv, TypeOK, TailInv, PacketInv
<1>1. /\ fresh \in Links /\ fresh.pipe = e.pipe /\ fresh.in = e.in
      /\ fresh.chan.req = NoRequest
  BY <1>0, EmptyTypes DEF ResetInterchange, Links, Channels
<1> HIDE DEF fresh
<1>2. TailInv(fresh, NoCommand)
  BY <1>0, <1>1, PlainTails
<1>3. CASE e.pipe.state = "Idle" /\ bus.out.kind = "xfr" /\ fresh.chan.st = "Idle"
  <2>1. /\ f \in Links
        /\ f.chan.st = "Requested" /\ f.chan.req = bus.out.apdu
        /\ f.pipe.state = "Processing" /\ f.pipe.seq = e.pipe.seq
        /\ f.in = e.in /\ f.pipe.outbox = e.pipe.outbox /\ f.pipe.drained = e.pipe.drained
    BY <1>0, <1>1 DEF CallApp, Links, Pipes, Channels, Commands
  <2>2. HandleTransfer(e, bus.out) = f
    BY <1>3 DEF HandleTransfer, fresh
  <2> HIDE DEF f
  <2>3. TailInv(f, NoCommand)
    BY <1>0, <2>1, PlainTails
  <2>4. Taken(e, f)
    BY <1>3, <2>1 DEF Taken
  <2> QED BY <2>2, <2>3, <2>4
<1>4. CASE e.pipe.state = "Idle" /\ bus.out.kind = "xfr" /\ fresh.chan.st # "Idle"
  <2>1. HandleTransfer(e, bus.out) = ResetState(fresh)
    BY <1>4 DEF HandleTransfer, fresh
  <2> QED BY <1>0, <1>1, <1>2, <2>1, ResetTails DEF NoMore
<1>5. CASE e.pipe.state = "Sending" /\ bus.out.kind = "more"
  <2>1. HandleTransfer(e, bus.out) = PrimeOutbox(e)
    BY <1>5 DEF HandleTransfer
  <2> QED BY <1>0, <1>5, <2>1, PrimeTails
<1>6. CASE ~(e.pipe.state = "Idle" /\ bus.out.kind = "xfr")
           /\ ~(e.pipe.state = "Sending" /\ bus.out.kind = "more")
  <2>1. HandleTransfer(e, bus.out) = ResetState(e)
    BY <1>6 DEF HandleTransfer
  <2> QED BY <1>0, <2>1, ResetTails
<1> QED BY <1>3, <1>4, <1>5, <1>6

\* A command received on the bulk pipe.
LEMMA OutTails ==
  ASSUME BoardInv, NEW d, LinkInv(d, bus.out, NoSeq), TailInv(d, bus.out)
  PROVE  /\ TailInv(PollOut(d), NoCommand)
         /\ NoMore(d, PollOut(d)) \/ Taken(d, PollOut(d))
<1> DEFINE c == bus.out
           d1 == [d EXCEPT !.pipe.seq = c.seq]
           e == [d1 EXCEPT !.pipe.bulk = NoSeq]
           g == [e EXCEPT !.pipe.bulk = c.seq]
<1>0. TypeOK /\ c \in Commands /\ c.seq \in Nat /\ d \in Links /\ NoSeq \in Nat
      /\ NoCommand \in Commands
  BY EmptyTypes DEF BoardInv, TypeOK, LinkInv, Commands
<1>1. CASE c = NoCommand
  BY <1>1 DEF PollOut, NoMore
<1>2. CASE c # NoCommand
  <2>1. c.kind \in {"on", "xfr", "more", "abort"}
    <3>1. c.kind # "none"
      BY <1>2 DEF BoardInv, CommandInv
    <3> QED BY <1>0, <3>1 DEF Commands
  <2>2. Received(d, d1) /\ d1.pipe.drained = d.pipe.drained
    BY <1>0 DEF Received, Links, Pipes
  <2>3. Received(d, e) /\ e.pipe.drained = d.pipe.drained
    BY <1>0 DEF Received, Links, Pipes
  <2>4. Received(d, g) /\ g.pipe.drained = d.pipe.drained
    BY <1>0 DEF Received, Links, Pipes
  <2>5. PollOut(d) = HandlePacket(d, c)
    BY <1>2 DEF PollOut
  <2>6. d1.pipe.control = d.pipe.control /\ d1.pipe.seq = c.seq
    BY <2>2 DEF Received
  <2> HIDE DEF d1, e, g
  <2>7. TailInv(d1, c) /\ TailInv(e, c) /\ TailInv(g, c)
    BY <1>0, <2>2, <2>3, <2>4, PlainTails DEF Received
  <2>8. NoMore(d, d1) /\ NoMore(d, e) /\ NoMore(d, g)
    BY <2>2, <2>3, <2>4 DEF NoMore, Received
  <2>9. CASE d.pipe.control # NoSeq /\ c.kind = "abort" /\ d1.pipe.control = c.seq
    <3>1. PollOut(d) = Abort(d1)
      BY <2>5, <2>6, <2>9 DEF HandlePacket, d1, e
    <3>2. TailInv(Abort(d1), NoCommand) /\ NoMore(d1, Abort(d1))
      BY <1>0, <2>7, <2>9, AbortTails, ConsumeTails
    <3> QED BY <2>8, <3>1, <3>2 DEF NoMore
  <2>10. CASE d.pipe.control # NoSeq /\ ~(c.kind = "abort" /\ d1.pipe.control = c.seq)
    <3> DEFINE f == SendPacket(d1, Packet("refused", c.seq))
    <3>1. PollOut(d) = f
      BY <2>5, <2>6, <2>10 DEF HandlePacket, d1, e
    <3>2. TailInv(f, NoCommand) /\ NoMore(d1, f)
      BY <1>0, <2>7, SendTails
    <3> HIDE DEF f
    <3> QED BY <2>8, <3>1, <3>2 DEF NoMore
  <2>11. CASE d.pipe.control = NoSeq /\ c.kind = "on"
    <3> DEFINE f == SendPacket(e, Packet("atr", c.seq))
    <3>1. PollOut(d) = f
      BY <2>5, <2>6, <2>11 DEF HandlePacket, d1, e
    <3>2. TailInv(f, NoCommand) /\ NoMore(e, f)
      BY <1>0, <2>7, SendTails
    <3> HIDE DEF f
    <3> QED BY <2>8, <3>1, <3>2 DEF NoMore
  <2>12. CASE d.pipe.control = NoSeq /\ c.kind = "abort"
    <3>1. PollOut(d) = g
      BY <2>5, <2>6, <2>12 DEF HandlePacket, d1, e, g
    <3> QED BY <1>0, <2>7, <2>8, <2>12, <3>1, ConsumeTails
  <2>13. CASE d.pipe.control = NoSeq /\ c.kind \in {"xfr", "more"}
    <3>1. PollOut(d) = HandleTransfer(e, c)
      BY <2>5, <2>6, <2>13 DEF HandlePacket, d1, e
    <3>2. TailInv(e, NoCommand)
      BY <1>0, <2>7, <2>13, ConsumeTails
    <3>3. c.kind = "more" => LinkInv(e, NoCommand, NoSeq)
      BY <2>3, ReceiveKeeps
    <3>4. e.pipe.seq = c.seq
      BY <2>3 DEF Received
    <3>5. /\ TailInv(HandleTransfer(e, c), NoCommand)
          /\ NoMore(e, HandleTransfer(e, c)) \/ Taken(e, HandleTransfer(e, c))
      BY <2>13, <3>2, <3>3, <3>4, TransferTails
    <3> QED BY <2>3, <2>8, <3>1, <3>5 DEF NoMore, Taken, Received
  <2> QED BY <2>1, <2>9, <2>10, <2>11, <2>12, <2>13
<1> QED BY <1>1, <1>2

-----------------------------------------------------------------------------
(* The answer to a fault reset on its way through the pipe *)

\* A link with the same work, packets and marks.
LEMMA ArrivedFrame ==
  ASSUME NEW d, NEW e, Arrived(d), TailsBelow(e, host.seq),
         e.chan = d.chan, e.pipe.state = d.pipe.state, e.pipe.seq = d.pipe.seq,
         e.in.pkt = d.in.pkt, e.pipe.outbox = d.pipe.outbox,
         ~d.pipe.queued /\ ~d.pipe.inflight => ~e.pipe.queued /\ ~e.pipe.inflight
  PROVE  Arrived(e)
BY DEF Arrived, Working, Settled

\* maybe_send_packet moves the answer to the endpoint.
LEMMA SettledSend ==
  ASSUME NEW d \in Links, Settled(d)
  PROVE  Settled(MaybeSendPacket(d))
<1> DEFINE e == MaybeSendPacket(d)
<1>1. /\ e.pipe.state = d.pipe.state /\ e.pipe.queued = d.pipe.queued
      /\ ~d.pipe.queued /\ ~d.pipe.inflight => ~e.pipe.inflight
      /\ e = d \/ (d.in.pkt = NoPacket /\ e.in.pkt = d.pipe.outbox)
  BY MaybeSendFacts
<1> HIDE DEF e
<1>2. ~Answer(NoPacket)
  BY EmptyTypes DEF Answer
<1>3. Settled(e)
  BY <1>1, <1>2 DEF Settled
<1> QED BY <1>3 DEF e

\* Work in progress is not touched by it.
LEMMA ArrivedSend ==
  ASSUME TypeOK, NEW d, NEW out \in Commands, TailInv(d, out), Arrived(d)
  PROVE  Arrived(MaybeSendPacket(d))
<1> DEFINE e == MaybeSendPacket(d)
<1>0. d \in Links /\ host.seq \in Nat
  BY DEF TailInv, PacketInv, TypeOK
<1>1. TailsBelow(e, host.seq)
  BY <1>0, MaybeSendTails DEF Arrived
<1>2. e.chan = d.chan /\ e.pipe.state = d.pipe.state /\ e.pipe.seq = d.pipe.seq
  BY <1>0, MaybeSendFacts
<1>3. Settled(d) => Settled(e)
  BY <1>0, SettledSend
<1> HIDE DEF e
<1>4. Working(d) => Working(e)
  BY <1>2 DEF Working
<1>5. Arrived(e)
  BY <1>1, <1>3, <1>4 DEF Arrived
<1> QED BY <1>5 DEF e

\* check_for_app_response turns the reply into the answer; from then on the
\* pipe is settled.
LEMMA ArrivedCheck ==
  ASSUME TypeOK, NEW d, NEW out \in Commands, TailInv(d, out), Arrived(d)
  PROVE  LET e == CheckForAppResponse(d) IN
         /\ Arrived(e)
         /\ flags.faultReset => Settled(e)
<1> DEFINE r == [d EXCEPT !.pipe.state = "ReadyToSend", !.pipe.sent = 0]
           a == PollApp(d)
<1>0. d \in Links /\ host.seq \in Nat
  BY DEF TailInv, PacketInv, TypeOK
<1>1. TailInv(a, out) /\ Arrived(a) /\ (flags.faultReset => Settled(a))
  <2>1. CASE d.pipe.state = "Processing" /\ d.chan.st = "Responded"
    <3>1. /\ r \in Links
          /\ r.chan = d.chan /\ r.pipe.sent = 0 /\ r.pipe.seq = d.pipe.seq
          /\ r.in = d.in /\ r.pipe.outbox = d.pipe.outbox
      BY <1>0 DEF Links, Pipes
    <3>2. a = PrimeOutbox(r)
      BY <2>1 DEF PollApp
    <3> HIDE DEF a, r
    <3>3. TailInv(r, out) /\ TailsBelow(r, host.seq)
      BY <1>0, <3>1, PlainTails DEF Arrived
    <3>4. Single(d.chan.rsp) /\ d.pipe.seq = host.seq /\ host.st = "transfer"
      BY <2>1 DEF Arrived, Working, Settled
    <3>5. CASE r.pipe.outbox # NoPacket
      <4>1. a = ResetState(r)
        BY <3>2, <3>5 DEF PrimeOutbox
      <4>2. TailInv(ResetState(r), out) /\ TailsBelow(ResetState(r), host.seq) /\ Settled(ResetState(r))
        BY <1>0, <3>3, ResetTails
      <4> QED BY <3>4, <4>1, <4>2 DEF Arrived
    <3>6. CASE r.pipe.outbox = NoPacket
      <4>1. PICK c \in Links :
              /\ PrimeOutbox(r) = MaybeSendPacket(c)
              /\ c.in = r.in
              /\ c.pipe.outbox.kind = "data" /\ c.pipe.outbox.seq = r.pipe.seq
              /\ ~c.pipe.outbox.full => c.pipe.outbox.last
              /\ Single(r.chan.rsp) /\ r.pipe.sent = 0 =>
                   c.pipe.state = "Idle" /\ ~c.pipe.outbox.full
        BY <2>1, <3>1, <3>6, PrimeFacts
      <4>2. c.pipe.state = "Idle" /\ Plain(c.pipe.outbox) /\ Answer(c.pipe.outbox)
        BY <3>1, <3>4, <4>1 DEF Plain, Answer
      <4>3. TailInv(c, out) /\ TailsBelow(c, host.seq)
        BY <1>0, <3>3, <4>1, <4>2, PlainTails
      <4>4. Settled(c) /\ Arrived(c)
        BY <3>4, <4>2, <4>3 DEF Settled, Arrived
      <4>5. TailInv(MaybeSendPacket(c), out) /\ Settled(MaybeSendPacket(c)) /\ Arrived(MaybeSendPacket(c))
        BY <4>3, <4>4, MaybeSendTails, SettledSend, ArrivedSend
      <4> QED BY <3>2, <4>1, <4>5
    <3> QED BY <3>5, <3>6
  <2>2. CASE ~(d.pipe.state = "Processing" /\ d.chan.st = "Responded")
    <3>1. a = d
      BY <2>2 DEF PollApp
    <3>2. flags.faultReset => Settled(d)
      BY <2>2 DEF Arrived, Working
    <3> QED BY <3>1, <3>2
  <2> QED BY <2>1, <2>2
<1>2. CheckForAppResponse(d) = MaybeSendPacket(a)
  BY DEF CheckForAppResponse
<1> HIDE DEF a
<1>3. a \in Links
  BY <1>1 DEF TailInv, PacketInv
<1> QED BY <1>1, <1>2, <1>3, ArrivedSend, SettledSend

\* After check_for_app_response a read endpoint is empty because nothing waited.
LEMMA CheckLeaves ==
  ASSUME TypeOK, NEW d, NEW out \in Commands, NEW ctl \in Nat, LinkInv(d, out, ctl),
         TailInv(d, out), CheckForAppResponse(d).in.done
  PROVE  CheckForAppResponse(d).pipe.outbox = NoPacket
<1> DEFINE a == PollApp(d)
           e == MaybeSendPacket(a)
<1>1. e = CheckForAppResponse(d)
  BY DEF CheckForAppResponse
<1>2. e.in.pkt = NoPacket
  BY <1>1, CheckTails DEF TailInv, PacketInv
<1>3. a \in Links
  <2> DEFINE r == [d EXCEPT !.pipe.state = "ReadyToSend", !.pipe.sent = 0]
  <2>0. d \in Links
    BY DEF LinkInv
  <2>1. CASE d.pipe.state = "Processing" /\ d.chan.st = "Responded"
    <3>1. /\ r \in Links /\ r.in = d.in /\ r.pipe.outbox = d.pipe.outbox
          /\ r.chan = d.chan /\ r.pipe.state = "ReadyToSend"
          /\ r.pipe.seq = d.pipe.seq /\ r.pipe.control = d.pipe.control
      BY <2>0 DEF Links, Pipes
    <3>2. a = PrimeOutbox(r)
      BY <2>1 DEF PollApp
    <3> HIDE DEF r, a
    <3>3. TailInv(r, out)
      BY <3>1, PlainTails
    <3>4. LinkInv(r, out, ctl)
      BY <2>1, <3>1, LinkFrame DEF AtWork
    <3> QED BY <3>2, <3>3, <3>4, PrimeTails DEF TailInv, PacketInv
  <2>2. CASE ~(d.pipe.state = "Processing" /\ d.chan.st = "Responded")
    BY <2>0, <2>2 DEF PollApp
  <2> QED BY <2>1, <2>2
<1>4. \/ e = a /\ (a.pipe.outbox = NoPacket \/ a.in.pkt # NoPacket)
      \/ e.in.done = FALSE
  <2> HIDE DEF a
  <2> QED BY <1>3, MaybeSendFacts
<1> QED BY <1>1, <1>2, <1>4

\* A completion clears the marks, and sends the answer if it waits.
LEMMA ArrivedComplete ==
  ASSUME TypeOK, NEW d, NEW out \in Commands, TailInv(d, out), Arrived(d)
  PROVE  Arrived(EndpointInComplete(d))
<1> DEFINE e == [d EXCEPT !.pipe.inflight = FALSE, !.pipe.queued = FALSE,
                          !.pipe.drained = TRUE]
<1>0. d \in Links /\ host.seq \in Nat
  BY DEF TailInv, PacketInv, TypeOK
<1>1. CASE ~d.pipe.inflight
  BY <1>1, ArrivedSend DEF EndpointInComplete
<1>2. CASE d.pipe.inflight
  <2>1. /\ e \in Links /\ e.chan = d.chan /\ e.in = d.in /\ e.pipe.outbox = d.pipe.outbox
        /\ e.pipe.state = d.pipe.state /\ e.pipe.seq = d.pipe.seq
        /\ ~e.pipe.queued /\ ~e.pipe.inflight
    BY <1>0 DEF Links, Pipes
  <2>2. EndpointInComplete(d) = MaybeSendPacket(e)
    BY <1>2 DEF EndpointInComplete
  <2> HIDE DEF e
  <2>3. TailInv(e, out) /\ TailsBelow(e, host.seq)
    BY <1>0, <2>1, PlainTails DEF Arrived
  <2>4. Arrived(e)
    BY <2>1, <2>3, ArrivedFrame
  <2> QED BY <2>2, <2>3, <2>4, ArrivedSend
<1> QED BY <1>1, <1>2

\* A time extension is sent only into an empty outbox, and so leaves the work.
LEMMA ArrivedExtension ==
  ASSUME TypeOK, NEW d, NEW out \in Commands, TailInv(d, out), Arrived(d),
         d.pipe.outbox = NoPacket
  PROVE  Arrived(SendWaitExtension(d))
<1> DEFINE q == Packet("extension", d.pipe.seq)
           c == [d EXCEPT !.pipe.state = IF d.pipe.outbox # NoPacket THEN "Idle" ELSE @,
                          !.pipe.outbox = q]
<1>0. d \in Links /\ d.pipe.seq \in Nat /\ host.seq \in Nat
  BY DEF TailInv, PacketInv, TypeOK, Links, Pipes
<1>1. q \in Packets /\ Plain(q)
  BY <1>0, PlainPackets
<1>2. CASE d.pipe.state = "Processing"
  <2>1. SendWaitExtension(d) = MaybeSendPacket(c)
    BY <1>2 DEF SendWaitExtension, SendPacket
  <2> HIDE DEF q
  <2>2. /\ c \in Links /\ c.chan = d.chan /\ c.in = d.in /\ c.pipe.outbox = q
        /\ c.pipe.state = d.pipe.state /\ c.pipe.seq = d.pipe.seq
    BY <1>0, <1>1 DEF Links, Pipes
  <2> HIDE DEF c
  <2>3. TailInv(c, out) /\ TailsBelow(c, host.seq)
    BY <1>0, <1>1, <2>2, PlainTails DEF Arrived
  <2>4. Working(d)
    BY <1>2 DEF Arrived, Settled
  <2>5. Working(c)
    BY <2>2, <2>4 DEF Working
  <2>6. Arrived(c)
    BY <2>3, <2>5 DEF Arrived
  <2> QED BY <2>1, <2>3, <2>6, ArrivedSend
<1>3. CASE d.pipe.state # "Processing"
  BY <1>3 DEF SendWaitExtension
<1> QED BY <1>2, <1>3

\* A link that asks for nothing more keeps the host's wait as it was.
LEMMA WaitFrame ==
  ASSUME NEW d, NEW e, NEW out, NEW ctl, WaitInv(d, out, ctl),
         e.chan.req \in {d.chan.req, NoRequest},
         out = NoCommand /\ ctl = NoSeq /\ Waits /\ Arrived(d) => Arrived(e)
  PROVE  WaitInv(e, out, ctl)
<1>1. NoRequest.reset = FALSE
  BY DEF NoRequest
<1>2. Quiet(d) => Quiet(e)
  BY <1>1 DEF Quiet
<1> QED BY <1>2 DEF WaitInv

\* The marks do not matter to it.
LEMMA WaitSame ==
  ASSUME NEW d, NEW e, NEW out, NEW ctl, WaitInv(d, out, ctl), SamePipe(d, e)
  PROVE  WaitInv(e, out, ctl)
<1>1. Arrived(d) => Arrived(e)
  BY ArrivedFrame DEF Arrived, TailsBelow, Ending, SamePipe
<1> QED BY <1>1, WaitFrame DEF SamePipe

\* The command on the bulk pipe: a fault reset handed to the channel arrives.
LEMMA OutWaits ==
  ASSUME BoardInv, NEW d, LinkInv(d, bus.out, NoSeq), TailInv(d, bus.out),
         NEW ctl, WaitInv(d, bus.out, ctl)
  PROVE  WaitInv(PollOut(d), NoCommand, NoSeq)
<1> DEFINE e == PollOut(d)
<1>0. NoCommand.apdu.reset = FALSE
  BY DEF NoCommand, NoRequest
<1>1. TailInv(e, NoCommand) /\ (NoMore(d, e) \/ Taken(d, e))
  BY OutTails
<1>2. bus.out = NoCommand => e = d
  BY DEF PollOut
<1>3. bus.out.kind = "xfr" => bus.out # NoCommand /\ bus.out.seq = host.seq
  BY EmptyTypes DEF BoardInv, CommandInv
<1> HIDE DEF e
<1> SUFFICES WaitInv(e, NoCommand, NoSeq)
  BY DEF e
<1>4. CASE bus.out = NoCommand
  BY <1>0, <1>2, <1>4 DEF WaitInv
<1>5. CASE bus.out # NoCommand
  <2>1. ~count.told => Quiet(d)
    BY <1>5 DEF WaitInv, Waits
  <2>2. CASE NoMore(d, e)
    <3>1. NoRequest.reset = FALSE
      BY DEF NoRequest
    <3>2. ~count.told => Quiet(e)
      BY <2>1, <2>2, <3>1 DEF Quiet, NoMore
    <3> QED BY <1>0, <3>2 DEF WaitInv, Waits
  <2>3. CASE Taken(d, e)
    <3>1. ~count.told /\ ~bus.out.apdu.reset => Quiet(e)
      BY <2>1, <2>3 DEF Quiet, Taken
    <3>2. Waits /\ bus.out.apdu.reset => Arrived(e)
      <4> SUFFICES ASSUME Waits, bus.out.apdu.reset PROVE Arrived(e)
        OBVIOUS
      <4>1. host.st = "transfer" /\ bus.out.kind = "xfr"
        BY DEF WaitInv
      <4>2. TailsBelow(d, host.seq)
        BY <4>1 DEF TailInv, Bound, Greeted
      <4>3. TailsBelow(e, host.seq)
        BY <2>3, <4>2 DEF Taken, TailsBelow, Ending
      <4>4. Working(e)
        BY <1>3, <2>1, <2>3 DEF Taken, Working, Quiet, Waits
      <4> QED BY <4>1, <4>3, <4>4 DEF Arrived
    <3> QED BY <1>0, <3>1, <3>2 DEF WaitInv, Waits
  <2> QED BY <1>1, <2>2, <2>3
<1> QED BY <1>4, <1>5

\* One poll keeps the second layer, and drains a fault-reset answer only when
\* the host is done with it.
LEMMA PollAnswer ==
  ASSUME BoardInv, AnswerInv, NEW due \in BOOLEAN,
         NEW d1, d1 = CheckForAppResponse(link),
         NEW d2, d2 = PollControl(FreedIn(d1)),
         NEW d3, d3 = PollOut(d2),
         NEW d4, d4 = IF d1.in.done THEN EndpointInComplete(d3) ELSE d3,
         due => d4.pipe.outbox = NoPacket,
         NEW d5, d5 = IF due THEN SendWaitExtension(d4) ELSE d4,
         NEW d6, d6 = CheckForAppResponse([d5 EXCEPT !.pipe.started = FALSE])
  PROVE  LET f == [d6 EXCEPT !.pipe.drained = FALSE] IN
         /\ TailInv(f, NoCommand) /\ WaitInv(f, NoCommand, NoSeq) /\ ~f.pipe.drained
         /\ flags.faultReset /\ d6.pipe.drained => count.told
<1> DEFINE r == FreedIn(d1)
           g == [d5 EXCEPT !.pipe.started = FALSE]
           f == [d6 EXCEPT !.pipe.drained = FALSE]
<1>0. /\ TypeOK /\ bus.out \in Commands /\ bus.ctl \in Nat /\ NoSeq \in Nat
      /\ NoCommand \in Commands /\ NoCommand.kind = "none" /\ host.seq \in Nat
  BY EmptyTypes DEF BoardInv, TypeOK
<1>1. LinkInv(d1, bus.out, bus.ctl) /\ TailInv(d1, bus.out) /\ NoMore(link, d1)
  BY <1>0, CheckKeeps, CheckTails DEF BoardInv, AnswerInv
<1>2. WaitInv(d1, bus.out, bus.ctl)
  <2>1. Arrived(link) => Arrived(d1)
    BY <1>0, ArrivedCheck DEF AnswerInv
  <2> QED BY <1>1, <2>1, WaitFrame DEF NoMore, AnswerInv
<1>3. LinkInv(r, bus.out, bus.ctl) /\ TailInv(r, bus.out) /\ r.pipe = d1.pipe /\ r.chan = d1.chan
      /\ r.in.pkt = d1.in.pkt /\ (TailsBelow(d1, host.seq) => TailsBelow(r, host.seq))
  BY <1>0, <1>1, CompleteKeeps, FreedTails
<1>4. d2 = PollControl(r)
  OBVIOUS
<1> HIDE DEF r
<1>5. WaitInv(r, bus.out, bus.ctl)
  <2>1. Arrived(d1) => Arrived(r)
    BY <1>3, ArrivedFrame DEF Arrived
  <2> QED BY <1>2, <1>3, <2>1, WaitFrame
<1>6. LinkInv(d2, bus.out, NoSeq) /\ TailInv(d2, bus.out) /\ NoMore(r, d2)
  BY <1>0, <1>3, <1>4, ControlKeeps, ControlTails
<1>7. bus.ctl = NoSeq => d2 = r
  BY <1>4 DEF PollControl
<1>8. WaitInv(d2, bus.out, bus.ctl)
  BY <1>5, <1>6, <1>7, WaitFrame DEF NoMore
<1>9. /\ LinkInv(d3, NoCommand, NoSeq) /\ TailInv(d3, NoCommand) /\ WaitInv(d3, NoCommand, NoSeq)
      /\ bus.out = NoCommand => d3 = d2
  <2>1. bus.out = NoCommand => d3 = d2
    BY DEF PollOut
  <2> QED BY <1>6, <1>8, <2>1, OutKeeps, OutTails, OutWaits
<1>10. LinkInv(d4, NoCommand, NoSeq) /\ TailInv(d4, NoCommand) /\ WaitInv(d4, NoCommand, NoSeq)
  <2> DEFINE c == EndpointInComplete(d3)
  <2>1. LinkInv(c, NoCommand, NoSeq) /\ TailInv(c, NoCommand) /\ c.chan = d3.chan
    BY <1>0, <1>9, CompleteKeeps, CompleteTails
  <2>2. Arrived(d3) => Arrived(c)
    BY <1>0, <1>9, ArrivedComplete
  <2>3. d4 = IF d1.in.done THEN c ELSE d3
    OBVIOUS
  <2> HIDE DEF c
  <2>4. WaitInv(c, NoCommand, NoSeq)
    BY <1>9, <2>1, <2>2, WaitFrame
  <2> QED BY <1>9, <2>1, <2>3, <2>4
<1>11. /\ LinkInv(d5, NoCommand, NoSeq) /\ TailInv(d5, NoCommand) /\ WaitInv(d5, NoCommand, NoSeq)
       /\ NoMore(d4, d5)
  <2> DEFINE c == SendWaitExtension(d4)
  <2>1. d4.pipe.seq \in Nat
    BY <1>10 DEF LinkInv, Links, Pipes
  <2>2. TailInv(c, NoCommand) /\ NoMore(d4, c)
    BY <1>0, <1>10, <2>1, SendTails DEF SendWaitExtension, NoMore
  <2>3. LinkInv(c, NoCommand, NoSeq)
    BY <1>0, <1>10, ExtensionKeeps
  <2>4. due /\ Arrived(d4) => Arrived(c)
    BY <1>0, <1>10, ArrivedExtension
  <2>5. d5 = IF due THEN c ELSE d4
    OBVIOUS
  <2>6. NoMore(d4, d4)
    BY DEF NoMore
  <2> HIDE DEF c
  <2>7. due => WaitInv(c, NoCommand, NoSeq)
    BY <1>10, <2>2, <2>4, WaitFrame DEF NoMore
  <2> QED BY <1>10, <2>2, <2>3, <2>5, <2>6, <2>7
<1>12. LinkInv(g, NoCommand, NoSeq) /\ TailInv(g, NoCommand) /\ WaitInv(g, NoCommand, NoSeq)
       /\ NoMore(d5, g)
  <2>1. LinkInv(g, NoCommand, NoSeq)
    BY <1>0, <1>11, MarkKeeps
  <2>2. g = [d5 EXCEPT !.pipe.started = FALSE]
    OBVIOUS
  <2> HIDE DEF g
  <2>3. TailInv(g, NoCommand) /\ NoMore(d5, g) /\ SamePipe(d5, g)
    BY <1>0, <1>11, <2>2, MarkTails
  <2> QED BY <1>11, <2>1, <2>3, WaitSame
<1>13. d6 = CheckForAppResponse(g)
  OBVIOUS
<1> HIDE DEF g
<1>14. TailInv(d6, NoCommand) /\ NoMore(g, d6)
  BY <1>0, <1>12, <1>13, CheckTails
<1>15. WaitInv(d6, NoCommand, NoSeq)
  <2>1. Arrived(g) => Arrived(d6)
    BY <1>0, <1>12, <1>13, ArrivedCheck
  <2> QED BY <1>12, <1>14, <2>1, WaitFrame DEF NoMore
<1>16. TailInv(f, NoCommand) /\ WaitInv(f, NoCommand, NoSeq) /\ ~f.pipe.drained
  <2>1. ~f.pipe.drained
    BY <1>14 DEF TailInv, PacketInv, Links, Pipes
  <2>2. f = [d6 EXCEPT !.pipe.drained = FALSE]
    OBVIOUS
  <2> HIDE DEF f
  <2>3. TailInv(f, NoCommand) /\ SamePipe(d6, f)
    BY <1>0, <1>14, <2>1, <2>2, MarkTails
  <2>4. WaitInv(f, NoCommand, NoSeq)
    BY <1>15, <2>3, WaitSame
  <2> QED BY <2>1, <2>3, <2>4
<1>17. flags.faultReset /\ d6.pipe.drained => count.told
  <2> SUFFICES ASSUME flags.faultReset, ~count.told PROVE ~d6.pipe.drained
    BY DEF TypeOK
  <2>1. bus.out = NoCommand /\ bus.ctl = NoSeq /\ Arrived(link)
    BY DEF AnswerInv, WaitInv, Waits, Quiet
  <2>2. Settled(d1) /\ ~d1.pipe.drained
    BY <1>0, <1>1, <2>1, ArrivedCheck DEF AnswerInv, NoMore
  <2>3. d3.pipe = d1.pipe
    BY <1>3, <1>7, <1>9, <2>1
  <2>4. d1.in.done => ~d3.pipe.inflight
    <3> SUFFICES ASSUME d1.in.done PROVE ~d3.pipe.inflight
      OBVIOUS
    <3>1. d1.pipe.outbox = NoPacket
      BY <1>0, CheckLeaves DEF BoardInv, AnswerInv
    <3>2. d1.in.pkt = NoPacket
      BY <1>1 DEF TailInv, PacketInv
    <3>3. ~Answer(NoPacket)
      BY EmptyTypes DEF Answer
    <3> QED BY <2>2, <2>3, <3>1, <3>2, <3>3 DEF Settled
  <2>5. ~d4.pipe.drained
    <3>1. d3 \in Links
      BY <1>9 DEF LinkInv
    <3>2. MaybeSendPacket(d3).pipe.drained = d3.pipe.drained
      BY <3>1, MaybeSendFacts
    <3>3. d1.in.done => EndpointInComplete(d3) = MaybeSendPacket(d3)
      BY <1>0, <1>9, <2>4, CompleteTails
    <3> QED BY <2>2, <2>3, <3>2, <3>3
  <2> QED BY <1>11, <1>12, <1>14, <2>5 DEF NoMore
<1> QED BY <1>16, <1>17

-----------------------------------------------------------------------------
(* The second layer under the actions *)

\* Tails do not change while the host does not.
LEMMA TailsStay ==
  ASSUME BoardInv, AnswerInv, host' = host, bus'.out = bus.out,
         link' \in Links, link'.in = link.in, link'.pipe = link.pipe
  PROVE  /\ TailInv(link, bus.out)'
         /\ TailsBelow(link, host.seq) => TailsBelow(link, host.seq)'
<1>0. TypeOK /\ bus.out \in Commands /\ host.seq \in Nat
  BY DEF BoardInv, TypeOK
<1>1. /\ TailInv(link', bus.out)
      /\ TailsBelow(link, host.seq) => TailsBelow(link', host.seq)
  BY <1>0, PlainTails DEF AnswerInv
<1>2. TailsBelow(link, host.seq) => TailsBelow(link, host.seq)'
  BY <1>1 DEF TailsBelow, Ending
<1>3. TailInv(link, bus.out)'
  BY <1>1 DEF TailInv, PacketInv, TailsBelow, Ending, Bound, Greeted
<1> QED BY <1>2, <1>3

\* Steps that leave the link, the bus and the host alone, and neither take a
\* request nor answer one.
LEMMA IdleAnswers ==
  ASSUME BoardInv, AnswerInv, UNCHANGED <<bus, link, host>>, count'.told = count.told,
         flags'.faultReset = flags.faultReset, flags.faulted => flags'.faulted,
         worker'.req = worker.req,
         worker'.pc = "flag" => worker.pc = "flag",
         worker'.pc = "respond" => worker.pc = "respond" /\ worker'.rsp = worker.rsp
  PROVE  AnswerInv'
<1>0. TypeOK
  BY DEF BoardInv
<1>1. TailInv(link, bus.out)' /\ (TailsBelow(link, host.seq) => TailsBelow(link, host.seq)')
  BY <1>0, TailsStay DEF TypeOK
<1>2. Quiet(link) => Quiet(link)'
  BY DEF Quiet
<1>3. (Working(link) => Working(link)') /\ (Settled(link) => Settled(link)')
  BY DEF Working, Settled, Answer, Single
<1>4. Arrived(link) => Arrived(link)'
  BY <1>1, <1>3 DEF Arrived
<1>5. WaitInv(link, bus.out, bus.ctl)'
  BY <1>2, <1>4 DEF AnswerInv, WaitInv, Waits
<1> QED BY <1>1, <1>5 DEF AnswerInv, Greeted

\* A restart begins without a host, a request or a packet.
LEMMA RestartAnswers ==
  ASSUME BoardInv, NEW m, NEW t, Restart(m, t), count'.told = FALSE
  PROVE  AnswerInv'
<1>0. TypeOK
  BY DEF BoardInv
<1>1. host' = NoHost /\ NoHost.st = "gone" /\ NoHost.reset = FALSE
  BY DEF Restart, NoHost
<1>2. /\ link' = FreshLink /\ FreshLink \in Links /\ FreshLink.pipe = FreshPipe
      /\ FreshLink.in = FreshEndpoint /\ FreshLink.chan.req = NoRequest
  BY EmptyTypes DEF Restart, FreshLink, Links, Channels
<1>3. ~FreshPipe.drained /\ NoRequest.reset = FALSE /\ FreshEndpoint.done = FALSE
  BY DEF FreshPipe, NoRequest, FreshEndpoint
<1>4. worker' = FreshWorker /\ FreshWorker.pc = "off" /\ FreshWorker.req = NoRequest
  BY DEF Restart, FreshWorker
<1>5. flags' = FreshFlags /\ FreshFlags.faultReset = FALSE
  BY DEF Restart, FreshFlags
<1>6. bus'.out = NoCommand
  BY <1>0 DEF Restart, TypeOK
<1>7. TailInv(link, bus.out)'
  BY <1>1, <1>2, <1>3, EmptyTypes DEF TailInv, PacketInv, Greeted
<1>8. Quiet(link)'
  BY <1>2, <1>3, <1>4, <1>5 DEF Quiet
<1>9. WaitInv(link, bus.out, bus.ctl)'
  BY <1>1, <1>3, <1>6, <1>8, EmptyTypes DEF WaitInv, Waits
<1> QED BY <1>1, <1>2, <1>3, <1>6, <1>7, <1>9, EmptyTypes DEF AnswerInv, Greeted

\* Start-up and a halt touch neither the link nor the host.
LEMMA BootAnswers ==
  ASSUME BoardInv, AnswerInv,
         BootCheck \/ ProgramOwnershipMarker \/ BootHalts \/ OpenCard \/ UsbHalts
  PROVE  AnswerInv'
<1>1. UNCHANGED <<bus, link, flags, worker, host, card, count>>
  BY DEF BootCheck, ProgramOwnershipMarker, BootHalts, OpenCard, UsbHalts
<1> QED BY <1>1, IdleAnswers

\* A supply cut, and the command to a halted start-up, restart the firmware.
LEMMA CutAnswers == BoardInv /\ (SupplyCut \/ HaltedReset) => AnswerInv'
<1> SUFFICES ASSUME BoardInv, SupplyCut \/ HaltedReset PROVE AnswerInv'
  OBVIOUS
<1>1. PICK m, t : Restart(m, t)
  BY DEF SupplyCut, HaltedReset
<1>2. count'.told = FALSE
  BY DEF SupplyCut, HaltedReset, BoardInv, TypeOK
<1> QED BY <1>1, <1>2, RestartAnswers

\* The timer tick and the worker's loop between its requests.
LEMMA IdleWorkerAnswers ==
  ASSUME BoardInv, AnswerInv,
         Tick \/ WorkerHead \/ WorkerReset \/ WorkerTaken \/ WorkerIdle
           \/ WorkerMaintain \/ WorkerExit
  PROVE  AnswerInv'
<1> USE DEF Tick, WorkerHead, WorkerReset, WorkerTaken, WorkerIdle, WorkerMaintain, WorkerExit
<1>0. TypeOK /\ worker \in Workers /\ count \in Counts
  BY DEF BoardInv, TypeOK
<1>1. UNCHANGED <<bus, link, host>>
  OBVIOUS
<1>2. worker'.req = worker.req /\ worker'.pc \notin {"flag", "respond"}
  <2>1. PICK pc \in {"off", "head", "reset", "take", "execute", "maintain", "exit"} :
          worker' = [worker EXCEPT !.pc = pc]
    BY DEF Spawned
  <2> QED BY <1>0, <2>1
<1>3. count'.told = count.told
  <2>1. UNCHANGED count \/ count' = [count EXCEPT !.faults = @ + 1]
    OBVIOUS
  <2> QED BY <1>0, <2>1
<1>4. flags'.faultReset = flags.faultReset /\ (flags.faulted => flags'.faulted)
  <2>1. \/ UNCHANGED flags \/ flags' = [flags EXCEPT !.faulted = TRUE]
        \/ flags' = [flags EXCEPT !.reset = FALSE] \/ flags' = [flags EXCEPT !.idle = FALSE]
        \/ flags' = [flags EXCEPT !.work = FALSE]
    OBVIOUS
  <2> QED BY <1>0, <2>1 DEF TypeOK
<1> QED BY <1>1, <1>2, <1>3, <1>4, IdleAnswers

\* The worker takes the request: from here on it holds the fault reset.
LEMMA TakeAnswers == BoardInv /\ AnswerInv /\ WorkerTake => AnswerInv'
<1> SUFFICES ASSUME BoardInv, AnswerInv, WorkerTake PROVE AnswerInv'
  OBVIOUS
<1>0. TypeOK /\ worker \in Workers /\ link \in Links
  BY DEF BoardInv, TypeOK
<1> DEFINE requested == link.chan.st = "Requested"
<1>1. UNCHANGED <<bus, flags, host, count>> /\ worker.pc = "take"
  BY DEF WorkerTake
<1>2. /\ worker'.pc \notin {"flag", "respond"}
      /\ worker'.req = IF requested THEN link.chan.req ELSE worker.req
  <2>1. \/ requested /\ worker' = [worker EXCEPT !.pc = "taken", !.req = link.chan.req]
        \/ ~requested /\ worker' = [worker EXCEPT !.pc = "idle"]
    BY DEF WorkerTake
  <2> QED BY <1>0, <2>1
<1>3. /\ link' \in Links /\ link'.pipe = link.pipe /\ link'.in = link.in
      /\ link'.chan.req = link.chan.req /\ link'.chan.rsp = link.chan.rsp
      /\ link'.chan.st = IF requested THEN "BuildingResponse" ELSE link.chan.st
  BY <1>0 DEF WorkerTake, Links, Channels
<1> HIDE DEF requested
<1>4. TailInv(link, bus.out)' /\ (TailsBelow(link, host.seq) => TailsBelow(link, host.seq)')
  BY <1>1, <1>3, TailsStay
<1>5. Quiet(link) => Quiet(link)'
  BY <1>1, <1>2, <1>3 DEF Quiet
<1>6. (Working(link) => Working(link)') /\ (Settled(link) => Settled(link)')
  BY <1>1, <1>2, <1>3 DEF Working, Settled, Answer, Single, requested
<1>7. Arrived(link) => Arrived(link)'
  BY <1>1, <1>4, <1>6 DEF Arrived
<1>8. WaitInv(link, bus.out, bus.ctl)'
  BY <1>1, <1>5, <1>7 DEF AnswerInv, WaitInv, Waits
<1> QED BY <1>1, <1>3, <1>4, <1>8 DEF AnswerInv, Greeted

\* A faulted card answers with one short block; the flag follows the answer.
LEMMA RespondAnswers ==
  BoardInv /\ AnswerInv /\ (WorkerExecute \/ WorkerRespond \/ WorkerFlag) => AnswerInv'
<1> SUFFICES ASSUME BoardInv, AnswerInv, WorkerExecute \/ WorkerRespond \/ WorkerFlag
             PROVE  AnswerInv'
  OBVIOUS
<1>0. TypeOK /\ worker \in Workers /\ link \in Links /\ worker.rsp \in Answers
  BY DEF BoardInv, TypeOK
<1>1. UNCHANGED <<bus, host, count>>
  BY DEF WorkerExecute, WorkerRespond, WorkerFlag
<1>2. flags'.faulted = flags.faulted /\ (flags'.faultReset => flags.faultReset \/ WorkerFlag)
  BY <1>0 DEF WorkerExecute, WorkerRespond, WorkerFlag, TypeOK
<1>3. /\ link' \in Links /\ link'.pipe = link.pipe /\ link'.in = link.in
      /\ link'.chan.req = link.chan.req
      /\ \/ /\ link'.chan = link.chan
            /\ ~(WorkerRespond /\ link.chan.st = "BuildingResponse")
         \/ /\ WorkerRespond /\ link.chan.st = "BuildingResponse"
            /\ link'.chan.st = "Responded" /\ link'.chan.rsp = worker.rsp
  <2>1. CASE WorkerRespond /\ link.chan.st = "BuildingResponse"
    <3>1. link' = [link EXCEPT !.chan.st = "Responded", !.chan.rsp = worker.rsp]
      BY <2>1 DEF WorkerRespond
    <3>2. /\ link' \in Links /\ link'.pipe = link.pipe /\ link'.in = link.in
          /\ link'.chan.req = link.chan.req /\ link'.chan.st = "Responded"
          /\ link'.chan.rsp = worker.rsp
      BY <1>0, <3>1 DEF Links, Channels
    <3> QED BY <2>1, <3>2
  <2>2. CASE ~(WorkerRespond /\ link.chan.st = "BuildingResponse")
    <3>1. link' = link
      BY <2>2 DEF WorkerExecute, WorkerRespond, WorkerFlag
    <3> QED BY <1>0, <2>2, <3>1
  <2> QED BY <2>1, <2>2
<1>4. ASSUME WorkerExecute
      PROVE  /\ worker.pc = "execute" /\ worker'.pc = "respond" /\ worker'.req = worker.req
             /\ flags.faulted => Single(worker'.rsp)
  <2>1. PICK shape \in IF flags.faulted THEN {<<1, FALSE>>} ELSE Replies :
          worker' = [worker EXCEPT !.pc = "respond",
            !.rsp = [id |-> worker.req.id, blocks |-> shape[1], full |-> shape[2]]]
    BY <1>4 DEF WorkerExecute
  <2>2. worker.pc = "execute"
    BY <1>4 DEF WorkerExecute
  <2>3. worker'.pc = "respond" /\ worker'.req = worker.req
        /\ worker'.rsp = [id |-> worker.req.id, blocks |-> shape[1], full |-> shape[2]]
    BY <1>0, <2>1
  <2>4. flags.faulted => Single(worker'.rsp)
    <3>0. <<1, FALSE>>[1] = 1 /\ <<1, FALSE>>[2] = FALSE
      OBVIOUS
    <3>1. flags.faulted => shape[1] = 1 /\ shape[2] = FALSE
      <4>1. flags.faulted => shape = <<1, FALSE>>
        BY <2>1
      <4> QED BY <3>0, <4>1
    <3> QED BY <2>3, <3>1 DEF Single
  <2> QED BY <2>2, <2>3, <2>4
<1>5. ASSUME WorkerRespond
      PROVE  /\ worker.pc = "respond" /\ worker'.req = NoRequest
             /\ worker'.pc = "head"
                \/ (worker'.pc = "flag" /\ link.chan.st = "BuildingResponse" /\ worker.req.reset)
  BY <1>5 DEF WorkerRespond, FreshWorker
<1>6. ASSUME WorkerFlag
      PROVE  worker.pc = "flag" /\ worker'.pc = "head" /\ worker'.req = worker.req
  BY <1>0, <1>6 DEF WorkerFlag
<1>7. TailInv(link, bus.out)' /\ (TailsBelow(link, host.seq) => TailsBelow(link, host.seq)')
  BY <1>1, <1>3, TailsStay
<1>8. NoRequest.reset = FALSE
  BY DEF NoRequest
<1>9. Quiet(link) => Quiet(link)'
  BY <1>2, <1>3, <1>4, <1>5, <1>6, <1>8 DEF Quiet
<1>10. flags.faulted /\ Working(link) => Working(link)'
  <2>1. CASE WorkerExecute
    <3>1. ~WorkerFlag /\ ~WorkerRespond
      BY <2>1 DEF WorkerExecute, WorkerFlag, WorkerRespond
    <3>2. link'.chan = link.chan /\ (flags'.faultReset => flags.faultReset)
      BY <1>2, <1>3, <3>1
    <3>3. flags.faulted => Single(worker.rsp)'
      BY <1>4, <2>1 DEF Single
    <3>4. worker'.pc = "respond"
      BY <1>4, <2>1
    <3>5. Single(link.chan.rsp) <=> Single(link.chan.rsp)'
      BY <3>2 DEF Single
    <3> QED BY <1>1, <1>3, <3>2, <3>3, <3>4, <3>5 DEF Working
  <2>2. CASE WorkerRespond
    BY <1>1, <1>2, <1>3, <1>5, <1>6, <2>2 DEF Working, Single
  <2>3. CASE WorkerFlag
    BY <1>1, <1>2, <1>3, <1>5, <1>6, <2>3 DEF Working, Single
  <2> QED BY <2>1, <2>2, <2>3
<1>11. Settled(link) => Settled(link)'
  BY <1>1, <1>3 DEF Settled, Answer
<1>12. flags.faulted /\ Arrived(link) => Arrived(link)'
  BY <1>1, <1>7, <1>10, <1>11 DEF Arrived
<1>13. WaitInv(link, bus.out, bus.ctl)'
  BY <1>1, <1>2, <1>9, <1>12 DEF AnswerInv, WaitInv, Waits
<1> QED BY <1>1, <1>3, <1>7, <1>13 DEF AnswerInv, Greeted

\* Nobody waits for an answer while VBUS is gone.
LEMMA LossAnswers == BoardInv /\ AnswerInv /\ UsbNoticesLoss => AnswerInv'
<1> SUFFICES ASSUME BoardInv, AnswerInv, UsbNoticesLoss PROVE AnswerInv'
  OBVIOUS
<1>0. TypeOK /\ worker \in Workers /\ link \in Links
  BY DEF BoardInv, TypeOK
<1>1. /\ UNCHANGED <<host, count>> /\ host.st = "gone" /\ ~host.reset
      /\ bus'.out = bus.out /\ bus'.ctl = bus.ctl /\ bus'.power = bus.power
  BY <1>0 DEF UsbNoticesLoss, TypeOK, AnswerInv
<1>2. flags'.faultReset = flags.faultReset /\ flags'.faulted = flags.faulted
  BY <1>0 DEF UsbNoticesLoss, TypeOK
<1>3. worker'.req = worker.req /\ (worker'.pc = worker.pc \/ worker'.pc = "head")
  BY <1>0 DEF UsbNoticesLoss, Spawned
<1>4. link' = link
  BY DEF UsbNoticesLoss
<1>5. TailInv(link, bus.out)'
  BY <1>0, <1>1, <1>4, TailsStay
<1>6. Quiet(link) => Quiet(link)'
  BY <1>2, <1>3, <1>4 DEF Quiet
<1>7. WaitInv(link, bus.out, bus.ctl)'
  BY <1>1, <1>6 DEF AnswerInv, WaitInv, Waits
<1> QED BY <1>1, <1>4, <1>5, <1>7 DEF AnswerInv, Greeted

\* A poll of the device: it restarts the firmware only when the host has read
\* the answer or given it up.
LEMMA PollBoardAnswers ==
  BoardInv /\ AnswerInv /\ UsbPoll =>
    AnswerInv' /\ (boot'.phase = "check" => count.told)
<1> SUFFICES ASSUME BoardInv, AnswerInv, UsbPoll
             PROVE  AnswerInv' /\ (boot'.phase = "check" => count.told)
  OBVIOUS
<1>0. TypeOK
  BY DEF BoardInv
<1> DEFINE d1 == CheckForAppResponse(link)
           d2 == PollControl(FreedIn(d1))
           d3 == PollOut(d2)
           d4 == IF d1.in.done THEN EndpointInComplete(d3) ELSE d3
           d5(due) == IF due THEN SendWaitExtension(d4) ELSE d4
           d6(due) == CheckForAppResponse([d5(due) EXCEPT !.pipe.started = FALSE])
           f(due) == [d6(due) EXCEPT !.pipe.drained = FALSE]
<1> HIDE DEF d1, d2, d3, d4, d5, d6, f
<1>1. PICK due \in BOOLEAN :
        PollEnd(due, d4, d6(due)) /\ (due => d4.pipe.outbox = NoPacket)
  BY DEF UsbPoll, d1, d2, d3, d4, d5, d6
<1>2. /\ TailInv(f(due), NoCommand) /\ WaitInv(f(due), NoCommand, NoSeq)
      /\ ~f(due).pipe.drained
      /\ flags.faultReset /\ d6(due).pipe.drained => count.told
  BY <1>1, PollAnswer DEF d1, d2, d3, d4, d5, d6, f
<1>3. CASE d6(due).pipe.drained /\ flags.faultReset
  <2>1. /\ Restart(boot.marker, boot.storage)
        /\ count' = [count EXCEPT !.session = @ + 1, !.told = FALSE]
    BY <1>1, <1>3 DEF PollEnd
  <2>2. count'.told = FALSE
    BY <1>0, <2>1 DEF TypeOK
  <2> QED BY <1>2, <1>3, <2>1, <2>2, RestartAnswers
<1>4. CASE ~(d6(due).pipe.drained /\ flags.faultReset)
  <2>1. /\ link' = f(due)
        /\ bus' = [bus EXCEPT !.started = TRUE, !.out = NoCommand, !.ctl = NoSeq,
                  !.ext = d4.pipe.started \/ (@ /\ (due => d4.pipe.state = "Processing"))]
        /\ flags' = [flags EXCEPT !.work = @ \/ d4.pipe.started,
                                       !.idle = @ \/ d6(due).pipe.drained]
        /\ worker' = IF d4.pipe.started \/ d6(due).pipe.drained
                          THEN Spawned(worker) ELSE worker
        /\ UNCHANGED <<boot, host, card, count>>
    BY <1>1, <1>4 DEF PollEnd, f
  <2>2. boot'.phase = "run" /\ bus.power
    BY <2>1 DEF UsbPoll, Running
  <2>3. bus'.out = NoCommand /\ bus'.ctl = NoSeq /\ bus'.power
    BY <1>0, <2>1, <2>2 DEF TypeOK
  <2>4. flags'.faultReset = flags.faultReset /\ flags'.faulted = flags.faulted
    BY <1>0, <2>1 DEF TypeOK
  <2>5. /\ worker'.req = worker.req /\ worker'.rsp = worker.rsp
        /\ worker'.pc = worker.pc \/ worker'.pc = "head"
    BY <1>0, <2>1 DEF Spawned, TypeOK
  <2>6. link' = f(due) /\ UNCHANGED <<host, count>>
    BY <2>1
  <2>7. TailInv(link, bus.out)'
    BY <1>2, <2>3, <2>6 DEF TailInv, PacketInv, TailsBelow, Ending, Bound, Greeted
  <2>8. Quiet(f(due)) => Quiet(link)'
    BY <2>4, <2>5, <2>6 DEF Quiet
  <2>9. Arrived(f(due)) => Arrived(link)'
    BY <2>4, <2>5, <2>6 DEF Arrived, TailsBelow, Ending, Working, Settled, Answer, Single
  <2>10. WaitInv(link, bus.out, bus.ctl)'
    BY <1>2, <2>3, <2>4, <2>6, <2>8, <2>9 DEF WaitInv, Waits
  <2> QED BY <1>2, <2>2, <2>3, <2>6, <2>7, <2>10, EmptyTypes DEF AnswerInv
<1> QED BY <1>3, <1>4

\* A lost connection or a bus reset: the host gives its request up.
LEMMA BusAnswers ==
  BoardInv /\ AnswerInv /\ (VbusLost \/ VbusBack \/ BusReset) => AnswerInv'
<1> SUFFICES ASSUME BoardInv, AnswerInv, VbusLost \/ VbusBack \/ BusReset PROVE AnswerInv'
  OBVIOUS
<1>0. TypeOK /\ link \in Links /\ count \in Counts /\ host.reset \in BOOLEAN
  BY DEF BoardInv, TypeOK
<1>1. CASE VbusBack
  <2>1. /\ UNCHANGED <<link, flags, worker, host, count>>
        /\ bus'.out = bus.out /\ bus'.ctl = bus.ctl /\ bus'.power
    BY <1>0, <1>1 DEF VbusBack, TypeOK
  <2>2. TailInv(link, bus.out)'
    BY <1>0, <2>1, TailsStay
  <2>3. WaitInv(link, bus.out, bus.ctl)'
    BY <2>1 DEF AnswerInv, WaitInv, Waits, Quiet, Arrived, TailsBelow, Ending, Working,
       Settled, Answer, Single
  <2> QED BY <2>1, <2>2, <2>3 DEF AnswerInv, Greeted
<1>2. CASE VbusLost \/ BusReset
  <2>1. /\ UNCHANGED <<flags, worker>>
        /\ link' \in Links /\ link'.pipe = link.pipe /\ link'.chan = link.chan
        /\ link'.in = link.in \/ link'.in = FreshEndpoint
    BY <1>0, <1>2, EmptyTypes DEF VbusLost, BusReset, Links
  <2>2. bus'.out = NoCommand /\ bus'.ctl = NoSeq
    BY <1>0, <1>2 DEF VbusLost, BusReset, TypeOK
  <2>3. host'.st \in {"gone", "off"} /\ host'.reset = FALSE
    BY <1>2 DEF VbusLost, BusReset, NoHost
  <2>4. ~bus'.power => host'.st = "gone"
    <3>1. CASE VbusLost
      BY <3>1 DEF VbusLost, NoHost
    <3>2. CASE BusReset
      BY <1>0, <3>2 DEF BusReset, TypeOK
    <3> QED BY <1>2, <3>1, <3>2
  <2>5. ~count'.told => ~count.told /\ ~host.reset
    <3>1. CASE VbusLost
      <4>1. count' = [count EXCEPT !.losses = @ + 1, !.era = @ + 1, !.told = @ \/ host.reset]
        BY <3>1 DEF VbusLost
      <4> QED BY <1>0, <4>1
    <3>2. CASE BusReset
      <4>1. PICK n \in {count.losses, count.losses + 1} :
              count' = [count EXCEPT !.session = @ + 1, !.losses = n, !.told = @ \/ host.reset]
        BY <3>2 DEF BusReset
      <4> QED BY <1>0, <4>1
    <3> QED BY <1>2, <3>1, <3>2
  <2>6. TailInv(link, bus.out)'
    <3>1. FreshEndpoint.done = FALSE
      BY DEF FreshEndpoint
    <3> QED BY <2>1, <2>3, <3>1, EmptyTypes DEF AnswerInv, TailInv, PacketInv, Greeted
  <2>7. NoCommand.apdu.reset = FALSE
    BY DEF NoCommand, NoRequest
  <2>8. Quiet(link) => Quiet(link)'
    BY <2>1 DEF Quiet
  <2>9. WaitInv(link, bus.out, bus.ctl)'
    BY <2>2, <2>3, <2>5, <2>7, <2>8 DEF AnswerInv, WaitInv, Waits
  <2> QED BY <2>1, <2>2, <2>3, <2>4, <2>6, <2>9, EmptyTypes DEF AnswerInv
<1> QED BY <1>1, <1>2

\* IccPowerOn and a transfer.  A host sends a new command only when it waits
\* for nothing, and the new number is ahead of every tail.
LEMMA SendAnswers ==
  BoardInv /\ AnswerInv /\ (HostPowerOn \/ \E reset \in BOOLEAN : HostTransfer(reset)) => AnswerInv'
<1> SUFFICES ASSUME BoardInv, AnswerInv,
                    HostPowerOn \/ \E reset \in BOOLEAN : HostTransfer(reset)
             PROVE  AnswerInv'
  OBVIOUS
<1>0. /\ TypeOK /\ link \in Links /\ host \in Hosts /\ host.seq \in Nat /\ host.part \in Packets
      /\ NoRequest.reset = FALSE
  BY DEF BoardInv, TypeOK, NoRequest
<1>1. /\ UNCHANGED <<link, flags, worker, count>> /\ bus.out = NoCommand /\ bus'.power
      /\ host.st \in {"off", "idle"}
  BY <1>0 DEF HostPowerOn, HostTransfer, CanSend, TypeOK
<1>2. ~count.told => Quiet(link)
  BY <1>1 DEF AnswerInv, WaitInv, Waits
<1>3. Quiet(link) => Quiet(link)'
  BY <1>1 DEF Quiet
<1>4. CASE HostPowerOn
  <2>1. host'.st = "power" /\ host'.reset = host.reset
    BY <1>0, <1>4 DEF HostPowerOn
  <2>2. bus'.out.kind = "on" /\ bus'.out.apdu = NoRequest
    <3>1. bus'.out = [NoCommand EXCEPT !.kind = "on"]
      BY <1>0, <1>4 DEF HostPowerOn, TypeOK
    <3> QED BY <3>1, EmptyTypes DEF Commands
  <2>3. TailInv(link, bus.out)'
    BY <1>1, <2>1, <2>2 DEF AnswerInv, TailInv, PacketInv, Greeted
  <2>4. ~Waits'
    BY <1>1, <1>4, <2>1 DEF AnswerInv, WaitInv, Waits, HostPowerOn
  <2>5. WaitInv(link, bus.out, bus.ctl)'
    BY <1>0, <1>1, <1>2, <1>3, <2>2, <2>4 DEF WaitInv
  <2> QED BY <1>1, <2>1, <2>3, <2>5 DEF AnswerInv, Greeted
<1>5. ASSUME NEW reset \in BOOLEAN, HostTransfer(reset) PROVE AnswerInv'
  <2>1. /\ host'.st = "transfer" /\ host'.reset = reset /\ host'.seq = host.seq + 1
        /\ host'.part = host.part /\ host.st = "idle" /\ (reset => flags.faulted)
    <3> DEFINE seq == host.seq + 1
               id == <<count.session, seq>>
    <3>1. /\ host' = [host EXCEPT !.st = "transfer", !.seq = seq, !.of = id, !.got = NoId,
                                !.reset = reset]
          /\ host.st = "idle" /\ (reset => flags.faulted)
      BY <1>5 DEF HostTransfer
    <3> HIDE DEF id, seq
    <3>2. /\ host'.st = "transfer" /\ host'.reset = reset /\ host'.seq = seq
          /\ host'.part = host.part
      BY <1>0, <3>1
    <3> QED BY <3>1, <3>2 DEF seq
  <2>2. bus'.out.kind = "xfr" /\ bus'.out.apdu.reset = reset
    BY <1>0, <1>5 DEF HostTransfer, TypeOK
  <2>3. TailInv(link, bus.out)'
    <3>1. TailsBelow(link, host.seq + 1) /\ PacketInv(link)
      BY <1>1, <2>1, EmptyTypes DEF AnswerInv, TailInv, Greeted, Bound
    <3>2. TailsBelow(link, Bound(bus.out))'
      BY <1>1, <2>1, <2>2, <3>1 DEF TailsBelow, Ending, Bound
    <3> QED BY <1>1, <2>1, <2>2, <3>1, <3>2 DEF TailInv, PacketInv
  <2>4. WaitInv(link, bus.out, bus.ctl)'
    BY <1>1, <1>2, <1>3, <2>1, <2>2 DEF WaitInv, Waits
  <2> QED BY <1>1, <2>2, <2>3, <2>4 DEF AnswerInv
<1> QED BY <1>4, <1>5

\* The next block, and an abort: a host that asks for either no longer waits
\* for a fault reset, or was never given one.
LEMMA ContinueAnswers ==
  BoardInv /\ AnswerInv
    /\ (HostMore \/ HostAbort \/ \E half \in {"control", "bulk"} : HostAbortHalf(half)) => AnswerInv'
<1> SUFFICES ASSUME BoardInv, AnswerInv,
                    HostMore \/ HostAbort \/ \E half \in {"control", "bulk"} : HostAbortHalf(half)
             PROVE  AnswerInv'
  OBVIOUS
<1>0. /\ TypeOK /\ link \in Links /\ host \in Hosts /\ host.seq \in Nat /\ host.part \in Packets
      /\ count \in Counts /\ NoRequest.reset = FALSE /\ NoCommand.apdu = NoRequest
      /\ NoCommand.kind = "none" /\ NoPacket.seq = 0
  BY DEF BoardInv, TypeOK, NoRequest, NoCommand, NoPacket
<1>1. /\ UNCHANGED <<link, flags, worker>> /\ bus.out = NoCommand /\ bus'.power
  BY <1>0 DEF HostMore, HostAbort, HostAbortHalf, CanSend, TypeOK
<1>2. /\ host.st \in {"transfer", "more", "abort"} /\ host'.st \in {"transfer", "abort"}
      /\ host'.reset = host.reset
      /\ host'.seq \in {host.seq, host.seq + 1}
      /\ host'.part \in {host.part, NoPacket}
      /\ host'.st = "transfer" <=> host.st = "more"
      /\ host.st = "transfer" => HostAbort
  <2>1. CASE HostMore
    BY <1>0, <2>1 DEF HostMore
  <2>2. CASE HostAbort
    BY <1>0, <2>2 DEF HostAbort
  <2>3. CASE \E half \in {"control", "bulk"} : HostAbortHalf(half)
    BY <1>0, <2>3 DEF HostAbortHalf
  <2> QED BY <2>1, <2>2, <2>3
<1>3. bus'.out.kind \in {"none", "more", "abort"} /\ bus'.out.apdu = NoRequest
  <2>0. \A k \in {"more", "abort"}, n \in Nat :
          LET c == [NoCommand EXCEPT !.kind = k, !.seq = n] IN
          c.kind = k /\ c.apdu = NoRequest
    BY EmptyTypes DEF Commands
  <2>1. CASE HostMore
    <3>1. bus'.out = [NoCommand EXCEPT !.kind = "more", !.seq = host.seq + 1]
      BY <1>0, <2>1 DEF HostMore, TypeOK
    <3> QED BY <1>0, <2>0, <3>1
  <2>2. CASE HostAbort
    BY <1>0, <1>1, <2>2 DEF HostAbort
  <2>3. CASE HostAbortHalf("control")
    BY <1>0, <1>1, <2>3 DEF HostAbortHalf, TypeOK
  <2>4. CASE HostAbortHalf("bulk")
    <3>1. bus'.out = [NoCommand EXCEPT !.kind = "abort", !.seq = host.seq]
      BY <1>0, <2>4 DEF HostAbortHalf, TypeOK
    <3> QED BY <1>0, <2>0, <3>1
  <2> QED BY <2>1, <2>2, <2>3, <2>4
<1>4. ~count'.told => ~count.told /\ (HostAbort => ~host.reset)
  <2>1. CASE HostAbort
    <3>1. count' = [count EXCEPT !.told = @ \/ host.reset]
      BY <2>1 DEF HostAbort
    <3> QED BY <1>0, <3>1
  <2>2. CASE ~HostAbort
    BY <2>2 DEF HostMore, HostAbortHalf
  <2> QED BY <2>1, <2>2
<1>5. TailInv(link, bus.out)'
  <2>1. TailsBelow(link, host.seq + 1) /\ PacketInv(link)
    BY <1>0, <1>1, <1>2 DEF AnswerInv, TailInv, Greeted, Bound
  <2>2. link.pipe.outbox.seq \in Nat /\ link.in.pkt.seq \in Nat /\ host.part.seq \in Nat
    BY <1>0 DEF Links, Pipes, Packets
  <2>3. TailsBelow(link, Bound(bus.out))'
    BY <1>0, <1>1, <1>2, <1>3, <2>1, <2>2 DEF TailsBelow, Ending, Bound
  <2> QED BY <1>1, <1>2, <1>3, <2>1, <2>3 DEF TailInv, PacketInv
<1>6. ~count'.told => Quiet(link)
  BY <1>2, <1>4 DEF AnswerInv, WaitInv, Waits, Arrived
<1>7. Quiet(link) => Quiet(link)'
  BY <1>1 DEF Quiet
<1>8. Waits' => flags'.faulted /\ host'.st = "transfer"
  BY <1>1, <1>2, <1>4 DEF AnswerInv, WaitInv, Waits
<1>9. WaitInv(link, bus.out, bus.ctl)'
  BY <1>0, <1>3, <1>6, <1>7, <1>8 DEF WaitInv, Waits
<1> QED BY <1>1, <1>3, <1>5, <1>9 DEF AnswerInv

\* The host reads a packet: the answer to its fault reset ends its wait, and
\* no tail is taken for a part of it.
LEMMA ReadAnswers == BoardInv /\ AnswerInv /\ HostRead => AnswerInv'
<1> SUFFICES ASSUME BoardInv, AnswerInv, HostRead PROVE AnswerInv'
  OBVIOUS
<1>0. /\ TypeOK /\ link \in Links /\ host \in Hosts /\ count \in Counts
      /\ LinkInv(link, bus.out, bus.ctl) /\ CommandInv /\ HostInv
      /\ TailInv(link, bus.out) /\ PacketInv(link)
      /\ NoPacket.seq = 0 /\ NoPacket.kind = "none"
  BY DEF BoardInv, TypeOK, AnswerInv, TailInv, NoPacket
<1> DEFINE raw == link.in.pkt
           p == IF raw.kind = "zlp" THEN host.part ELSE raw
           mine == p.seq = host.seq
           answered == host.reset /\ host.st = "transfer" /\ p.kind = "data" /\ p.last /\ mine
           h == [host EXCEPT !.part = NoPacket]
           w == [host EXCEPT !.part = raw]
           a == [h EXCEPT !.st = "idle"]
           b(t) == [h EXCEPT !.st = t, !.got = p.id]
<1>1. UNCHANGED <<bus, flags, worker>> /\ raw # NoPacket /\ bus.power
  BY DEF HostRead
<1>2. ~count'.told => ~count.told /\ ~answered
  <2>1. count' = [count EXCEPT !.told = @ \/ answered]
    BY DEF HostRead
  <2>2. answered \in BOOLEAN
    BY <1>0
  <2> HIDE DEF answered
  <2> QED BY <1>0, <2>1, <2>2
<1>3. /\ link' \in Links /\ link'.pipe = link.pipe /\ link'.chan = link.chan
      /\ link'.in.pkt = NoPacket
  BY <1>0, EmptyTypes DEF HostRead, Links
<1>4. \/ host' = w /\ raw.full
      \/ ~raw.full /\ host' = h
      \/ ~raw.full /\ host' = a /\ host.st = "power" /\ p.kind = "atr"
      \/ ~raw.full /\ host' = a /\ host.st = "abort"
      \/ /\ ~raw.full /\ host.st = "transfer" /\ p.kind = "data" /\ mine
         /\ (p.last /\ host' = b("idle")) \/ (~p.last /\ host' = b("more"))
  BY DEF HostRead
<1>5. /\ raw \in Packets /\ host.part \in Packets /\ p \in Packets
  BY <1>0 DEF Links
<1>6. w.st = host.st /\ w.seq = host.seq /\ w.part = raw /\ w.reset = host.reset
  BY <1>0, <1>5
<1>7. h \in Hosts /\ h.st = host.st /\ h.seq = host.seq /\ h.part = NoPacket /\ h.reset = host.reset
  BY <1>0, EmptyTypes
<1>8. a.st = "idle" /\ a.seq = host.seq /\ a.part = NoPacket /\ a.reset = host.reset
  <2> HIDE DEF h
  <2> QED BY <1>7
<1>9. \A t \in {"idle", "more"} :
        b(t).st = t /\ b(t).seq = host.seq /\ b(t).part = NoPacket /\ b(t).reset = host.reset
  <2> HIDE DEF h, p
  <2> QED BY <1>7
<1>10. /\ host'.seq = host.seq /\ host'.reset = host.reset
       /\ host'.part = IF raw.full THEN raw ELSE NoPacket
       /\ \/ host'.st = host.st
          \/ ~raw.full /\ host'.st = "idle" /\ host.st = "power" /\ p.kind = "atr"
          \/ ~raw.full /\ host'.st = "idle" /\ host.st = "abort"
          \/ /\ ~raw.full /\ host.st = "transfer" /\ p.kind = "data" /\ mine
             /\ (p.last /\ host'.st = "idle") \/ (~p.last /\ host'.st = "more")
  <2> HIDE DEF w, h, a, b, p, mine
  <2> QED BY <1>4, <1>6, <1>7, <1>8, <1>9
<1> HIDE DEF w, h, a, b
<1>11. link.pipe.outbox.kind = "zlp" => raw.full /\ raw.kind = "data"
  BY <1>0, <1>1 DEF PacketInv
<1>12. \A n \in Nat : TailsBelow(link, n) => TailsBelow(link, n)'
  <2>1. link.pipe.outbox.kind = "zlp" => Ending(link) = raw /\ host'.part = raw
    BY <1>1, <1>10, <1>11 DEF Ending
  <2> QED BY <1>0, <1>3, <2>1 DEF TailsBelow, Ending
<1>13. PacketInv(link)'
  BY <1>0, <1>3, EmptyTypes DEF PacketInv
<1>14. host.st = "power" /\ p.kind = "atr" => raw.kind = "atr" /\ link.pipe.outbox.kind # "zlp"
  BY <1>0, <1>11 DEF HostInv
<1>15. TailInv(link, bus.out)'
  <2>1. host'.st = "power" => host.st = "power"
    BY <1>10
  <2>2. Greeted' => Greeted \/ (host.st = "power" /\ link.pipe.outbox.kind # "zlp")
    BY <1>10, <1>14 DEF Greeted
  <2>3. Greeted => bus.out.kind # "on"
    BY <1>1 DEF AnswerInv
  <2>4. Greeted' /\ bus'.out.kind # "on" => TailsBelow(link, Bound(bus.out))'
    <3> SUFFICES ASSUME Greeted', bus'.out.kind # "on" PROVE TailsBelow(link, Bound(bus.out))'
      OBVIOUS
    <3>1. CASE Greeted
      <4>1. TailsBelow(link, Bound(bus.out)) /\ Bound(bus.out) \in Nat
        BY <1>0, <1>1, <3>1 DEF TailInv, Bound
      <4>2. Bound(bus.out)' = Bound(bus.out)
        BY <1>1, <1>10 DEF Bound
      <4> QED BY <1>3, <1>12, <4>1, <4>2 DEF TailsBelow, Ending
    <3>2. CASE host.st = "power" /\ link.pipe.outbox.kind # "zlp"
      <4>1. bus.out.kind # "xfr"
        BY <1>0, <3>2 DEF CommandInv
      <4>2. link.pipe.outbox.full => link.pipe.outbox.seq < host.seq + 1
        BY <1>0, <1>1, <3>2 DEF TailInv
      <4> QED BY <1>0, <1>1, <1>3, <1>10, <3>2, <4>1, <4>2 DEF TailsBelow, Bound
    <3> QED BY <2>2, <3>1, <3>2
  <2> QED BY <1>0, <1>1, <1>3, <1>10, <1>13, <2>1, <2>2, <2>3, <2>4, EmptyTypes DEF TailInv
<1>16. TailsBelow(link, host.seq) /\ Waits' => host'.st = host.st
  <2> SUFFICES ASSUME TailsBelow(link, host.seq), Waits', host'.st # host.st PROVE FALSE
    OBVIOUS
  <2>1. Waits /\ ~answered
    BY <1>2, <1>10 DEF Waits
  <2>2. host.st \in {"transfer", "more"}
    BY <2>1 DEF AnswerInv, WaitInv
  <2>3. ~raw.full /\ host.st = "transfer" /\ p.kind = "data" /\ mine /\ ~p.last
    BY <1>10, <2>1, <2>2 DEF Waits
  <2>4. raw.kind = "zlp"
    BY <1>0, <2>3 DEF PacketInv
  <2>5. Ending(link) = p
    BY <2>4 DEF Ending
  <2>6. p.seq < host.seq
    BY <2>4, <2>5 DEF TailsBelow
  <2> QED BY <1>0, <1>5, <2>3, <2>6 DEF Packets
<1>17. Arrived(link) /\ Waits' => Arrived(link)'
  <2> SUFFICES ASSUME Arrived(link), Waits' PROVE Arrived(link)'
    OBVIOUS
  <2>1. host'.st = "transfer" /\ host.st = "transfer"
    BY <1>16 DEF Arrived
  <2>2. TailsBelow(link, host.seq)'
    BY <1>0, <1>3, <1>10, <1>12 DEF Arrived, TailsBelow, Ending
  <2>3. Working(link) => Working(link)'
    BY <1>1, <1>3, <1>10 DEF Working, Single
  <2>4. ~Answer(raw)
    BY <1>2, <1>10, <2>1, EmptyTypes DEF Answer, Waits
  <2>5. Settled(link) => Settled(link)'
    BY <1>3, <1>10, <2>4 DEF Settled, Answer
  <2> QED BY <2>1, <2>2, <2>3, <2>5 DEF Arrived
<1>18. Quiet(link) => Quiet(link)'
  BY <1>1, <1>3 DEF Quiet
<1>19. ~count'.told /\ ~host'.reset => ~count.told /\ ~host.reset
  BY <1>2, <1>10
<1>20. Waits' => Waits /\ host'.st \in {"transfer", "more"}
  BY <1>2, <1>10 DEF Waits, AnswerInv, WaitInv
<1>21. Waits' /\ bus.out.apdu.reset => host'.st = "transfer"
  <2> SUFFICES ASSUME Waits', bus.out.apdu.reset PROVE host'.st = "transfer"
    OBVIOUS
  <2>1. bus.out.kind = "xfr" /\ host.st = "transfer"
    BY <1>20 DEF AnswerInv, WaitInv
  <2>2. TailsBelow(link, host.seq)
    BY <1>0, <2>1 DEF TailInv, Bound, Greeted
  <2> QED BY <1>16, <2>1, <2>2
<1>22. WaitInv(link, bus.out, bus.ctl)'
  BY <1>1, <1>17, <1>18, <1>19, <1>20, <1>21 DEF AnswerInv, WaitInv
<1>23. bus'.out.kind = "on" /\ Greeted' => link'.pipe.outbox.kind # "zlp"
  BY <1>1, <1>3, <1>10, <1>14 DEF AnswerInv, Greeted
<1> QED BY <1>1, <1>3, <1>15, <1>22, <1>23 DEF AnswerInv

\* The second layer holds at start-up, and every step keeps it.
LEMMA AnswerInit == Init => AnswerInv
<1> SUFFICES ASSUME Init PROVE AnswerInv
  OBVIOUS
<1>1. host = NoHost /\ NoHost.st = "gone" /\ NoHost.reset = FALSE
  BY DEF Init, NoHost
<1>2. /\ link = FreshLink /\ FreshLink \in Links /\ FreshLink.pipe = FreshPipe
      /\ FreshLink.in = FreshEndpoint /\ FreshLink.chan.req = NoRequest
  BY EmptyTypes DEF Init, FreshLink, Links, Channels
<1>3. ~FreshPipe.drained /\ NoRequest.reset = FALSE /\ FreshEndpoint.done = FALSE
  BY DEF FreshPipe, NoRequest, FreshEndpoint
<1>4. Quiet(link)
  BY <1>2, <1>3 DEF Quiet, Init, FreshWorker, FreshFlags
<1>5. TailInv(link, bus.out)
  BY <1>1, <1>2, <1>3, EmptyTypes DEF TailInv, PacketInv, Greeted
<1>6. bus.out = NoCommand /\ bus.power
  BY DEF Init
<1>7. WaitInv(link, bus.out, bus.ctl)
  BY <1>1, <1>3, <1>4, <1>6, EmptyTypes DEF WaitInv, Waits
<1> QED BY <1>1, <1>2, <1>3, <1>5, <1>6, <1>7, EmptyTypes DEF AnswerInv

\* Every step of the firmware, the bus and the host keeps the second layer.
LEMMA AnswerInductive == BoardInv /\ AnswerInv /\ [Next]_vars => AnswerInv'
<1> SUFFICES ASSUME BoardInv, AnswerInv, [Next]_vars PROVE AnswerInv'
  OBVIOUS
<1>1. CASE BootCheck \/ ProgramOwnershipMarker \/ BootHalts \/ OpenCard \/ UsbHalts
  BY <1>1, BootAnswers
<1>2. CASE SupplyCut \/ HaltedReset
  BY <1>2, CutAnswers
<1>3. CASE Usb
  BY <1>3, LossAnswers, PollBoardAnswers DEF Usb
<1>4. CASE Tick \/ WorkerHead \/ WorkerReset \/ WorkerTaken \/ WorkerIdle
             \/ WorkerMaintain \/ WorkerExit
  BY <1>4, IdleWorkerAnswers
<1>5. CASE WorkerTake \/ WorkerExecute \/ WorkerRespond \/ WorkerFlag
  BY <1>5, TakeAnswers, RespondAnswers
<1>6. CASE VbusLost \/ VbusBack \/ BusReset
  BY <1>6, BusAnswers
<1>7. CASE Host
  BY <1>7, SendAnswers, ContinueAnswers, ReadAnswers DEF Host
<1>8. CASE UNCHANGED vars
  BY <1>8, IdleAnswers DEF vars
<1> QED BY <1>1, <1>2, <1>3, <1>4, <1>5, <1>6, <1>7, <1>8 DEF Next, Worker

\* The only restart that is not a supply cut comes from a poll.
LEMMA RestartsByPoll ==
  BoardInv /\ [Next]_vars /\ boot.phase = "run" /\ boot'.phase = "check"
    /\ count'.losses = count.losses => UsbPoll
<1> SUFFICES ASSUME BoardInv, [Next]_vars, boot.phase = "run", boot'.phase = "check",
                    count'.losses = count.losses
             PROVE  UsbPoll
  OBVIOUS
<1>1. ~SupplyCut /\ ~HaltedReset
  <2>1. SupplyCut \/ HaltedReset => count'.losses = count.losses + 1
    BY DEF SupplyCut, HaltedReset, BoardInv, TypeOK
  <2>2. count.losses \in Nat
    BY DEF BoardInv, TypeOK
  <2> QED BY <2>1, <2>2
<1>2. ~(BootCheck \/ ProgramOwnershipMarker \/ BootHalts \/ OpenCard)
  BY DEF BootCheck, ProgramOwnershipMarker, BootHalts, OpenCard
<1>3. ~(UsbNoticesLoss \/ UsbHalts \/ Tick \/ Worker)
  BY DEF UsbNoticesLoss, UsbHalts, Tick, Worker, WorkerHead, WorkerReset, WorkerTake,
     WorkerTaken, WorkerIdle, WorkerExecute, WorkerRespond, WorkerFlag, WorkerMaintain,
     WorkerExit, BoardInv, TypeOK
<1>4. ~(VbusLost \/ VbusBack \/ BusReset)
  BY DEF VbusLost, VbusBack, BusReset
<1>5. ~Host
  BY DEF Host, HostPowerOn, HostTransfer, HostMore, HostAbort, HostAbortHalf, HostRead
<1>6. ~UNCHANGED vars
  BY DEF vars
<1> QED BY <1>1, <1>2, <1>3, <1>4, <1>5, <1>6 DEF Next, Usb

\* The firmware restarts for a fault-reset command only when the host has read
\* that command's whole answer or given it up, whatever packets earlier
\* sessions left in the pipe and however often the connection is lost.
THEOREM BoardResetAfterAnswer == Spec => ResetAfterAnswer
<1>1. Init => BoardInv /\ AnswerInv
  BY BoardInit, AnswerInit
<1>2. BoardInv /\ AnswerInv /\ [Next]_vars => BoardInv' /\ AnswerInv'
  BY BoardInductive, AnswerInductive
<1>3. BoardInv /\ AnswerInv /\ [Next]_vars =>
        [boot.phase = "run" /\ boot'.phase = "check" /\ count'.losses = count.losses
           => count.told]_vars
  BY RestartsByPoll, PollBoardAnswers
<1> QED BY <1>1, <1>2, <1>3, PTL DEF Spec, ResetAfterAnswer
=============================================================================
