------------------------------ MODULE Endpoint ------------------------------
(***************************************************************************)
(* The shared APDU dispatcher (transport.rs, Endpoint) with its SCP03      *)
(* session (scp03.rs) and the reservation of challenge counters            *)
(* (jcvm_card.rs, jcvm_registry.rs), for the JCVM build: plain APDUs are   *)
(* allowed and challenges are derived from a durable sequence counter.     *)
(*                                                                         *)
(* The link may lose, delay, duplicate and reorder what the host sent:     *)
(* every message ever sent may be delivered at any later time.  AES-CMAC   *)
(* and the key derivation are ideal: a MAC verifies only under the session *)
(* key it was made with and after exactly the messages it was chained to.  *)
(***************************************************************************)
EXTENDS Integers, Sequences, FiniteSets

CONSTANTS
  MaxSessions,  \* bound: challenges the host draws
  MaxCommands,  \* bound: commands the host wraps, over all its sessions
  MaxFaults,    \* bound: registry commits that fail
  Window,       \* challenge counters made durable at a time: 32
  SeqCeiling,   \* largest challenge counter: 16#ffffff#
  CounterMax,   \* u32::MAX, the width of the command counter
  Supported,    \* flags of SUPPORTED_SECURITY_LEVEL
  Levels,       \* levels a host asks for, as sets of flags
  None

\* Session keys, by the host's challenge and the card's counter value.
Keys == (1 .. MaxSessions) \X (1 .. SeqCeiling)

\* Wrapped commands by the branch of Endpoint::handle that takes them: INSTALL
\* for load, LOAD, GET STATUS first and next, the bootloader command, and the
\* branches that touch neither cursor nor upload otherwise than by dropping
\* them: other GP management, application commands, GET DATA, inventory.
Kinds == {"load", "block", "list", "next", "bootldr", "other"}

Chains == Seq(Kinds \cup {"auth"})

\* A secure channel the card holds.
Sessions == [key : Keys, chain : Chains, counter : 0 .. CounterMax,
             level : Levels \cup {{}}, active : BOOLEAN]

ASSUME EndpointConstants ==
  /\ MaxSessions \in Nat /\ MaxCommands \in Nat /\ MaxFaults \in Nat
  /\ Window \in Nat \ {0} /\ SeqCeiling \in Nat /\ CounterMax \in Nat

ASSUME LevelFlags == \A l \in Levels : l \subseteq {"mac", "enc", "rmac", "renc", "other"}

ASSUME NoneIsNothing == None \notin Keys /\ None \notin Sessions

\* What the host put on the link.  A wrapped message is identified by its
\* session key, the messages chained before it, and its own body.
InitMsg(h) == [t |-> "init", h |-> h]
AuthMsg(k, l) == [t |-> "auth", key |-> k, pre |-> <<>>, body |-> "auth", level |-> l]
CmdMsg(k, pre, c) == [t |-> "cmd", key |-> k, pre |-> pre, body |-> c, level |-> {}]

VARIABLES
  \* host and link
  hostH, hostKey, hostChain,  \* the host's challenge, session key, C-MAC chain
  wire,                       \* every message sent
  \* card, durable
  reserved,                   \* Registry::sequence
  \* card, RAM
  window,                     \* JcvmEngine::sequences: values still to hand out
  storeOK,                    \* the registry store is usable
  session,                    \* Endpoint::session
  cursor,                     \* Endpoint::status_cursor: index of the next record
  upload,                     \* JcvmEngine::upload: blocks received
  boot,                       \* Endpoint::bootloader_requested
  \* history
  issued,                     \* challenges in the order they were issued
  log,                        \* wrapped commands in the order they were executed
  ivs,                        \* encrypted responses: key, counter, command answered
  faults

hostVars == <<hostH, hostKey, hostChain, wire>>
counterVars == <<reserved, window, storeOK, issued, faults>>
vars == <<hostH, hostKey, hostChain, wire, reserved, window, storeOK, session,
          cursor, upload, boot, issued, log, ivs, faults>>

Init ==
  /\ hostH = 0 /\ hostKey = None /\ hostChain = <<>> /\ wire = {}
  /\ reserved = 0 /\ window = {} /\ storeOK = TRUE
  /\ session = None /\ cursor = None /\ upload = None /\ boot = FALSE
  /\ issued = <<>> /\ log = <<>> /\ ivs = {} /\ faults = 0

-----------------------------------------------------------------------------
(* The host: it draws a fresh challenge per session, checks the card       *)
(* cryptogram of the answer, and chains every message it wraps.            *)

HostOpen ==
  /\ hostH < MaxSessions
  /\ hostH' = hostH + 1 /\ hostKey' = None /\ hostChain' = <<>>
  /\ wire' = wire \cup {InitMsg(hostH + 1)}
  /\ UNCHANGED <<counterVars, session, cursor, upload, boot, log, ivs>>

HostAuthenticate ==
  /\ hostKey = None
  /\ \E i \in 1 .. Len(issued), l \in Levels :
       /\ issued[i][1] = hostH
       /\ hostKey' = issued[i] /\ hostChain' = <<"auth">>
       /\ wire' = wire \cup {AuthMsg(issued[i], l)}
  /\ UNCHANGED <<counterVars, hostH, session, cursor, upload, boot, log, ivs>>

HostSend(c) ==
  /\ hostKey # None
  /\ Cardinality({m \in wire : m.t = "cmd"}) < MaxCommands
  /\ wire' = wire \cup {CmdMsg(hostKey, hostChain, c)}
  /\ hostChain' = Append(hostChain, c)
  /\ UNCHANGED <<counterVars, hostH, hostKey, session, cursor, upload, boot, log, ivs>>

-----------------------------------------------------------------------------
(* Losing the session *)

\* Endpoint::reset
Reset == session' = None /\ cursor' = None /\ upload' = None

\* ISD selection, a reader reset, or idle maintenance that failed.
DropSession ==
  /\ Reset
  /\ UNCHANGED <<hostVars, counterVars, boot, log, ivs>>

PowerCycle ==
  /\ Reset
  /\ boot' = FALSE /\ window' = {} /\ storeOK' = TRUE
  /\ UNCHANGED <<hostVars, reserved, issued, log, ivs, faults>>

\* A plain interindustry APDU for the selected applet (DIRECT_APDUS).  The
\* applet may ask for a security reset.
PlainCommand ==
  /\ upload' = None /\ cursor' = None
  /\ session' \in {session, None}
  /\ UNCHANGED <<hostVars, counterVars, boot, log, ivs>>

-----------------------------------------------------------------------------
(* INITIALIZE UPDATE *)

\* Session::initiate_with
Initiate(k) == [key |-> k, chain |-> <<>>, counter |-> 0, level |-> {}, active |-> FALSE]

\* Mutant: an upload outlives the session that opened it.
RestartSecureChannel_KeepsUpload == cursor' = None /\ upload' = upload

\* restart_secure_channel, after the dispatcher dropped session and cursor.
RestartSecureChannel == cursor' = None /\ upload' = None

\* The answer leaves with a session, or a later step fails and the value is spent.
Issue(h, n) ==
  /\ issued' = Append(issued, <<h, n>>)
  /\ session' \in {Initiate(<<h, n>>), None}

\* Bad parameters, or the selected applet does not come back.
InitRefused ==
  /\ session' = None
  /\ UNCHANGED counterVars

\* next_secure_channel_sequence: the next value of the reserved range.
FromWindow(h) ==
  /\ window # {}
  /\ LET n == CHOOSE n \in window : \A m \in window : n <= m IN
       /\ Issue(h, n)
       /\ window' = window \ {n}
  /\ UNCHANGED <<reserved, storeOK, faults>>

\* Registry::reserve_sequences
CanReserve == window = {} /\ storeOK /\ reserved + Window <= SeqCeiling
NewRange == reserved + 1 .. reserved + Window

FromRegistry(h) ==
  /\ CanReserve
  /\ reserved' = reserved + Window
  /\ Issue(h, reserved + 1)
  /\ window' = NewRange \ {reserved + 1}
  /\ UNCHANGED <<storeOK, faults>>

NoneLeft ==
  /\ window = {} /\ ~CanReserve
  /\ session' = None
  /\ UNCHANGED counterVars

\* Mutant: the range is taken over before its commit is known to be durable.
ReserveFails_KeepsRange ==
  /\ CanReserve /\ faults < MaxFaults
  /\ faults' = faults + 1
  /\ session' = None
  /\ reserved' \in {reserved, reserved + Window} /\ storeOK' \in BOOLEAN
  /\ window' = NewRange
  /\ UNCHANGED issued

\* The commit fails before or after it became durable; the store re-reads
\* what is durable or stays unusable until the next power-up.
ReserveFails ==
  /\ CanReserve /\ faults < MaxFaults
  /\ faults' = faults + 1
  /\ session' = None
  /\ reserved' \in {reserved, reserved + Window} /\ storeOK' \in BOOLEAN
  /\ UNCHANGED <<window, issued>>

InitializeUpdate(m) ==
  /\ m.t = "init"
  /\ RestartSecureChannel
  /\ \/ InitRefused
     \/ FromWindow(m.h)
     \/ FromRegistry(m.h)
     \/ NoneLeft
     \/ ReserveFails
  /\ UNCHANGED <<hostVars, boot, log, ivs>>

-----------------------------------------------------------------------------
(* EXTERNAL AUTHENTICATE and wrapped commands *)

\* Session::check_mac_with
MacOK(s, m) == m.key = s.key /\ m.pre = s.chain

CanAuthenticate(m) ==
  /\ session # None
  /\ ~session.active
  /\ MacOK(session, m)
  /\ m.level \subseteq Supported

ExternalAuthenticate(m) ==
  /\ m.t = "auth"
  /\ IF CanAuthenticate(m)
     THEN /\ session' = [session EXCEPT !.chain = Append(@, m.body),
                                        !.level = m.level, !.active = TRUE]
          /\ cursor' = None /\ upload' = upload
     ELSE Reset
  /\ UNCHANGED <<hostVars, counterVars, boot, log, ivs>>

CanUnwrap(m) ==
  /\ session # None
  /\ session.active
  /\ MacOK(session, m)
  /\ session.counter < CounterMax

\* Mutant: the chaining value is not advanced.
Unwrap_SameChain(m) == [session EXCEPT !.counter = @ + 1]

\* Mutant: the counter advances only when the command is decrypted.
Unwrap_CountsEncrypted(m) ==
  [session EXCEPT !.chain = Append(@, m.body),
                  !.counter = IF "enc" \in session.level THEN @ + 1 ELSE @]

\* Session::unwrap_with: the session after the command was accepted.
Unwrap(m) == [session EXCEPT !.chain = Append(@, m.body), !.counter = @ + 1]

MayManage == "mac" \in session.level

\* LoadReceiver: a block in sequence, the last block, or an error.
Receive == upload' \in {upload + 1, None}

\* GET STATUS starts at the first record and keeps a cursor while more follow.
ListFirst == cursor' \in {1, None}
ListNext == IF cursor = None THEN cursor' = None ELSE cursor' \in {cursor + 1, None}

\* What the accepted command does to the cursor, the upload and the board
\* request, whether it succeeds or answers an error status.
Dispatch(c) ==
  \/ /\ c = "load"
     /\ cursor' = None /\ boot' = boot
     /\ upload' \in IF MayManage THEN {0, None} ELSE {None}
  \/ /\ c = "block"
     /\ cursor' = None /\ boot' = boot
     /\ IF upload # None /\ MayManage THEN Receive ELSE upload' = upload
  \/ /\ c = "bootldr"
     /\ boot' \in IF MayManage THEN {TRUE, boot} ELSE {boot}
     /\ cursor' = cursor /\ upload' = None
  \/ /\ c \in {"list", "next"}
     /\ upload' = None /\ boot' = boot
     /\ CASE ~MayManage -> cursor' = cursor
          [] MayManage /\ c = "list" -> ListFirst
          [] MayManage /\ c = "next" -> ListNext
  \/ /\ c = "other"
     /\ cursor' = None /\ upload' = None /\ boot' = boot

\* Session::response_with: a success with data is encrypted under the counter
\* of the command it answers; an error status is sent in the clear.
Respond(s) ==
  /\ session' = s
  /\ \/ /\ "renc" \in s.level
        /\ ivs' = ivs \cup {[key |-> s.key, counter |-> s.counter, chain |-> s.chain]}
     \/ ivs' = ivs

\* A management or application command may end in a security reset, which
\* drops the session and answers in the clear.
SecurityReset(c) ==
  /\ c \in {"load", "block", "other"}
  /\ session' = None /\ ivs' = ivs

Execute(m) ==
  /\ m.t = "cmd" /\ CanUnwrap(m)
  /\ log' = Append(log, m)
  /\ Dispatch(m.body)
  /\ Respond(Unwrap(m)) \/ SecurityReset(m.body)
  /\ UNCHANGED <<hostVars, counterVars>>

\* The command is accepted, then cancelled or ended by an error.
ExecuteFails(m) ==
  /\ m.t = "cmd" /\ CanUnwrap(m)
  /\ log' = Append(log, m)
  /\ Reset
  /\ UNCHANGED <<hostVars, counterVars, boot, ivs>>

\* Anything else in class 84: no session, not active, or a MAC that is not
\* the next one of this session.
Reject(m) ==
  /\ m.t = "cmd" /\ ~CanUnwrap(m)
  /\ Reset
  /\ UNCHANGED <<hostVars, counterVars, boot, log, ivs>>

Deliver(m) ==
  \/ InitializeUpdate(m)
  \/ ExternalAuthenticate(m)
  \/ Execute(m)
  \/ ExecuteFails(m)
  \/ Reject(m)

Next ==
  \/ HostOpen
  \/ HostAuthenticate
  \/ \E c \in Kinds : HostSend(c)
  \/ \E m \in wire : Deliver(m)
  \/ PlainCommand
  \/ DropSession
  \/ PowerCycle

Spec == Init /\ [][Next]_vars

-----------------------------------------------------------------------------
(* Properties *)

\* A wrapped message with all it was chained to, and two chains that agree as
\* far as both go.
Whole(m) == Append(m.pre, m.body)
Compatible(c, d) == \A n \in 1 .. Len(c) : n <= Len(d) => c[n] = d[n]

\* Every variable has its type; in particular no challenge counter beyond the
\* ceiling is ever issued and the command counter never wraps.
TypeOK ==
  /\ hostH \in 0 .. MaxSessions /\ hostKey \in Keys \cup {None} /\ hostChain \in Chains
  /\ reserved \in 0 .. SeqCeiling /\ window \subseteq 1 .. SeqCeiling
  /\ storeOK \in BOOLEAN /\ boot \in BOOLEAN /\ faults \in 0 .. MaxFaults
  /\ session \in Sessions \cup {None}
  /\ cursor \in Nat \cup {None} /\ upload \in Nat \cup {None}
  /\ issued \in Seq(Keys)

\* The wrapped commands of one host session run at most once each, in the
\* order the host wrapped them and without a gap, however the link duplicates,
\* delays or reorders them, across new sessions and power cycles
\* (check_mac_with, unwrap_with, and the durable challenge counter): what ran
\* before a command under its key are the commands the host chained before it.
CommandsRunInOrder ==
  \A i \in 1 .. Len(log) :
    /\ \A j \in 1 .. i - 1 : log[j].key = log[i].key =>
         Len(log[j].pre) < Len(log[i].pre) /\ Compatible(Whole(log[j]), log[i].pre)
    /\ \A p \in 2 .. Len(log[i].pre) :
         \E j \in 1 .. i - 1 : log[j].key = log[i].key /\ Len(log[j].pre) = p - 1

\* No value of the sequence counter seeds two challenges, whatever commits fail
\* and whenever power is lost (next_secure_channel_sequence).
ChallengesNeverRepeat ==
  \A i, j \in 1 .. Len(issued) : issued[i][2] = issued[j][2] => i = j

\* Under one session key no counter block encrypts two responses, and the block
\* is the one the host expects for the command it counts (response_with); the
\* counter that makes the block does not wrap (TypeOK).
ResponseIvsNeverRepeat ==
  /\ TypeOK
  /\ \A x, y \in ivs :
       /\ x.key = y.key /\ x.counter = y.counter => x = y
       /\ x.counter = Len(x.chain) - 1

\* While a session is open, an upload holds exactly the LOAD blocks that the
\* same authenticated session sent right after its INSTALL for load: no other
\* accepted command, new session or reset falls inside (globalplatform_load_active).
\* A GET STATUS continuation belongs to the session that began the listing, and
\* only the bootloader command, which leaves status_cursor alone, came between.
ContinuationsAreContiguous ==
  /\ upload # None /\ session # None =>
       /\ session.active /\ MayManage
       /\ LET c == session.chain
              start == Len(c) - upload
          IN  /\ start > 1 /\ c[start] = "load"
              /\ \A i \in start + 1 .. Len(c) : c[i] = "block"
  /\ cursor # None =>
       /\ session # None /\ session.active /\ MayManage
       /\ \E i \in 2 .. Len(session.chain) :
            /\ session.chain[i] \in {"list", "next"}
            /\ \A j \in i + 1 .. Len(session.chain) : session.chain[j] = "bootldr"

=============================================================================
