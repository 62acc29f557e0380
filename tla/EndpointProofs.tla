--------------------------- MODULE EndpointProofs ---------------------------
(***************************************************************************)
(* TLAPS proofs about Endpoint, for any number of sessions, commands and   *)
(* failed commits and any counter widths: challenge counters are not       *)
(* reused, wrapped commands run once and in the host's order, response     *)
(* counter blocks are not reused, and uploads and listings are continued   *)
(* only by the session that began them.                                    *)
(***************************************************************************)
EXTENDS Endpoint, TLAPS

-----------------------------------------------------------------------------
(* The inductive invariant *)

Inits == [t : {"init"}, h : 1 .. MaxSessions]
Wraps == [t : {"auth", "cmd"}, key : Keys, pre : Chains, body : Kinds \cup {"auth"},
          level : Levels \cup {{}}]
Wrapped == {m \in wire : m.t # "init"}

\* The messages of one key are prefixes of one chain, which for the session
\* the host is in is the chain it has in memory.
LinkInv ==
  /\ \A m \in wire : m.t = "init" => m \in Inits
  /\ \A m \in Wrapped : m \in Wraps /\ m.key[1] <= hostH /\ (m.key[1] = hostH => m.key = hostKey)
  /\ hostKey # None => hostKey[1] = hostH
  /\ \A m \in Wrapped : m.key = hostKey =>
       Len(m.pre) < Len(hostChain) /\ Compatible(Whole(m), hostChain)
  /\ \A m, n \in Wrapped : m.key = n.key => Compatible(Whole(m), Whole(n))

\* What is left of a reserved range is its end, and was never handed out.
CounterInv ==
  /\ \E n \in 1 .. reserved + 1 : window = n .. reserved
  /\ \A i \in 1 .. Len(issued) : issued[i][2] <= reserved /\ issued[i][2] \notin window
  /\ ChallengesNeverRepeat

WasIssued(k) == \E i \in 1 .. Len(issued) : issued[i] = k

\* The card has accepted a message of key k that ends the chain c.
WasSent(k, c) == \E m \in Wrapped : m.key = k /\ Whole(m) = c

\* The command counter is the length of the chain after authentication.
SessionInv ==
  session # None =>
    /\ WasIssued(session.key)
    /\ session.active => /\ Len(session.chain) = session.counter + 1
                         /\ WasSent(session.key, session.chain)
    /\ ~session.active => session.chain = <<>> /\ session.counter = 0

\* Under the key of the open session exactly the commands of its chain ran.
LogInv ==
  /\ log \in Seq(Wrapped)
  /\ \A j \in 1 .. Len(log) : WasIssued(log[j].key)
  /\ session # None =>
       /\ \A j \in 1 .. Len(log) : log[j].key = session.key =>
            Len(log[j].pre) < Len(session.chain)
       /\ \A p \in 2 .. Len(session.chain) :
            \E j \in 1 .. Len(log) : log[j].key = session.key /\ Len(log[j].pre) = p - 1

Ivs == [key : Keys, counter : 0 .. CounterMax, chain : Chains]
IvInv ==
  /\ ivs \subseteq Ivs
  /\ \A x \in ivs : Len(x.chain) = x.counter + 1 /\ WasSent(x.key, x.chain)

EndpointInv ==
  /\ TypeOK /\ LinkInv /\ CounterInv /\ SessionInv /\ LogInv /\ IvInv
  /\ CommandsRunInOrder
  /\ ContinuationsAreContiguous

-----------------------------------------------------------------------------
(* Chains *)

\* What Append does to a chain.
LEMMA AppendChain ==
  ASSUME NEW c \in Chains, NEW b \in Kinds \cup {"auth"}
  PROVE  /\ Append(c, b) \in Chains
         /\ Len(Append(c, b)) = Len(c) + 1
         /\ \A n \in 1 .. Len(c) : Append(c, b)[n] = c[n]
         /\ Append(c, b)[Len(c) + 1] = b
BY DEF Chains

\* Compatible chains of one length are equal.
LEMMA SameChain ==
  ASSUME NEW c \in Chains, NEW d \in Chains, Len(c) = Len(d), Compatible(c, d)
  PROVE  c = d
<1>1. \A n \in 1 .. Len(c) : c[n] = d[n]
  BY DEF Compatible, Chains
<1> QED BY <1>1 DEF Chains

\* A chain is compatible with itself and its extensions, and compatibility is
\* symmetric.
LEMMA CompatibleChains ==
  ASSUME NEW c \in Chains, NEW d \in Chains, Compatible(c, d), NEW b \in Kinds \cup {"auth"}
  PROVE  /\ Compatible(c, c)
         /\ Compatible(d, c)
         /\ Len(c) <= Len(d) => Compatible(c, Append(d, b)) /\ Compatible(Append(d, b), c)
<1>1. Len(c) \in Nat /\ Len(d) \in Nat
  BY DEF Chains
<1>2. Compatible(c, c) /\ Compatible(d, c)
  BY <1>1 DEF Compatible
<1>3. ASSUME Len(c) <= Len(d) PROVE Compatible(c, Append(d, b)) /\ Compatible(Append(d, b), c)
  BY <1>1, <1>3, AppendChain DEF Compatible
<1> QED BY <1>2, <1>3

\* A wrapped message extends a chain by its body.
LEMMA WholeChain ==
  ASSUME NEW m \in Wraps
  PROVE  /\ Whole(m) \in Chains /\ m.pre \in Chains /\ Len(m.pre) \in Nat
         /\ Len(Whole(m)) = Len(m.pre) + 1
BY AppendChain DEF Wraps, Whole, Chains

-----------------------------------------------------------------------------
(* The host and the link *)

\* One message of a key that extends all the others of that key.
LEMMA LinkExtended ==
  ASSUME LinkInv, hostKey \in Keys \cup {None}, hostChain \in Chains,
         NEW m \in Wraps, m.key = hostKey', m.key[1] = hostH,
         hostH' = hostH, hostChain' = Whole(m), wire' = wire \cup {m},
         \A n \in Wrapped : n.key = m.key =>
           Len(n.pre) < Len(m.pre) /\ Compatible(Whole(n), m.pre),
         \A n \in Wrapped : n.key[1] = hostH => n.key = m.key
  PROVE  LinkInv'
<1> USE DEF LinkInv
<1>1. Wrapped' = Wrapped \cup {m}
  BY DEF Wrapped, Wraps
<1>2. Whole(m) \in Chains /\ m.pre \in Chains /\ Len(m.pre) \in Nat
      /\ Len(Whole(m)) = Len(m.pre) + 1 /\ Compatible(Whole(m), Whole(m))
  BY WholeChain DEF Compatible
<1>3. ASSUME NEW n \in Wrapped, n.key = m.key
      PROVE  /\ Len(n.pre) < Len(Whole(m))
             /\ Compatible(Whole(n), Whole(m)) /\ Compatible(Whole(m), Whole(n))
  <2>1. n \in Wraps /\ Len(n.pre) < Len(m.pre) /\ Compatible(Whole(n), m.pre)
    BY <1>3
  <2>2. Whole(n) \in Chains /\ Len(Whole(n)) <= Len(m.pre) /\ Len(n.pre) \in Nat
    BY <2>1, <1>2, WholeChain
  <2>3. m.body \in Kinds \cup {"auth"}
    BY DEF Wraps
  <2>4. Whole(m) = Append(m.pre, m.body)
    BY DEF Whole
  <2>5. Compatible(Whole(n), Whole(m)) /\ Compatible(Whole(m), Whole(n))
    BY <1>2, <2>1, <2>2, <2>3, <2>4, CompatibleChains
  <2> QED BY <1>2, <2>1, <2>5
<1>4. \A n \in wire' : n.t = "init" => n \in Inits
  BY DEF Wraps
<1>5. \A n \in Wrapped' : n \in Wraps /\ n.key[1] <= hostH' /\ (n.key[1] = hostH' => n.key = hostKey')
  <2>1. m.key[1] \in Nat
    BY DEF Wraps, Keys
  <2> QED BY <1>1, <2>1
<1>6. \A n \in Wrapped' : n.key = hostKey' =>
        Len(n.pre) < Len(hostChain') /\ Compatible(Whole(n), hostChain')
  BY <1>1, <1>2, <1>3
<1>7. \A n, o \in Wrapped' : n.key = o.key => Compatible(Whole(n), Whole(o))
  BY <1>1, <1>2, <1>3
<1> QED BY <1>4, <1>5, <1>6, <1>7

\* What the host does keeps the link's invariant and only adds messages.
LEMMA HostStep ==
  ASSUME TypeOK, LinkInv, HostOpen \/ HostAuthenticate \/ \E c \in Kinds : HostSend(c)
  PROVE  /\ LinkInv' /\ wire \subseteq wire'
         /\ hostH' \in 0 .. MaxSessions /\ hostKey' \in Keys \cup {None} /\ hostChain' \in Chains
<1> USE EndpointConstants DEF TypeOK
<1>1. CASE HostOpen
  <2>1. InitMsg(hostH + 1) \in Inits /\ InitMsg(hostH + 1).t = "init"
    BY <1>1 DEF HostOpen, InitMsg, Inits
  <2>2. Wrapped' = Wrapped /\ wire \subseteq wire'
    BY <1>1, <2>1 DEF HostOpen, Wrapped
  <2>3. \A m \in Wrapped : m.key \in Keys /\ m.key[1] \in Nat /\ m.key[1] <= hostH
    BY DEF LinkInv, Wraps, Keys
  <2>4. \A m \in Wrapped : m.key[1] # hostH + 1 /\ m.key # None /\ m.key[1] <= hostH + 1
    BY <2>3, NoneIsNothing
  <2>5. \A m \in wire' : m.t = "init" => m \in Inits
    BY <1>1, <2>1 DEF HostOpen, LinkInv
  <2>6. hostH' \in 0 .. MaxSessions /\ hostKey' = None /\ hostChain' \in Chains /\ hostH' = hostH + 1
    BY <1>1 DEF HostOpen, Chains
  <2>7. LinkInv'
    BY <2>2, <2>4, <2>5, <2>6 DEF LinkInv
  <2> QED BY <2>2, <2>6, <2>7
<1>2. CASE HostAuthenticate
  <2>1. PICK i \in 1 .. Len(issued), l \in Levels :
          /\ issued[i][1] = hostH /\ hostKey' = issued[i] /\ hostChain' = <<"auth">>
          /\ wire' = wire \cup {AuthMsg(issued[i], l)}
    BY <1>2 DEF HostAuthenticate
  <2> DEFINE m == AuthMsg(issued[i], l)
  <2>2. issued[i] \in Keys
    OBVIOUS
  <2>3. <<>> \in Chains /\ Append(<<>>, "auth") = <<"auth">> /\ <<"auth">> \in Chains
    BY DEF Chains
  <2>4. m \in Wraps /\ m.key = issued[i] /\ Whole(m) = <<"auth">>
    BY <2>2, <2>3 DEF AuthMsg, Wraps, Whole
  <2>5. \A n \in Wrapped : n.key[1] # hostH
    <3>1. \A n \in Wrapped : n.key \in Keys
      BY DEF LinkInv, Wraps
    <3> QED BY <1>2, <3>1, NoneIsNothing DEF LinkInv, HostAuthenticate
  <2>6. hostH' = hostH
    BY <1>2 DEF HostAuthenticate
  <2> HIDE DEF m
  <2>7. LinkInv'
    BY <2>1, <2>4, <2>5, <2>6, LinkExtended DEF m
  <2> QED BY <2>1, <2>2, <2>3, <2>6, <2>7
<1>3. CASE \E c \in Kinds : HostSend(c)
  <2>1. PICK c \in Kinds : HostSend(c)
    BY <1>3
  <2> DEFINE m == CmdMsg(hostKey, hostChain, c)
  <2>2. m \in Wraps /\ m.key = hostKey /\ m.pre = hostChain /\ Whole(m) = Append(hostChain, c)
    BY <2>1 DEF HostSend, CmdMsg, Wraps, Whole
  <2>3. hostH' = hostH /\ hostKey' = hostKey /\ hostKey # None /\ wire' = wire \cup {m}
        /\ hostChain' = Append(hostChain, c)
    BY <2>1 DEF HostSend
  <2> HIDE DEF m
  <2>4. \A n \in Wrapped : n.key = m.key =>
          Len(n.pre) < Len(m.pre) /\ Compatible(Whole(n), m.pre)
    BY <2>2 DEF LinkInv
  <2>5. \A n \in Wrapped : n.key[1] = hostH => n.key = m.key
    BY <2>2 DEF LinkInv
  <2>6. LinkInv'
    BY <2>2, <2>3, <2>4, <2>5, LinkExtended DEF LinkInv
  <2> QED BY <2>2, <2>3, <2>6, AppendChain
<1> QED BY <1>1, <1>2, <1>3

-----------------------------------------------------------------------------
(* Challenges *)

\* The parts of a key.
LEMMA KeyType == \A k \in Keys : k[1] \in 1 .. MaxSessions /\ k[2] \in 1 .. SeqCeiling
BY DEF Keys

-----------------------------------------------------------------------------
(* What a step does to the session, the challenges issued, the log and the *)
(* encrypted responses.                                                    *)

NeverIssued(n) == \A i \in 1 .. Len(issued) : issued[i][2] # n

Keeps == UNCHANGED <<session, issued, log, ivs>>
Loses ==
  /\ session' = None /\ UNCHANGED <<log, ivs>>
  /\ issued' = issued \/ \E k \in Keys : issued' = Append(issued, k)
Opens ==
  \E k \in Keys : /\ NeverIssued(k[2])
                  /\ session' = Initiate(k) /\ issued' = Append(issued, k)
                  /\ UNCHANGED <<log, ivs>>
Authenticates ==
  \E m \in Wrapped : /\ CanAuthenticate(m)
                     /\ session' = [session EXCEPT !.chain = Append(@, m.body),
                                                   !.level = m.level, !.active = TRUE]
                     /\ UNCHANGED <<issued, log, ivs>>
Runs ==
  \E m \in Wrapped : /\ CanUnwrap(m) /\ log' = Append(log, m)
                     /\ Respond(Unwrap(m))
                     /\ issued' = issued
Cancels ==
  \E m \in Wrapped : /\ CanUnwrap(m) /\ log' = Append(log, m)
                     /\ session' = None /\ UNCHANGED <<issued, ivs>>

\* The value taken from the window is its first one, and was never issued.
LEMMA WindowFirst ==
  ASSUME TypeOK, CounterInv, window # {}
  PROVE  \E n \in 1 .. reserved :
           /\ window = n .. reserved
           /\ (CHOOSE x \in window : \A y \in window : x <= y) = n
           /\ NeverIssued(n)
<1> USE DEF TypeOK
<1>1. PICK n \in 1 .. reserved + 1 : window = n .. reserved
  BY DEF CounterInv
<1>2. n \in 1 .. reserved /\ n \in window /\ \A y \in window : n <= y
  BY <1>1
<1>3. \A x \in window : (\A y \in window : x <= y) => x = n
  BY <1>1, <1>2
<1>4. (CHOOSE x \in window : \A y \in window : x <= y) = n
  BY <1>2, <1>3
<1>5. NeverIssued(n)
  BY <1>2 DEF CounterInv, NeverIssued
<1> QED BY <1>1, <1>2, <1>4, <1>5

\* Every way INITIALIZE UPDATE ends keeps the counters apart.
LEMMA InitializeStep ==
  ASSUME TypeOK, CounterInv, NEW h \in 1 .. MaxSessions,
         InitRefused \/ FromWindow(h) \/ FromRegistry(h) \/ NoneLeft \/ ReserveFails,
         UNCHANGED <<log, ivs>>
  PROVE  /\ Keeps \/ Loses \/ Opens
         /\ CounterInv'
         /\ reserved' \in 0 .. SeqCeiling /\ window' \subseteq 1 .. SeqCeiling
         /\ storeOK' \in BOOLEAN /\ faults' \in 0 .. MaxFaults /\ issued' \in Seq(Keys)
<1>0. /\ reserved \in Nat /\ reserved <= SeqCeiling /\ window \subseteq 1 .. SeqCeiling
      /\ storeOK \in BOOLEAN /\ faults \in 0 .. MaxFaults /\ issued \in Seq(Keys)
      /\ SeqCeiling \in Nat /\ MaxSessions \in Nat /\ MaxFaults \in Nat /\ Window \in Nat \ {0}
  BY EndpointConstants DEF TypeOK
<1> HIDE DEF TypeOK
<1>1. ASSUME NEW n \in 1 .. SeqCeiling, NeverIssued(n), Issue(h, n),
             reserved' \in 0 .. SeqCeiling, reserved <= reserved', n <= reserved',
             window' = n + 1 .. reserved', \A i \in 1 .. Len(issued) : issued[i][2] < n + 1 \/ issued[i][2] > reserved'
      PROVE  /\ Loses \/ Opens
             /\ CounterInv' /\ window' \subseteq 1 .. SeqCeiling /\ issued' \in Seq(Keys)
  <2>1. <<h, n>> \in Keys /\ <<h, n>>[2] = n
    BY DEF Keys
  <2>2. issued' = Append(issued, <<h, n>>) /\ session' \in {Initiate(<<h, n>>), None}
    BY <1>1 DEF Issue
  <2>3. issued' \in Seq(Keys) /\ Len(issued') = Len(issued) + 1 /\ Len(issued) \in Nat
        /\ (\A i \in 1 .. Len(issued) : issued'[i] = issued[i] /\ issued[i] \in Keys)
        /\ issued'[Len(issued) + 1] = <<h, n>>
    BY <1>0, <2>1, <2>2
  <2>4. Loses \/ Opens
    BY <1>1, <2>1, <2>2 DEF Loses, Opens
  <2>5. ChallengesNeverRepeat'
    <3> SUFFICES ASSUME NEW i \in 1 .. Len(issued'), NEW j \in 1 .. Len(issued'),
                        issued'[i][2] = issued'[j][2]
                 PROVE  i = j
      BY DEF ChallengesNeverRepeat
    <3>1. CASE i \in 1 .. Len(issued) /\ j \in 1 .. Len(issued)
      BY <2>3, <3>1 DEF CounterInv, ChallengesNeverRepeat
    <3>2. CASE i = Len(issued) + 1 \/ j = Len(issued) + 1
      BY <1>1, <2>1, <2>3, <3>2 DEF NeverIssued
    <3> QED BY <2>3, <3>1, <3>2
  <2>6. \A i \in 1 .. Len(issued') : issued'[i][2] <= reserved' /\ issued'[i][2] \notin window'
    <3>1. \A i \in 1 .. Len(issued) : issued[i][2] \in Nat
      BY <2>3, KeyType, EndpointConstants
    <3>2. ASSUME NEW i \in 1 .. Len(issued)
          PROVE  issued'[i][2] <= reserved' /\ issued'[i][2] \notin window'
      <4>1. issued'[i][2] = issued[i][2] /\ issued[i][2] \in Nat /\ issued[i][2] <= reserved
        BY <2>3, <3>1 DEF CounterInv
      <4> QED BY <1>0, <1>1, <4>1
    <3>3. issued'[Len(issued) + 1][2] = n /\ n <= reserved' /\ n \notin window'
      BY <1>0, <1>1, <2>1, <2>3
    <3>4. \A i \in 1 .. Len(issued') : i \in 1 .. Len(issued) \/ i = Len(issued) + 1
      BY <2>3
    <3> QED BY <3>2, <3>3, <3>4
  <2>7. n + 1 \in 1 .. reserved' + 1
    <3>1. n \in Nat /\ reserved' \in Nat /\ n <= reserved'
      BY <1>0, <1>1
    <3>2. \A a, b \in Nat : a <= b => a + 1 \in 1 .. b + 1
      OBVIOUS
    <3> QED BY <3>1, <3>2
  <2>8. CounterInv'
    BY <1>1, <2>5, <2>6, <2>7 DEF CounterInv
  <2>9. window' \subseteq 1 .. SeqCeiling
    BY <1>0, <1>1
  <2> QED BY <2>3, <2>4, <2>8, <2>9
<1>2. \A i \in 1 .. Len(issued) : issued[i][2] \in Nat /\ issued[i][2] <= reserved
  <2>1. \A i \in 1 .. Len(issued) : issued[i] \in Keys
    BY <1>0
  <2> QED BY <2>1, KeyType, EndpointConstants DEF CounterInv
<1>3. CASE InitRefused \/ NoneLeft
  <2>1. UNCHANGED counterVars /\ session' = None
    BY <1>3 DEF InitRefused, NoneLeft
  <2>2. CounterInv'
    BY <2>1 DEF counterVars, CounterInv, ChallengesNeverRepeat
  <2> QED BY <1>0, <2>1, <2>2 DEF counterVars, Loses
<1>4. CASE FromWindow(h)
  <2>1. PICK n \in 1 .. reserved :
           /\ window = n .. reserved
           /\ (CHOOSE x \in window : \A y \in window : x <= y) = n
           /\ NeverIssued(n)
    BY <1>4, WindowFirst DEF FromWindow
  <2>2. Issue(h, n) /\ window' = window \ {n} /\ UNCHANGED <<reserved, storeOK, faults>>
    BY <1>4, <2>1 DEF FromWindow
  <2>3. window' = n + 1 .. reserved'
    BY <1>0, <2>1, <2>2
  <2>4. \A i \in 1 .. Len(issued) : issued[i][2] < n + 1
    <3>1. \A i \in 1 .. Len(issued) : issued[i][2] \notin n .. reserved
      BY <2>1 DEF CounterInv
    <3> QED BY <1>0, <1>2, <2>1, <3>1
  <2> QED BY <1>0, <1>1, <2>1, <2>2, <2>3, <2>4
<1>5. CASE FromRegistry(h)
  <2>1. /\ reserved' = reserved + Window /\ Issue(h, reserved + 1) /\ reserved + Window <= SeqCeiling
        /\ window' = (reserved + 1 .. reserved + Window) \ {reserved + 1}
        /\ UNCHANGED <<storeOK, faults>>
    BY <1>5 DEF FromRegistry, NewRange, CanReserve
  <2>2. window' = (reserved + 1) + 1 .. reserved'
    BY <1>0, <2>1
  <2>3. NeverIssued(reserved + 1)
    BY <1>0, <1>2 DEF NeverIssued
  <2> QED BY <1>0, <1>1, <1>2, <2>1, <2>2, <2>3
<1>6. CASE ReserveFails
  <2>1. /\ reserved' \in {reserved, reserved + Window} /\ reserved + Window <= SeqCeiling
        /\ window = {} /\ window' = window /\ issued' = issued /\ session' = None
        /\ storeOK' \in BOOLEAN /\ faults' \in 0 .. MaxFaults
    BY <1>0, <1>6 DEF ReserveFails, CanReserve
  <2>2. reserved' \in 0 .. SeqCeiling /\ reserved <= reserved'
    BY <1>0, <2>1
  <2>3. window' = reserved' + 1 .. reserved' /\ reserved' + 1 \in 1 .. reserved' + 1
    <3>1. \A r \in Nat : r + 1 .. r = {} /\ r + 1 \in 1 .. r + 1
      OBVIOUS
    <3>2. reserved' \in Nat
      BY <1>0, <2>2
    <3> QED BY <2>1, <3>1, <3>2
  <2>4. \A i \in 1 .. Len(issued') : issued'[i][2] <= reserved' /\ issued'[i][2] \notin window'
    BY <1>0, <1>2, <2>1, <2>2
  <2>5. CounterInv'
    <3>1. ChallengesNeverRepeat'
      BY <2>1 DEF CounterInv, ChallengesNeverRepeat
    <3> QED BY <2>3, <2>4, <3>1 DEF CounterInv
  <2>6. window' \subseteq 1 .. SeqCeiling /\ issued' \in Seq(Keys)
    BY <1>0, <2>1
  <2> QED BY <2>1, <2>2, <2>5, <2>6 DEF Loses
<1> QED BY <1>3, <1>4, <1>5, <1>6

\* Every step has one of the six shapes, adds to the link what LinkInv allows
\* and keeps the challenge counters apart.
LEMMA StepShapes ==
  ASSUME TypeOK, LinkInv, CounterInv, Next
  PROVE  /\ Keeps \/ Loses \/ Opens \/ Authenticates \/ Runs \/ Cancels
         /\ LinkInv' /\ wire \subseteq wire' /\ CounterInv'
         /\ hostH' \in 0 .. MaxSessions /\ hostKey' \in Keys \cup {None} /\ hostChain' \in Chains
         /\ reserved' \in 0 .. SeqCeiling /\ window' \subseteq 1 .. SeqCeiling
         /\ storeOK' \in BOOLEAN /\ faults' \in 0 .. MaxFaults /\ issued' \in Seq(Keys)
<1> DEFINE Counters == reserved' \in 0 .. SeqCeiling /\ window' \subseteq 1 .. SeqCeiling
                       /\ storeOK' \in BOOLEAN /\ faults' \in 0 .. MaxFaults /\ issued' \in Seq(Keys)
           Hosts == hostH' \in 0 .. MaxSessions /\ hostKey' \in Keys \cup {None}
                    /\ hostChain' \in Chains
           Shape == Keeps \/ Loses \/ Opens \/ Authenticates \/ Runs \/ Cancels
<1>1. ASSUME UNCHANGED counterVars PROVE CounterInv' /\ Counters
  BY <1>1 DEF counterVars, CounterInv, ChallengesNeverRepeat, TypeOK
<1>2. ASSUME UNCHANGED hostVars PROVE LinkInv' /\ wire \subseteq wire' /\ Hosts
  BY <1>2 DEF hostVars, LinkInv, Wrapped, TypeOK
<1>3. CASE HostOpen \/ HostAuthenticate \/ \E c \in Kinds : HostSend(c)
  <2>1. UNCHANGED counterVars /\ Keeps
    BY <1>3 DEF HostOpen, HostAuthenticate, HostSend, Keeps, counterVars
  <2> QED BY <1>1, <1>3, <2>1, HostStep
<1>4. CASE DropSession \/ PlainCommand
  <2>1. UNCHANGED counterVars /\ UNCHANGED hostVars /\ (Keeps \/ Loses)
    BY <1>4 DEF DropSession, PlainCommand, Reset, Keeps, Loses, counterVars
  <2> QED BY <1>1, <1>2, <2>1
<1>5. CASE PowerCycle
  <2>1. UNCHANGED hostVars /\ Loses /\ window' = {} /\ reserved' = reserved /\ issued' = issued
        /\ storeOK' = TRUE /\ faults' = faults
    BY <1>5 DEF PowerCycle, Reset, Loses
  <2>2. reserved \in Nat /\ (reserved + 1 .. reserved) = {} /\ reserved + 1 \in 1 .. reserved + 1
    BY DEF TypeOK
  <2>3. CounterInv' /\ Counters
    BY <2>1, <2>2 DEF CounterInv, ChallengesNeverRepeat, TypeOK
  <2> QED BY <1>2, <2>1, <2>3
<1>6. CASE \E m \in wire : Deliver(m)
  <2>1. PICK m \in wire : Deliver(m)
    BY <1>6
  <2>2. m.t # "init" => m \in Wrapped
    BY DEF Wrapped
  <2>3. CASE InitializeUpdate(m)
    <3>1. m.h \in 1 .. MaxSessions
      BY <2>3 DEF InitializeUpdate, LinkInv, Inits
    <3>2. UNCHANGED hostVars
      BY <2>3 DEF InitializeUpdate
    <3>3. /\ InitRefused \/ FromWindow(m.h) \/ FromRegistry(m.h) \/ NoneLeft \/ ReserveFails
          /\ UNCHANGED <<log, ivs>>
      BY <2>3 DEF InitializeUpdate
    <3> QED BY <1>2, <3>1, <3>2, <3>3, InitializeStep
  <2>4. CASE ExternalAuthenticate(m)
    <3>1. UNCHANGED hostVars /\ UNCHANGED counterVars
      BY <2>4 DEF ExternalAuthenticate
    <3>2. Authenticates \/ Loses
      BY <2>2, <2>4 DEF ExternalAuthenticate, Authenticates, Loses, Reset, counterVars
    <3> QED BY <1>1, <1>2, <3>1, <3>2
  <2>5. CASE Execute(m)
    <3>1. UNCHANGED hostVars /\ UNCHANGED counterVars
      BY <2>5 DEF Execute
    <3>2. Runs \/ Cancels
      BY <2>2, <2>5 DEF Execute, Runs, Cancels, SecurityReset, counterVars
    <3> QED BY <1>1, <1>2, <3>1, <3>2
  <2>6. CASE ExecuteFails(m) \/ Reject(m)
    <3>1. UNCHANGED hostVars /\ UNCHANGED counterVars
      BY <2>6 DEF ExecuteFails, Reject
    <3>2. Cancels \/ Loses
      BY <2>2, <2>6 DEF ExecuteFails, Reject, Cancels, Loses, Reset, counterVars
    <3> QED BY <1>1, <1>2, <3>1, <3>2
  <2> QED BY <2>1, <2>3, <2>4, <2>5, <2>6 DEF Deliver
<1> QED BY <1>3, <1>4, <1>5, <1>6 DEF Next

-----------------------------------------------------------------------------
(* Sessions and the log *)

\* What has been sent or issued stays so.
LEMMA HistoryGrows ==
  ASSUME TypeOK, wire \subseteq wire',
         issued' = issued \/ \E k \in Keys : issued' = Append(issued, k)
  PROVE  /\ Wrapped \subseteq Wrapped'
         /\ \A i \in 1 .. Len(issued) : i \in 1 .. Len(issued') /\ issued'[i] = issued[i]
<1>1. Wrapped \subseteq Wrapped'
  BY DEF Wrapped
<1>2. \A i \in 1 .. Len(issued) : i \in 1 .. Len(issued') /\ issued'[i] = issued[i]
  BY DEF TypeOK
<1> QED BY <1>1, <1>2

\* The session after EXTERNAL AUTHENTICATE or an accepted command.
LEMMA AcceptedSession ==
  ASSUME TypeOK, LinkInv, SessionInv, NEW m \in Wrapped
  PROVE  /\ CanAuthenticate(m) =>
              /\ session.chain = <<>> /\ session.counter = 0 /\ m.pre = session.chain
              /\ m.key = session.key /\ session \in Sessions
              /\ [session EXCEPT !.chain = Append(@, m.body), !.level = m.level, !.active = TRUE]
                   \in Sessions
              /\ Append(session.chain, m.body) = Whole(m) /\ Len(Whole(m)) = 1
         /\ CanUnwrap(m) =>
              /\ session \in Sessions /\ session.active /\ m.pre = session.chain
              /\ m.key = session.key /\ Len(session.chain) = session.counter + 1
              /\ Unwrap(m) \in Sessions /\ Unwrap(m).chain = Whole(m) /\ Unwrap(m).key = session.key
              /\ Unwrap(m).counter = session.counter + 1 /\ Unwrap(m).active
              /\ Unwrap(m).level = session.level
              /\ Len(Whole(m)) = Len(session.chain) + 1
<1>1. m \in Wraps /\ m.body \in Kinds \cup {"auth"} /\ m.level \in Levels \cup {{}}
  BY DEF LinkInv, Wraps
<1>2. ASSUME CanAuthenticate(m)
      PROVE /\ session \in Sessions /\ m.key = session.key /\ m.pre = session.chain
            /\ session.chain = <<>> /\ session.counter = 0
  BY <1>2 DEF CanAuthenticate, MacOK, TypeOK, SessionInv
<1>3. ASSUME CanUnwrap(m)
      PROVE /\ session \in Sessions /\ m.key = session.key /\ m.pre = session.chain
            /\ session.active /\ session.counter < CounterMax
            /\ Len(session.chain) = session.counter + 1
  BY <1>3 DEF CanUnwrap, MacOK, TypeOK, SessionInv
<1>4. CASE CanAuthenticate(m)
  <2>1. Append(session.chain, m.body) \in Chains /\ Append(session.chain, m.body) = Whole(m)
        /\ Len(Whole(m)) = 1
    <3>1. Len(<<>>) = 0 /\ session.chain \in Chains
      BY <1>2, <1>4 DEF Sessions
    <3> QED BY <1>1, <1>2, <1>4, <3>1, AppendChain DEF Whole
  <2>2. [session EXCEPT !.chain = Append(@, m.body), !.level = m.level, !.active = TRUE] \in Sessions
    BY <1>1, <1>2, <1>4, <2>1 DEF Sessions
  <2>3. ~CanUnwrap(m)
    BY <1>4 DEF CanAuthenticate, CanUnwrap
  <2> QED BY <1>2, <1>4, <2>1, <2>2, <2>3
<1>5. CASE CanUnwrap(m)
  <2>1. Append(session.chain, m.body) \in Chains /\ Append(session.chain, m.body) = Whole(m)
        /\ Len(Whole(m)) = Len(session.chain) + 1
    <3>1. session.chain \in Chains
      BY <1>3, <1>5 DEF Sessions
    <3> QED BY <1>1, <1>3, <1>5, <3>1, AppendChain DEF Whole
  <2>2. session.counter + 1 \in 0 .. CounterMax
    BY <1>3, <1>5, EndpointConstants DEF Sessions
  <2>3. /\ Unwrap(m) \in Sessions /\ Unwrap(m).chain = Whole(m) /\ Unwrap(m).key = session.key
        /\ Unwrap(m).counter = session.counter + 1 /\ Unwrap(m).active
        /\ Unwrap(m).level = session.level
    BY <1>1, <1>3, <1>5, <2>1, <2>2 DEF Sessions, Unwrap
  <2>4. ~CanAuthenticate(m)
    BY <1>5 DEF CanAuthenticate, CanUnwrap
  <2> QED BY <1>3, <1>5, <2>1, <2>3, <2>4
<1> QED BY <1>4, <1>5

\* The parts of the invariant that only read the session, the history and the
\* link, and the steps' common facts.
CardInv == TypeOK /\ LinkInv /\ CounterInv /\ SessionInv /\ LogInv /\ IvInv /\ CommandsRunInOrder
Grown ==
  /\ wire \subseteq wire' /\ LinkInv'
  /\ issued' = issued \/ \E k \in Keys : issued' = Append(issued, k)

\* Every shape leaves a well-formed session whose chain the host has sent.
LEMMA SessionStep ==
  ASSUME CardInv, Grown,
         Keeps \/ Loses \/ Opens \/ Authenticates \/ Runs \/ Cancels
  PROVE  SessionInv' /\ session' \in Sessions \cup {None}
<1> USE DEF CardInv
<1>1. /\ Wrapped \subseteq Wrapped'
      /\ \A i \in 1 .. Len(issued) : i \in 1 .. Len(issued') /\ issued'[i] = issued[i]
  BY HistoryGrows DEF Grown
<1>2. CASE Keeps
  <2>1. session' = session /\ (session # None => session \in Sessions /\ session.key \in Keys)
    BY <1>2 DEF Keeps, TypeOK, Sessions
  <2> QED BY <1>1, <2>1 DEF SessionInv, TypeOK, WasIssued, WasSent
<1>3. CASE Loses \/ Cancels
  BY <1>3 DEF Loses, Cancels, SessionInv
<1>4. CASE Opens
  <2>1. PICK k \in Keys : session' = Initiate(k) /\ issued' = Append(issued, k)
    BY <1>4 DEF Opens
  <2>2. Len(issued) + 1 \in 1 .. Len(issued') /\ issued'[Len(issued) + 1] = k
    BY <2>1 DEF TypeOK
  <2>3. <<>> \in Chains
    BY DEF Chains
  <2>4. session' \in Sessions
    BY <2>1, <2>3, EndpointConstants DEF Initiate, Sessions
  <2> QED BY <2>1, <2>2, <2>4 DEF SessionInv, Initiate, WasIssued
<1>5. CASE Authenticates
  <2>1. PICK m \in Wrapped : CanAuthenticate(m) /\
            session' = [session EXCEPT !.chain = Append(@, m.body), !.level = m.level, !.active = TRUE]
    BY <1>5 DEF Authenticates
  <2>2. /\ session \in Sessions /\ session' \in Sessions /\ session.counter = 0
        /\ m.key = session.key /\ session # None
        /\ Append(session.chain, m.body) = Whole(m) /\ Len(Whole(m)) = 1
    BY <2>1, AcceptedSession DEF CanAuthenticate
  <2>3. /\ session'.chain = Whole(m) /\ session'.key = session.key /\ session'.counter = 0
        /\ session'.active /\ session.key \in Keys
    BY <2>1, <2>2 DEF Sessions
  <2>4. WasSent(session.key, session.chain)'
    BY <1>1, <2>2, <2>3 DEF WasSent
  <2>5. WasIssued(session.key)'
    BY <1>1, <2>2, <2>3 DEF SessionInv, WasIssued
  <2> QED BY <2>2, <2>3, <2>4, <2>5 DEF SessionInv
<1>6. CASE Runs
  <2>1. PICK m \in Wrapped : CanUnwrap(m) /\ session' = Unwrap(m)
    BY <1>6 DEF Runs, Respond
  <2>2. /\ session \in Sessions /\ session' \in Sessions /\ m.key = session.key /\ session # None
        /\ session'.chain = Whole(m) /\ session'.key = session.key
        /\ session'.counter = session.counter + 1 /\ session'.active
        /\ Len(Whole(m)) = Len(session.chain) + 1 /\ Len(session.chain) = session.counter + 1
    BY <2>1, AcceptedSession DEF CanUnwrap
  <2>3. WasSent(session.key, session.chain)'
    BY <1>1, <2>2 DEF WasSent
  <2>4. WasIssued(session.key)' /\ session.counter \in Nat
    <3>1. WasIssued(session.key) /\ session.counter \in Nat
      BY <2>2 DEF SessionInv, Sessions
    <3> QED BY <1>1, <2>2, <3>1 DEF WasIssued
  <2> QED BY <2>2, <2>3, <2>4 DEF SessionInv
<1> QED BY <1>2, <1>3, <1>4, <1>5, <1>6

\* A command the session accepts comes after exactly the commands of its chain.
LEMMA LogExtended ==
  ASSUME CardInv, NEW m \in Wrapped, CanUnwrap(m), log' = Append(log, m)
  PROVE  CommandsRunInOrder'
<1> USE DEF CardInv
<1>1. log \in Seq(Wrapped) /\ Len(log) \in Nat
  BY DEF LogInv
<1>2. /\ Len(log') = Len(log) + 1 /\ log'[Len(log) + 1] = m
      /\ \A i \in 1 .. Len(log) : log'[i] = log[i] /\ log[i] \in Wrapped
  BY <1>1
<1>3. /\ session # None /\ session.active /\ m.key = session.key /\ m.pre = session.chain
  BY AcceptedSession DEF CanUnwrap
<1>4. ASSUME NEW j \in 1 .. Len(log), log[j].key = m.key
      PROVE  Len(log[j].pre) < Len(m.pre) /\ Compatible(Whole(log[j]), m.pre)
  <2>1. PICK w \in Wrapped : w.key = session.key /\ Whole(w) = session.chain
    BY <1>3 DEF SessionInv, WasSent
  <2>2. Compatible(Whole(log[j]), Whole(w))
    BY <1>2, <1>3, <1>4, <2>1 DEF LinkInv
  <2> QED BY <1>3, <1>4, <2>1, <2>2 DEF LogInv
<1>5. ASSUME NEW p \in 2 .. Len(m.pre)
      PROVE  \E j \in 1 .. Len(log) : log[j].key = m.key /\ Len(log[j].pre) = p - 1
  BY <1>3, <1>5 DEF LogInv
<1>6. ASSUME NEW i \in 1 .. Len(log')
      PROVE /\ \A j \in 1 .. i - 1 : log'[j].key = log'[i].key =>
                 Len(log'[j].pre) < Len(log'[i].pre) /\ Compatible(Whole(log'[j]), log'[i].pre)
            /\ \A p \in 2 .. Len(log'[i].pre) :
                 \E j \in 1 .. i - 1 : log'[j].key = log'[i].key /\ Len(log'[j].pre) = p - 1
  <2>1. CASE i \in 1 .. Len(log)
    <3>1. \A j \in 1 .. i - 1 : j \in 1 .. Len(log)
      BY <1>1, <2>1
    <3>2. /\ \A j \in 1 .. i - 1 : log[j].key = log[i].key =>
               Len(log[j].pre) < Len(log[i].pre) /\ Compatible(Whole(log[j]), log[i].pre)
          /\ \A p \in 2 .. Len(log[i].pre) :
               \E j \in 1 .. i - 1 : log[j].key = log[i].key /\ Len(log[j].pre) = p - 1
      BY <2>1 DEF CommandsRunInOrder
    <3>3. log'[i] = log[i] /\ \A j \in 1 .. i - 1 : log'[j] = log[j]
      BY <1>2, <2>1, <3>1
    <3> QED BY <3>2, <3>3
  <2>2. CASE i = Len(log) + 1
    <3>1. i - 1 = Len(log) /\ log'[i] = m
      BY <1>1, <1>2, <2>2
    <3>2. \A j \in 1 .. i - 1 : log'[j].key = log'[i].key =>
            Len(log'[j].pre) < Len(log'[i].pre) /\ Compatible(Whole(log'[j]), log'[i].pre)
      BY <1>2, <1>4, <3>1
    <3>3. \A p \in 2 .. Len(log'[i].pre) :
            \E j \in 1 .. i - 1 : log'[j].key = log'[i].key /\ Len(log'[j].pre) = p - 1
      BY <1>2, <1>5, <3>1
    <3> QED BY <3>2, <3>3
  <2>3. i \in 1 .. Len(log) \/ i = Len(log) + 1
    BY <1>1, <1>2
  <2> QED BY <2>1, <2>2, <2>3
<1> QED BY <1>6 DEF CommandsRunInOrder

\* Every shape keeps the log in step with the open session.
LEMMA LogStep ==
  ASSUME CardInv, Grown,
         Keeps \/ Loses \/ Opens \/ Authenticates \/ Runs \/ Cancels
  PROVE  LogInv' /\ CommandsRunInOrder'
<1> USE DEF CardInv
<1>1. /\ Wrapped \subseteq Wrapped'
      /\ \A i \in 1 .. Len(issued) : i \in 1 .. Len(issued') /\ issued'[i] = issued[i]
  BY HistoryGrows DEF Grown
<1>2. log \in Seq(Wrapped) /\ Len(log) \in Nat /\ \A j \in 1 .. Len(log) : log[j] \in Wrapped
  BY DEF LogInv
<1>3. \A m \in Wrapped : m \in Wraps /\ m.key \in Keys
  BY DEF LinkInv, Wraps
<1>4. ASSUME log' = log
      PROVE  CommandsRunInOrder' /\ log' \in Seq(Wrapped') /\
             \A j \in 1 .. Len(log') : WasIssued(log[j].key)'
  <2>1. \A j \in 1 .. Len(log') : WasIssued(log[j].key)'
    BY <1>1, <1>2, <1>4 DEF LogInv, WasIssued
  <2>2. log \in Seq(Wrapped')
    BY <1>1, <1>2
  <2> QED BY <1>4, <2>1, <2>2 DEF CommandsRunInOrder
<1>5. ASSUME NEW m \in Wrapped, CanUnwrap(m), log' = Append(log, m)
      PROVE  CommandsRunInOrder' /\ log' \in Seq(Wrapped') /\
             \A j \in 1 .. Len(log') : WasIssued(log[j].key)'
  <2>1. CommandsRunInOrder'
    BY <1>5, LogExtended
  <2>2. m.key = session.key /\ session # None
    BY <1>5, AcceptedSession DEF CanUnwrap
  <2>3. WasIssued(m.key)
    BY <2>2 DEF SessionInv
  <2>4. log' \in Seq(Wrapped') /\ Len(log') = Len(log) + 1 /\ log'[Len(log) + 1] = m
        /\ \A i \in 1 .. Len(log) : log'[i] = log[i]
    BY <1>1, <1>2, <1>5
  <2>5. \A j \in 1 .. Len(log') : WasIssued(log'[j].key) /\ log'[j].key \in Keys
    BY <1>2, <1>3, <2>3, <2>4 DEF LogInv
  <2> QED BY <1>1, <2>1, <2>4, <2>5 DEF WasIssued
<1>6. CASE Keeps
  BY <1>4, <1>6 DEF Keeps, LogInv
<1>7. CASE Loses
  BY <1>4, <1>7 DEF Loses, LogInv
<1>8. CASE Cancels
  BY <1>5, <1>8 DEF Cancels, LogInv
<1>9. CASE Opens
  <2>1. PICK k \in Keys : NeverIssued(k[2]) /\ session' = Initiate(k) /\ log' = log
    BY <1>9 DEF Opens
  <2>2. \A j \in 1 .. Len(log) : log[j].key # k
    BY <2>1 DEF LogInv, WasIssued, NeverIssued
  <2>3. session'.key = k /\ session'.chain = <<>> /\ Len(<<>>) = 0
    BY <2>1 DEF Initiate
  <2>4. \A j \in 1 .. Len(log') : log'[j].key # session'.key
    BY <2>1, <2>2, <2>3
  <2>5. \A p \in 2 .. Len(session'.chain) : FALSE
    BY <2>3
  <2> QED BY <1>4, <2>1, <2>4, <2>5 DEF LogInv
<1>10. CASE Authenticates
  <2>1. PICK m \in Wrapped : CanAuthenticate(m) /\ log' = log /\
            session' = [session EXCEPT !.chain = Append(@, m.body), !.level = m.level, !.active = TRUE]
    BY <1>10 DEF Authenticates
  <2>2. /\ session # None /\ session.chain = <<>> /\ session \in Sessions
        /\ Append(session.chain, m.body) = Whole(m) /\ Len(Whole(m)) = 1
    BY <2>1, AcceptedSession DEF CanAuthenticate
  <2>3. session'.key = session.key /\ session'.chain = Whole(m)
    BY <2>1, <2>2 DEF Sessions
  <2>4. \A j \in 1 .. Len(log) : log[j].key # session.key
    <3>1. Len(<<>>) = 0 /\ \A j \in 1 .. Len(log) : Len(log[j].pre) \in Nat
      BY <1>2, <1>3, WholeChain
    <3> QED BY <2>2, <3>1 DEF LogInv
  <2>5. \A p \in 2 .. Len(session'.chain) : FALSE
    <3>1. Len(session'.chain) = 1
      BY <2>2, <2>3
    <3> QED BY <3>1
  <2>6. \A j \in 1 .. Len(log') : log'[j].key # session'.key
    BY <2>1, <2>3, <2>4
  <2> QED BY <1>4, <2>1, <2>5, <2>6 DEF LogInv
<1>11. CASE Runs
  <2>1. PICK m \in Wrapped : CanUnwrap(m) /\ session' = Unwrap(m) /\ log' = Append(log, m)
    BY <1>11 DEF Runs, Respond
  <2>2. /\ session # None /\ m.key = session.key /\ m.pre = session.chain
        /\ session'.chain = Whole(m) /\ session'.key = session.key
        /\ Len(Whole(m)) = Len(session.chain) + 1 /\ Len(session.chain) \in Nat
    BY <1>3, <2>1, AcceptedSession, WholeChain DEF CanUnwrap
  <2>3. Len(log') = Len(log) + 1 /\ log'[Len(log) + 1] = m
        /\ \A i \in 1 .. Len(log) : log'[i] = log[i]
    BY <1>2, <2>1
  <2>4. \A j \in 1 .. Len(log') : log'[j].key = session'.key =>
          Len(log'[j].pre) < Len(session'.chain)
    <3>1. \A j \in 1 .. Len(log) : Len(log[j].pre) \in Nat
      BY <1>2, <1>3, WholeChain
    <3>2. \A j \in 1 .. Len(log) : log[j].key = session.key => Len(log[j].pre) < Len(session.chain)
      BY <2>2 DEF LogInv
    <3>3. \A j \in 1 .. Len(log') : j \in 1 .. Len(log) \/ j = Len(log) + 1
      BY <1>2, <2>3
    <3> QED BY <2>2, <2>3, <3>1, <3>2, <3>3
  <2>5. ASSUME NEW p \in 2 .. Len(session'.chain)
        PROVE  \E j \in 1 .. Len(log') : log'[j].key = session'.key /\ Len(log'[j].pre) = p - 1
    <3>1. CASE p = Len(session.chain) + 1
      <4>1. Len(log) + 1 \in 1 .. Len(log')
        BY <1>2, <2>3
      <4>2. p - 1 = Len(session.chain)
        BY <2>2, <3>1
      <4> QED BY <2>2, <2>3, <4>1, <4>2
    <3>2. CASE p \in 2 .. Len(session.chain)
      <4>1. PICK j \in 1 .. Len(log) : log[j].key = session.key /\ Len(log[j].pre) = p - 1
        BY <2>2, <3>2 DEF LogInv
      <4>2. j \in 1 .. Len(log')
        BY <1>2, <2>3
      <4> QED BY <2>2, <2>3, <4>1, <4>2
    <3> QED BY <2>2, <3>1, <3>2
  <2> QED BY <1>5, <2>1, <2>4, <2>5 DEF LogInv
<1> QED BY <1>6, <1>7, <1>8, <1>9, <1>10, <1>11

\* Every encrypted response answers a command of the host, under its number.
LEMMA IvStep ==
  ASSUME CardInv, Grown,
         Keeps \/ Loses \/ Opens \/ Authenticates \/ Runs \/ Cancels
  PROVE  IvInv'
<1> USE DEF CardInv
<1>1. Wrapped \subseteq Wrapped'
  BY HistoryGrows DEF Grown
<1>2. CASE ivs' = ivs
  BY <1>1, <1>2 DEF IvInv, WasSent
<1>3. ASSUME NEW m \in Wrapped, CanUnwrap(m),
             ivs' = ivs \cup {[key |-> Unwrap(m).key, counter |-> Unwrap(m).counter,
                               chain |-> Unwrap(m).chain]}
      PROVE  IvInv'
  <2> DEFINE x == [key |-> Unwrap(m).key, counter |-> Unwrap(m).counter,
                   chain |-> Unwrap(m).chain]
  <2>1. /\ session \in Sessions /\ Unwrap(m) \in Sessions /\ m.key = session.key
        /\ Unwrap(m).chain = Whole(m) /\ Unwrap(m).key = session.key
        /\ Unwrap(m).counter = session.counter + 1
        /\ Len(Whole(m)) = Len(session.chain) + 1 /\ Len(session.chain) = session.counter + 1
    BY <1>3, AcceptedSession
  <2>2. x \in Ivs
    BY <2>1 DEF Sessions, Ivs
  <2>3. Len(x.chain) = x.counter + 1 /\ x.key = m.key /\ x.chain = Whole(m)
    BY <2>1
  <2>4. \A y \in ivs' : y \in ivs \/ y = x
    BY <1>3
  <2> HIDE DEF x
  <2>5. \A y \in ivs' : y \in Ivs
    BY <2>2, <2>4 DEF IvInv
  <2>6. \A y \in ivs' : Len(y.chain) = y.counter + 1 /\
                        \E w \in Wrapped' : w.key = y.key /\ Whole(w) = y.chain
    BY <1>1, <2>3, <2>4 DEF IvInv, WasSent
  <2> QED BY <2>5, <2>6 DEF IvInv, WasSent
<1>4. CASE Runs
  BY <1>2, <1>3, <1>4 DEF Runs, Respond
<1> QED BY <1>2, <1>4 DEF Keeps, Loses, Opens, Authenticates, Cancels

-----------------------------------------------------------------------------
(* Uploads and listings *)

\* Initially nothing is open, and dropping the cursor and the upload, or the
\* session with the cursor, leaves nothing to continue.
LEMMA NothingToContinue ==
  ASSUME cursor' = None, upload' = None \/ session' = None
  PROVE  ContinuationsAreContiguous'
BY DEF ContinuationsAreContiguous

\* What an accepted command leaves open is continued from this command.
LEMMA ContinuationRun ==
  ASSUME CardInv, ContinuationsAreContiguous, NEW m \in Wrapped, CanUnwrap(m),
         cursor \in Nat \cup {None}, upload \in Nat \cup {None},
         Dispatch(m.body), session' = Unwrap(m)
  PROVE  ContinuationsAreContiguous'
<1> USE DEF CardInv
<1>1. /\ session # None /\ session \in Sessions /\ session.active /\ m.pre = session.chain
      /\ session'.active /\ session'.level = session.level
      /\ session'.chain = Append(session.chain, m.body)
      /\ m.body \in Kinds \cup {"auth"} /\ session.chain \in Chains
      /\ Len(session.chain) \in Nat /\ Len(session.chain) >= 1
  <2>1. m.body \in Kinds \cup {"auth"}
    BY DEF LinkInv, Wraps
  <2>2. /\ session # None /\ session \in Sessions /\ session.active /\ m.pre = session.chain
        /\ Unwrap(m).chain = Whole(m) /\ Unwrap(m).active /\ Unwrap(m).level = session.level
        /\ Len(session.chain) = session.counter + 1
    BY AcceptedSession DEF CanUnwrap
  <2>3. session.counter \in Nat /\ session.chain \in Chains
    BY <2>2 DEF Sessions
  <2> QED BY <2>1, <2>2, <2>3 DEF Whole
<1> DEFINE c == session.chain
           d == session'.chain
<1>2. /\ Len(d) = Len(c) + 1 /\ d[Len(c) + 1] = m.body
      /\ \A i \in 1 .. Len(c) : d[i] = c[i]
  BY <1>1, AppendChain
<1>3. MayManage' <=> MayManage
  BY <1>1 DEF MayManage
<1> HIDE DEF c, d
<1>4. ASSUME upload' # None
      PROVE  /\ MayManage
             /\ Len(d) - upload' > 1 /\ d[Len(d) - upload'] = "load"
             /\ \A i \in Len(d) - upload' + 1 .. Len(d) : d[i] = "block"
  <2>1. CASE m.body = "load"
    <3>1. upload' = 0 /\ MayManage
      BY <1>4, <2>1 DEF Dispatch
    <3> QED BY <1>1, <1>2, <2>1, <3>1 DEF c
  <2>2. CASE m.body = "block"
    <3>1. (upload # None /\ MayManage /\ upload' = upload + 1) \/ (upload' = upload /\ ~MayManage)
      BY <1>4, <2>2 DEF Dispatch, Receive
    <3>2. /\ upload # None /\ MayManage /\ upload \in Nat
          /\ Len(c) - upload > 1 /\ c[Len(c) - upload] = "load"
          /\ \A i \in Len(c) - upload + 1 .. Len(c) : c[i] = "block"
      BY <1>1, <1>4, <3>1 DEF ContinuationsAreContiguous, c
    <3>3. upload' = upload + 1 /\ Len(d) - upload' = Len(c) - upload /\ Len(c) \in Nat
      BY <1>1, <1>2, <3>1, <3>2 DEF c
    <3>4. Len(c) - upload \in 1 .. Len(c)
      BY <3>2, <3>3
    <3>5. \A i \in Len(d) - upload' + 1 .. Len(d) : d[i] = "block"
      BY <1>2, <2>2, <3>2, <3>3, <3>4
    <3> QED BY <1>2, <3>2, <3>3, <3>4, <3>5
  <2>3. CASE m.body \notin {"load", "block"}
    BY <1>4, <2>3 DEF Dispatch
  <2> QED BY <2>1, <2>2, <2>3
<1>5. ASSUME cursor' # None
      PROVE  /\ MayManage
             /\ \E i \in 2 .. Len(d) : d[i] \in {"list", "next"} /\
                                       \A j \in i + 1 .. Len(d) : d[j] = "bootldr"
  <2>1. CASE m.body = "bootldr"
    <3>1. cursor' = cursor
      BY <2>1 DEF Dispatch
    <3>2. MayManage /\ \E i \in 2 .. Len(c) : c[i] \in {"list", "next"} /\
                                              \A j \in i + 1 .. Len(c) : c[j] = "bootldr"
      BY <1>5, <3>1 DEF ContinuationsAreContiguous, c
    <3>3. PICK i \in 2 .. Len(c) : c[i] \in {"list", "next"} /\
                                   \A j \in i + 1 .. Len(c) : c[j] = "bootldr"
      BY <3>2
    <3>4. Len(c) \in Nat
      BY <1>1 DEF c
    <3>5. i \in 2 .. Len(d) /\ d[i] = c[i] /\ i \in 1 .. Len(c)
      BY <1>2, <3>4
    <3>6. \A j \in i + 1 .. Len(d) : d[j] = "bootldr"
      BY <1>2, <2>1, <3>3, <3>4
    <3> QED BY <3>2, <3>3, <3>5, <3>6
  <2>2. CASE m.body \in {"list", "next"}
    <3>1. MayManage
      <4>1. CASE ~MayManage
        <5>1. CASE m.body = "list"
          <6>1. cursor' = cursor
            BY <4>1, <5>1 DEF Dispatch
          <6> QED BY <1>5, <6>1 DEF ContinuationsAreContiguous
        <5>2. CASE m.body = "next"
          <6>1. cursor' = cursor
            BY <4>1, <5>2 DEF Dispatch
          <6> QED BY <1>5, <6>1 DEF ContinuationsAreContiguous
        <5> QED BY <2>2, <5>1, <5>2
      <4> QED BY <4>1
    <3>2. Len(d) \in 2 .. Len(d) /\ d[Len(d)] = m.body /\ \A j \in Len(d) + 1 .. Len(d) : FALSE
      BY <1>1, <1>2 DEF c
    <3> QED BY <2>2, <3>1, <3>2
  <2>3. CASE m.body \notin {"list", "next", "bootldr"}
    BY <1>5, <2>3 DEF Dispatch
  <2> QED BY <2>1, <2>2, <2>3
<1>6. session' # None
  BY AcceptedSession, NoneIsNothing
<1> QED BY <1>1, <1>3, <1>4, <1>5, <1>6 DEF ContinuationsAreContiguous, d

\* Every step keeps the type of cursor, upload and board request, and continues
\* an upload or a listing only from where the session left it.
LEMMA ContinuationStep ==
  ASSUME CardInv, ContinuationsAreContiguous, Next
  PROVE  /\ ContinuationsAreContiguous'
         /\ cursor' \in Nat \cup {None} /\ upload' \in Nat \cup {None} /\ boot' \in BOOLEAN
<1> DEFINE Goal == /\ ContinuationsAreContiguous'
                   /\ cursor' \in Nat \cup {None} /\ upload' \in Nat \cup {None} /\ boot' \in BOOLEAN
<1>0. cursor \in Nat \cup {None} /\ upload \in Nat \cup {None} /\ boot \in BOOLEAN
  BY DEF CardInv, TypeOK
<1>1. CASE HostOpen \/ HostAuthenticate \/ \E c \in Kinds : HostSend(c)
  <2>1. UNCHANGED <<session, cursor, upload, boot>>
    BY <1>1 DEF HostOpen, HostAuthenticate, HostSend
  <2> QED BY <1>0, <2>1 DEF ContinuationsAreContiguous, MayManage
<1>2. CASE DropSession \/ PlainCommand \/ PowerCycle
  <2>1. cursor' = None /\ upload' = None /\ boot' \in BOOLEAN
    BY <1>0, <1>2 DEF DropSession, PlainCommand, PowerCycle, Reset
  <2> QED BY <1>0, <2>1, NothingToContinue
<1>3. CASE \E m \in wire : Deliver(m)
  <2>1. PICK m \in wire : Deliver(m)
    BY <1>3
  <2>2. CASE InitializeUpdate(m) \/ ExecuteFails(m) \/ Reject(m)
    <3>1. cursor' = None /\ upload' = None /\ boot' = boot
      BY <2>2 DEF InitializeUpdate, RestartSecureChannel, ExecuteFails, Reject, Reset
    <3> QED BY <1>0, <3>1, NothingToContinue
  <2>3. CASE ExternalAuthenticate(m)
    <3>1. CASE CanAuthenticate(m)
      <4>1. cursor' = None /\ upload' = upload /\ boot' = boot
        BY <2>3, <3>1 DEF ExternalAuthenticate
      <4>2. upload = None
        BY <3>1 DEF CanAuthenticate, ContinuationsAreContiguous
      <4> QED BY <1>0, <4>1, <4>2, NothingToContinue
    <3>2. CASE ~CanAuthenticate(m)
      <4>1. cursor' = None /\ upload' = None /\ boot' = boot
        BY <2>3, <3>2 DEF ExternalAuthenticate, Reset
      <4> QED BY <1>0, <4>1, NothingToContinue
    <3> QED BY <3>1, <3>2
  <2>4. CASE Execute(m)
    <3>1. m \in Wrapped /\ CanUnwrap(m) /\ Dispatch(m.body)
      BY <2>4 DEF Execute, Wrapped
    <3>2. boot' \in BOOLEAN
      BY <1>0, <3>1 DEF Dispatch
    <3>3. upload' \in Nat \cup {None}
      <4>1. upload' \in {upload, 0, None} \/ (upload # None /\ upload' = upload + 1)
        BY <3>1 DEF Dispatch, Receive
      <4>2. upload # None => upload + 1 \in Nat
        BY <1>0
      <4> QED BY <1>0, <4>1, <4>2
    <3>4. cursor' \in Nat \cup {None}
      <4>1. CASE m.body \in {"list", "next"}
        <5>1. cursor' = cursor \/ ListFirst \/ ListNext
          BY <3>1, <4>1 DEF Dispatch
        <5> QED BY <1>0, <5>1 DEF ListFirst, ListNext
      <4>2. CASE m.body \notin {"list", "next"}
        BY <1>0, <3>1, <4>2 DEF Dispatch
      <4> QED BY <4>1, <4>2
    <3>5. CASE Respond(Unwrap(m))
      <4>1. session' = Unwrap(m)
        BY <3>5 DEF Respond
      <4>2. ContinuationsAreContiguous'
        BY <1>0, <3>1, <4>1, ContinuationRun
      <4> QED BY <3>2, <3>3, <3>4, <4>2
    <3>6. CASE SecurityReset(m.body)
      <4>1. session' = None /\ cursor' = None
        BY <3>1, <3>6 DEF SecurityReset, Dispatch
      <4>2. ContinuationsAreContiguous'
        BY <4>1, NothingToContinue
      <4> QED BY <3>2, <3>3, <3>4, <4>2
    <3> QED BY <2>4, <3>5, <3>6 DEF Execute
  <2> QED BY <2>1, <2>2, <2>3, <2>4 DEF Deliver
<1> QED BY <1>1, <1>2, <1>3 DEF Next

-----------------------------------------------------------------------------
(* The theorems *)

\* Initially nothing was sent, issued or run.
LEMMA EndpointInit == Init => EndpointInv
<1> SUFFICES ASSUME Init PROVE EndpointInv
  OBVIOUS
<1> USE EndpointConstants DEF Init
<1>1. TypeOK
  <2>1. <<>> \in Chains /\ <<>> \in Seq(Keys)
    BY DEF Chains
  <2>2. /\ hostH \in 0 .. MaxSessions /\ reserved \in 0 .. SeqCeiling /\ faults \in 0 .. MaxFaults
    OBVIOUS
  <2>3. storeOK \in BOOLEAN /\ boot \in BOOLEAN /\ window \subseteq 1 .. SeqCeiling
    OBVIOUS
  <2> QED BY <2>1, <2>2, <2>3 DEF TypeOK
<1>2. LinkInv
  BY DEF LinkInv, Wrapped
<1>3. CounterInv
  <2>1. 1 \in 1 .. reserved + 1 /\ window = 1 .. reserved /\ Len(issued) = 0
    OBVIOUS
  <2> QED BY <2>1 DEF CounterInv, ChallengesNeverRepeat
<1>4. SessionInv /\ IvInv
  BY DEF SessionInv, IvInv
<1>5. LogInv /\ CommandsRunInOrder
  <2>1. Len(log) = 0 /\ log \in Seq(Wrapped)
    OBVIOUS
  <2> QED BY <2>1 DEF LogInv, CommandsRunInOrder
<1>6. ContinuationsAreContiguous
  BY DEF ContinuationsAreContiguous
<1> QED BY <1>1, <1>2, <1>3, <1>4, <1>5, <1>6 DEF EndpointInv

\* Every step of the host, the link and the card preserves the invariant.
LEMMA EndpointInductive == EndpointInv /\ [Next]_vars => EndpointInv'
<1> SUFFICES ASSUME EndpointInv, [Next]_vars PROVE EndpointInv'
  OBVIOUS
<1>1. CardInv /\ ContinuationsAreContiguous
  BY DEF EndpointInv, CardInv
<1>2. CASE Next
  <2>1. /\ Keeps \/ Loses \/ Opens \/ Authenticates \/ Runs \/ Cancels
        /\ LinkInv' /\ wire \subseteq wire' /\ CounterInv'
        /\ hostH' \in 0 .. MaxSessions /\ hostKey' \in Keys \cup {None} /\ hostChain' \in Chains
        /\ reserved' \in 0 .. SeqCeiling /\ window' \subseteq 1 .. SeqCeiling
        /\ storeOK' \in BOOLEAN /\ faults' \in 0 .. MaxFaults /\ issued' \in Seq(Keys)
    BY <1>1, <1>2, StepShapes DEF CardInv
  <2>2. Grown
    BY <2>1 DEF Grown, Keeps, Loses, Opens, Authenticates, Runs, Cancels
  <2>3. SessionInv' /\ session' \in Sessions \cup {None}
    BY <1>1, <2>1, <2>2, SessionStep
  <2>4. LogInv' /\ CommandsRunInOrder' /\ IvInv'
    BY <1>1, <2>1, <2>2, LogStep, IvStep
  <2>5. /\ ContinuationsAreContiguous'
        /\ cursor' \in Nat \cup {None} /\ upload' \in Nat \cup {None} /\ boot' \in BOOLEAN
    BY <1>1, <1>2, ContinuationStep
  <2>6. TypeOK'
    BY <2>1, <2>3, <2>5 DEF TypeOK
  <2> QED BY <2>1, <2>3, <2>4, <2>5, <2>6 DEF EndpointInv
<1>3. CASE UNCHANGED vars
  <2> USE <1>1, <1>3 DEF vars, CardInv
  <2>1. TypeOK'
    BY DEF TypeOK
  <2>2. Wrapped' = Wrapped
    BY DEF Wrapped
  <2>3. LinkInv'
    BY <2>2 DEF LinkInv
  <2>4. CounterInv'
    BY DEF CounterInv, ChallengesNeverRepeat
  <2>5. SessionInv'
    BY <2>2 DEF SessionInv, WasIssued, WasSent
  <2>6. LogInv' /\ CommandsRunInOrder'
    BY <2>2 DEF LogInv, WasIssued, CommandsRunInOrder
  <2>7. IvInv'
    BY <2>2 DEF IvInv, WasSent
  <2>8. ContinuationsAreContiguous'
    BY DEF ContinuationsAreContiguous, MayManage
  <2> QED BY <2>1, <2>3, <2>4, <2>5, <2>6, <2>7, <2>8 DEF EndpointInv
<1> QED BY <1>2, <1>3

\* The inductive invariant of the dispatcher, the secure channel and the link
\* holds in every reachable state.
THEOREM EndpointInvariantHolds == Spec => []EndpointInv
BY EndpointInit, EndpointInductive, PTL DEF Spec

\* However often the link replays INITIALIZE UPDATE, commits fail and power is
\* lost, no value of the challenge counter is issued twice.
THEOREM EndpointChallengesNeverRepeat == Spec => []ChallengesNeverRepeat
<1>1. EndpointInv => ChallengesNeverRepeat
  BY DEF EndpointInv, CounterInv
<1> QED BY <1>1, EndpointInvariantHolds, PTL

\* Wrapped commands run at most once each and in the order the host chained
\* them, for any number of sessions and any replay or reordering.
THEOREM EndpointCommandsRunInOrder == Spec => []CommandsRunInOrder
<1>1. EndpointInv => CommandsRunInOrder
  BY DEF EndpointInv
<1> QED BY <1>1, EndpointInvariantHolds, PTL

\* No response counter block is used for two responses of one session key.
THEOREM EndpointResponseIvsNeverRepeat == Spec => []ResponseIvsNeverRepeat
<1>1. EndpointInv => ResponseIvsNeverRepeat
  <2> SUFFICES ASSUME EndpointInv PROVE ResponseIvsNeverRepeat
    OBVIOUS
  <2>1. \A x \in ivs : x \in Ivs /\ Len(x.chain) = x.counter + 1 /\ WasSent(x.key, x.chain)
    BY DEF EndpointInv, IvInv
  <2>2. ASSUME NEW x \in ivs, NEW y \in ivs, x.key = y.key, x.counter = y.counter
        PROVE  x = y
    <3>1. x.chain \in Chains /\ y.chain \in Chains /\ Len(x.chain) = Len(y.chain)
      BY <2>1, <2>2 DEF Ivs
    <3>2. PICK m \in Wrapped : m.key = x.key /\ Whole(m) = x.chain
      BY <2>1 DEF WasSent
    <3>3. PICK n \in Wrapped : n.key = y.key /\ Whole(n) = y.chain
      BY <2>1 DEF WasSent
    <3>4. Compatible(x.chain, y.chain)
      BY <2>2, <3>2, <3>3 DEF EndpointInv, LinkInv
    <3>5. x.chain = y.chain
      BY <3>1, <3>4, SameChain
    <3> QED BY <2>1, <2>2, <3>5 DEF Ivs
  <2>3. \A x \in ivs : x.counter = Len(x.chain) - 1
    BY <2>1, EndpointConstants DEF Ivs
  <2> QED BY <2>2, <2>3 DEF ResponseIvsNeverRepeat, EndpointInv
<1> QED BY <1>1, EndpointInvariantHolds, PTL

\* An upload or a listing is continued only by the session that began it.
THEOREM EndpointContinuationsAreContiguous == Spec => []ContinuationsAreContiguous
<1>1. EndpointInv => ContinuationsAreContiguous
  BY DEF EndpointInv
<1> QED BY <1>1, EndpointInvariantHolds, PTL
=============================================================================
