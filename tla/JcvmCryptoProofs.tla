-------------------------- MODULE JcvmCryptoProofs --------------------------
(***************************************************************************)
(* Proofs about the native security objects (module JcvmCrypto), for any   *)
(* applet, number of objects, block size and message length, whatever      *)
(* transactions are aborted, PIN checkpoints saved in the middle of them,  *)
(* and whenever power is cut: no pseudo-random value is drawn twice, every *)
(* record saved loads again, and streams keep every byte of their message. *)
(***************************************************************************)
EXTENDS JcvmCrypto, FiniteSetTheorems, WellFoundedInduction, TLAPS

USE DEF NoTx

-----------------------------------------------------------------------------
(* The inductive invariant *)

IsSeq(h) == \E S : h \in Seq(S)

\* An object is a record of its words and arrays.
Shaped(o) ==
  o = [cls |-> o.cls, kind |-> o.kind, size |-> o.size, mat |-> o.mat, ready |-> o.ready,
       mode |-> o.mode, pend |-> o.pend, data |-> o.data, buf |-> o.buf]

\* A key pair whose constructor has run names two keys.
PairsJoined(h) ==
  \A p \in DOMAIN h :
    h[p].cls = "pair" /\ h[p].kind # 0 => h[p].mat \in Keys(h) /\ h[p].pend \in Keys(h)

WellFormed(h) == IsSeq(h) /\ (\A i \in DOMAIN h : Shaped(h[i])) /\ PairsJoined(h)

\* Chains start from different tokens that were drawn before.
Chains == [seed : Nat, n : Nat]
ChainsDrawn(h) ==
  \A i \in DOMAIN h : Pseudo(h[i]) => h[i].data \in Chains /\ h[i].data.seed <= token
ChainsApart(h) ==
  \A i, j \in DOMAIN h : Pseudo(h[i]) /\ Pseudo(h[j]) /\ h[i].data.seed = h[j].data.seed => i = j

\* The chains of heap h are past the values s that were drawn from them.
Beyond(h, s) ==
  \A i \in DOMAIN h, k \in DOMAIN s :
    Pseudo(h[i]) /\ h[i].data.seed = s[k].seed => s[k].n <= h[i].data.n

\* A heap that may go on drawing after the values s.
Sound(h, s) == WellFormed(h) /\ ChainsDrawn(h) /\ ChainsApart(h) /\ Beyond(h, s)

\* A pseudo-random source of the snapshot t is one of the heap.
Covers(h, t) ==
  WellFormed(t) /\ Len(t) <= Len(h) /\ \A i \in DOMAIN t : Pseudo(t[i]) => Pseudo(h[i])

Drawn == prng.sent \o prng.drawn

HistoryInv ==
  /\ prng = [drawn |-> prng.drawn, sent |-> prng.sent]
  /\ prng.sent \in Seq(Chains) /\ prng.drawn \in Seq(Chains) /\ token \in Nat
  /\ \A k \in DOMAIN Drawn : Drawn[k].seed <= token

CryptoInv ==
  /\ HistoryInv /\ PseudoNeverRepeats
  /\ Sound(heap, Drawn) /\ Sound(flash, prng.sent)
  /\ tx # NoTx => Covers(heap, tx[1])

-----------------------------------------------------------------------------
(* Sequences of objects *)

\* The domain of a heap.
LEMMA SeqDomain ==
  ASSUME NEW h, IsSeq(h)
  PROVE  DOMAIN h = 1 .. Len(h) /\ Len(h) \in Nat
BY DEF IsSeq

\* A heap with one object replaced.
LEMMA PutSeq ==
  ASSUME NEW h, IsSeq(h), NEW i \in DOMAIN h, NEW o
  PROVE  LET g == [h EXCEPT ![i] = o] IN
         /\ IsSeq(g) /\ DOMAIN g = DOMAIN h /\ Len(g) = Len(h)
         /\ g[i] = o /\ \A j \in DOMAIN h : j # i => g[j] = h[j]
<1> DEFINE g == [h EXCEPT ![i] = o]
<1>1. PICK S : h \in Seq(S)
  BY DEF IsSeq
<1>2. g \in Seq(S \cup {o}) /\ Len(g) = Len(h)
  BY <1>1
<1> QED BY <1>1, <1>2 DEF IsSeq

\* A heap with one object more.
LEMMA AppendSeq ==
  ASSUME NEW h, IsSeq(h), NEW o
  PROVE  LET g == Append(h, o) IN
         /\ IsSeq(g) /\ DOMAIN g = DOMAIN h \cup {Len(h) + 1} /\ Len(g) = Len(h) + 1
         /\ g[Len(h) + 1] = o /\ \A j \in DOMAIN h : g[j] = h[j]
<1> DEFINE g == Append(h, o)
<1>1. PICK S : h \in Seq(S)
  BY DEF IsSeq
<1>2. h \in Seq(S \cup {o})
  BY <1>1
<1>3. g \in Seq(S \cup {o}) /\ Len(g) = Len(h) + 1
  BY <1>2
<1> QED BY <1>2, <1>3 DEF IsSeq

\* A heap rewritten object by object.
LEMMA MapSeq ==
  ASSUME NEW h, IsSeq(h), NEW g, DOMAIN g = DOMAIN h, g = [i \in DOMAIN h |-> g[i]]
  PROVE  IsSeq(g) /\ Len(g) = Len(h)
<1>1. DOMAIN h = 1 .. Len(h) /\ Len(h) \in Nat
  BY SeqDomain
<1> DEFINE S == {g[i] : i \in DOMAIN h}
<1>2. g \in Seq(S)
  BY <1>1
<1>3. Len(g) = Len(h)
  BY <1>1, <1>2
<1> QED BY <1>2, <1>3 DEF IsSeq

-----------------------------------------------------------------------------
(* Steps that draw nothing *)

\* Heap g has the pseudo-random sources of heap h, where they stood.
Kept(h, g) ==
  /\ WellFormed(g) /\ Len(h) <= Len(g)
  /\ \A i \in DOMAIN g : Pseudo(g[i]) => i \in DOMAIN h /\ Pseudo(h[i]) /\ g[i].data = h[i].data
  /\ \A i \in DOMAIN h : Pseudo(h[i]) => Pseudo(g[i])

\* An object is rewritten that is no chain, or keeps it.
LEMMA PutKept ==
  ASSUME NEW h, WellFormed(h), NEW i \in DOMAIN h, NEW o, Shaped(o), o.cls = h[i].cls,
         o.cls = "random" => o.kind = h[i].kind /\ o.data = h[i].data,
         o.cls = "pair" /\ o.kind # 0 => o.mat \in Keys(h) /\ o.pend \in Keys(h),
         NEW g, g = [h EXCEPT ![i] = o]
  PROVE  Kept(h, g)
<1>1. /\ IsSeq(g) /\ DOMAIN g = DOMAIN h /\ Len(g) = Len(h) /\ Len(h) \in Nat
      /\ g[i] = o /\ \A j \in DOMAIN h : j # i => g[j] = h[j]
  <2>1. IsSeq(h)
    BY DEF WellFormed
  <2> QED BY <2>1, PutSeq, SeqDomain
<1>2. Keys(g) = Keys(h)
  BY <1>1 DEF Keys
<1>3. PairsJoined(g)
  BY <1>1, <1>2 DEF PairsJoined, WellFormed
<1>4. WellFormed(g)
  BY <1>1, <1>3 DEF WellFormed
<1> QED BY <1>1, <1>4 DEF Kept, Pseudo

\* An object is added that is no chain, and no joined pair.
LEMMA AppendKept ==
  ASSUME NEW h, WellFormed(h), NEW o, Shaped(o), ~Pseudo(o), o.cls # "pair" \/ o.kind = 0,
         NEW g, g = Append(h, o)
  PROVE  Kept(h, g) /\ Keys(h) \subseteq Keys(g)
<1>1. /\ IsSeq(g) /\ DOMAIN g = DOMAIN h \cup {Len(h) + 1} /\ Len(g) = Len(h) + 1
      /\ g[Len(h) + 1] = o /\ \A j \in DOMAIN h : g[j] = h[j]
  <2>1. IsSeq(h)
    BY DEF WellFormed
  <2> QED BY <2>1, AppendSeq
<1>2. Keys(h) \subseteq Keys(g)
  BY <1>1 DEF Keys
<1>3. PairsJoined(g)
  BY <1>1, <1>2 DEF PairsJoined, WellFormed
<1>4. WellFormed(g)
  BY <1>1, <1>3 DEF WellFormed
<1>5. Len(h) \in Nat
  BY SeqDomain DEF WellFormed
<1> QED BY <1>1, <1>2, <1>4, <1>5 DEF Kept

\* Objects rewritten in place keep the heap well formed.
LEMMA MapWellFormed ==
  ASSUME NEW h, WellFormed(h), NEW g, DOMAIN g = DOMAIN h, g = [i \in DOMAIN h |-> g[i]],
         \A i \in DOMAIN h : /\ Shaped(g[i]) /\ g[i].cls = h[i].cls
                             /\ h[i].cls = "pair" =>
                                  g[i].kind = h[i].kind /\ g[i].mat = h[i].mat /\ g[i].pend = h[i].pend
  PROVE  WellFormed(g) /\ Len(g) = Len(h)
<1>1. IsSeq(g) /\ Len(g) = Len(h)
  BY MapSeq DEF WellFormed
<1>2. Keys(g) = Keys(h)
  BY DEF Keys
<1>3. PairsJoined(g)
  BY <1>2 DEF PairsJoined, WellFormed
<1> QED BY <1>1, <1>3 DEF WellFormed

\* One sequence after another.
LEMMA Concatenated ==
  ASSUME NEW S, NEW a \in Seq(S), NEW b \in Seq(S)
  PROVE  /\ a \o b \in Seq(S) /\ Len(a \o b) = Len(a) + Len(b)
         /\ DOMAIN (a \o b) = 1 .. Len(a \o b) /\ \A k \in DOMAIN (a \o b) : (a \o b)[k] \in S
         /\ \A k \in DOMAIN a : k \in DOMAIN (a \o b) /\ (a \o b)[k] = a[k]
         /\ \A k \in DOMAIN b : (a \o b)[Len(a) + k] = b[k]
<1> DEFINE c == a \o b
<1>1. c \in Seq(S) /\ Len(c) = Len(a) + Len(b)
  OBVIOUS
<1>2. \A k \in 1 .. Len(c) : c[k] \in S
  <2> HIDE DEF c
  <2> QED BY <1>1
<1>3. \A k \in 1 .. Len(a) : k \in 1 .. Len(c) /\ c[k] = a[k]
  BY <1>1
<1>4. \A k \in 1 .. Len(b) : c[Len(a) + k] = b[k]
  BY <1>1
<1> QED BY <1>1, <1>2, <1>3, <1>4

\* The history is one sequence of values.
LEMMA DrawnType ==
  ASSUME HistoryInv
  PROVE  /\ Drawn \in Seq(Chains) /\ Len(Drawn) = Len(prng.sent) + Len(prng.drawn)
         /\ DOMAIN Drawn = 1 .. Len(Drawn) /\ \A k \in DOMAIN Drawn : Drawn[k] \in Chains
         /\ \A k \in DOMAIN prng.sent : k \in DOMAIN Drawn /\ Drawn[k] = prng.sent[k]
BY Concatenated DEF HistoryInv, Drawn

\* Tokens already drawn stay drawn.
LEMMA DrawnLater ==
  ASSUME CryptoInv, token' \in Nat, token <= token',
         NEW h, \A i \in DOMAIN h : Pseudo(h[i]) => h[i].data \in Chains /\ h[i].data.seed <= token
  PROVE  \A i \in DOMAIN h : Pseudo(h[i]) => h[i].data \in Chains /\ h[i].data.seed <= token'
BY DEF CryptoInv, HistoryInv, Chains

\* The pseudo-random sources of g are sources of h, with the same chains.
Within(h, g) ==
  /\ WellFormed(g)
  /\ \A i \in DOMAIN g : Pseudo(g[i]) => i \in DOMAIN h /\ Pseudo(h[i]) /\ g[i].data = h[i].data

\* A heap with the chains of another goes on where that one would.
LEMMA WithinSound ==
  ASSUME NEW h, NEW g, NEW s, Sound(h, s), Within(h, g)
  PROVE  Sound(g, s)
<1>1. ChainsDrawn(g)
  BY DEF Sound, Within, ChainsDrawn
<1>2. ChainsApart(g)
  BY DEF Sound, Within, ChainsApart
<1>3. Beyond(g, s)
  BY DEF Sound, Within, Beyond
<1> QED BY <1>1, <1>2, <1>3 DEF Sound, Within

\* In particular one with the same chains.
LEMMA KeptSound ==
  ASSUME NEW h, NEW g, NEW s, Sound(h, s), Kept(h, g)
  PROVE  Sound(g, s)
<1>1. Within(h, g)
  BY DEF Within, Kept
<1> QED BY <1>1, WithinSound

\* So it covers the snapshots the other one covers.
LEMMA KeptCovers ==
  ASSUME NEW h, WellFormed(h), NEW g, NEW t, Covers(h, t), Kept(h, g)
  PROVE  Covers(g, t)
<1>1. /\ DOMAIN h = 1 .. Len(h) /\ Len(h) \in Nat /\ Len(g) \in Nat
      /\ DOMAIN t = 1 .. Len(t) /\ Len(t) \in Nat
  BY SeqDomain DEF Kept, WellFormed, Covers
<1>2. \A i \in DOMAIN t : i \in DOMAIN h
  BY <1>1 DEF Covers
<1>3. Len(t) <= Len(g)
  BY <1>1 DEF Covers, Kept
<1> QED BY <1>2, <1>3 DEF Covers, Kept

\* A call that leaves the chains alone.
LEMMA QuietStep ==
  ASSUME CryptoInv, Kept(heap, heap'), UNCHANGED <<tx, flash, prng>>,
         token' \in Nat, token <= token'
  PROVE  CryptoInv'
<1>1. HistoryInv'
  <2>1. Drawn' = Drawn
    BY DEF Drawn
  <2>2. \A k \in DOMAIN Drawn : Drawn[k].seed \in Nat
    BY DrawnType DEF CryptoInv, Chains
  <2> QED BY <2>1, <2>2 DEF CryptoInv, HistoryInv
<1>2. PseudoNeverRepeats'
  BY DEF CryptoInv, PseudoNeverRepeats
<1>3. Sound(heap', Drawn)
  BY KeptSound DEF CryptoInv
<1>4. ChainsDrawn(heap)' /\ ChainsDrawn(flash)'
  BY <1>3, DrawnLater DEF CryptoInv, Sound, ChainsDrawn
<1> QED BY <1>1, <1>2, <1>3, <1>4, KeptCovers DEF CryptoInv, Sound, Drawn

\* Object o may replace object i: it is of the same class and keeps its chain.
MayReplace(i, o) ==
  /\ i \in DOMAIN heap /\ Shaped(o) /\ o.cls = heap[i].cls
  /\ o.cls = "random" => o.kind = heap[i].kind /\ o.data = heap[i].data
  /\ o.cls = "pair" /\ o.kind # 0 => o.mat \in Keys(heap) /\ o.pend \in Keys(heap)

\* Nothing is drawn, saved or rolled back.
Quiet == UNCHANGED <<tx, flash, prng>> /\ token' = token

\* Replacing an object is such a call.
LEMMA PutStep ==
  ASSUME CryptoInv, Quiet, NEW i, NEW o, MayReplace(i, o), Put(i, o)
  PROVE  CryptoInv'
<1>1. Kept(heap, heap')
  BY PutKept DEF MayReplace, Put, CryptoInv, Sound
<1>2. token \in Nat
  BY DEF CryptoInv, HistoryInv
<1> QED BY <1>1, <1>2, QuietStep DEF Quiet

\* The bytes of a key are replaced, its words are not.
LEMMA ContentsShape ==
  ASSUME NEW o, Shaped(o), NEW c
  PROVE  /\ Shaped(WithContents(o, c)) /\ WithContents(o, c).cls = o.cls
         /\ WithContents(o, c).kind = o.kind
BY DEF Shaped, WithContents

\* Every object of the heap is a record.
LEMMA ObjectShape ==
  ASSUME CryptoInv, NEW i \in DOMAIN heap
  PROVE  Shaped(heap[i])
BY DEF CryptoInv, Sound, WellFormed

\* Changing one field of an object.
LEMMA EditField ==
  ASSUME NEW o, Shaped(o), NEW v
  PROVE  /\ Shaped([o EXCEPT !.kind = v]) /\ [o EXCEPT !.kind = v].cls = o.cls
         /\ Shaped([o EXCEPT !.size = v]) /\ [o EXCEPT !.size = v].cls = o.cls
         /\ Shaped([o EXCEPT !.mat = v]) /\ [o EXCEPT !.mat = v].cls = o.cls
         /\ Shaped([o EXCEPT !.mode = v]) /\ [o EXCEPT !.mode = v].cls = o.cls
         /\ Shaped([o EXCEPT !.data = v]) /\ [o EXCEPT !.data = v].cls = o.cls
         /\ [o EXCEPT !.data = v].kind = o.kind /\ [o EXCEPT !.data = v].data = v
<1>1. Shaped([o EXCEPT !.kind = v]) /\ [o EXCEPT !.kind = v].cls = o.cls
  BY DEF Shaped
<1>2. Shaped([o EXCEPT !.size = v]) /\ [o EXCEPT !.size = v].cls = o.cls
  BY DEF Shaped
<1>3. Shaped([o EXCEPT !.mat = v]) /\ [o EXCEPT !.mat = v].cls = o.cls
  BY DEF Shaped
<1>4. Shaped([o EXCEPT !.mode = v]) /\ [o EXCEPT !.mode = v].cls = o.cls
  BY DEF Shaped
<1>5. Shaped([o EXCEPT !.data = v]) /\ [o EXCEPT !.data = v].cls = o.cls
  BY DEF Shaped
<1>6. [o EXCEPT !.data = v].kind = o.kind /\ [o EXCEPT !.data = v].data = v
  BY DEF Shaped
<1> QED BY <1>1, <1>2, <1>3, <1>4, <1>5, <1>6

\* Changing a field that neither names a key nor holds a chain.
LEMMA EditReady ==
  ASSUME NEW o, Shaped(o), NEW v, NEW w, w = [o EXCEPT !.ready = v]
  PROVE  /\ Shaped(w) /\ w.cls = o.cls /\ w.kind = o.kind /\ w.data = o.data
         /\ w.mat = o.mat /\ w.pend = o.pend /\ w.ready = v
BY DEF Shaped

\* Changing the stream array.
LEMMA EditBuf ==
  ASSUME NEW o, Shaped(o), NEW v, NEW w, w = [o EXCEPT !.buf = v]
  PROVE  /\ Shaped(w) /\ w.cls = o.cls /\ w.kind = o.kind /\ w.data = o.data
         /\ w.mat = o.mat /\ w.pend = o.pend /\ w.buf = v
BY DEF Shaped

\* Changing the pending word.
LEMMA EditPend ==
  ASSUME NEW o, Shaped(o), NEW v, NEW w, w = [o EXCEPT !.pend = v]
  PROVE  Shaped(w) /\ w.cls = o.cls /\ w.kind = o.kind /\ w.data = o.data
BY DEF Shaped

\* Changing both words of an RSA part.
LEMMA EditPendReady ==
  ASSUME NEW o, Shaped(o), NEW q, NEW r
  PROVE  /\ Shaped([o EXCEPT !.pend = q, !.ready = r])
         /\ [o EXCEPT !.pend = q, !.ready = r].cls = o.cls
<1> DEFINE w == [o EXCEPT !.pend = q]
<1>1. Shaped(w) /\ w.cls = o.cls
  BY EditPend
<1>2. [o EXCEPT !.pend = q, !.ready = r] = [w EXCEPT !.ready = r]
  OBVIOUS
<1> HIDE DEF w
<1> QED BY <1>1, <1>2, EditReady

\* Setting and clearing keys replaces a key by a key.
LEMMA KeyPuts ==
  ASSUME CryptoInv,
         NEW i, SetKey(i) \/ SetEcValue(i) \/ ClearKey(i) \/ (\E p : SetParameter(i, p))
                \/ (\E j : CopyDomainParameters(i, j)) \/ (\E m \in BOOLEAN : SetRsaPart(i, m))
  PROVE  i \in Keys(heap) /\ Quiet /\ \E w : Shaped(w) /\ w.cls = "key" /\ Put(i, w)
<1>1. i \in Keys(heap) /\ Quiet
  BY DEF SetKey, SetEcValue, ClearKey, SetParameter, CopyDomainParameters, SetRsaPart, IsEc,
         OnlyHeap, InCall, Quiet
<1>2. i \in DOMAIN heap /\ heap[i].cls = "key" /\ Shaped(heap[i])
  BY <1>1, ObjectShape DEF Keys
<1> SUFFICES \E w : Shaped(w) /\ w.cls = "key" /\ Put(i, w)
  BY <1>1
<1>3. ASSUME NEW o, Shaped(o), o.cls = "key", Put(i, o)
      PROVE  \E w : Shaped(w) /\ w.cls = "key" /\ Put(i, w)
  BY <1>3
<1>4. ASSUME NEW c, NEW o, Shaped(o), o.cls = "key"
      PROVE  Shaped(WithContents(o, c)) /\ WithContents(o, c).cls = "key"
  BY <1>4, ContentsShape
<1>5. ASSUME NEW o, Shaped(o), o.cls = "key", NEW r
      PROVE  Shaped([o EXCEPT !.ready = r]) /\ [o EXCEPT !.ready = r].cls = "key"
  BY <1>5 DEF Shaped
<1>6. CASE SetKey(i)
  <2> DEFINE t == ClearEvent(heap[i].kind) # "none"
             w == WithContents(heap[i], [flags |-> IF t THEN {6} ELSE {}, val |-> 1])
  <2>1. Put(i, [w EXCEPT !.ready = IF t THEN @ ELSE 1])
    BY <1>6 DEF SetKey
  <2>2. Shaped(w) /\ w.cls = "key"
    BY <1>2, <1>4
  <2> HIDE DEF w
  <2> QED BY <1>3, <1>5, <2>1, <2>2
<1>7. CASE SetEcValue(i)
  BY <1>2, <1>3, <1>4, <1>7 DEF SetEcValue
<1>8. CASE ClearKey(i)
  <2> DEFINE w == IF heap[i].mat = 0 THEN heap[i] ELSE WithContents(heap[i], NoValue)
  <2>1. Put(i, [w EXCEPT !.ready = 0])
    BY <1>8 DEF ClearKey
  <2>2. Shaped(w) /\ w.cls = "key"
    BY <1>2, <1>4
  <2> HIDE DEF w
  <2> QED BY <1>3, <1>5, <2>1, <2>2
<1>9. CASE (\E p : SetParameter(i, p)) \/ (\E j : CopyDomainParameters(i, j))
  <2>1. PICK f : SetFlags(i, f)
    BY <1>9 DEF SetParameter, CopyDomainParameters
  <2> QED BY <1>2, <1>3, <1>4, <2>1 DEF SetFlags
<1>10. CASE \E m \in BOOLEAN : SetRsaPart(i, m)
  <2> DEFINE w == WithContents(heap[i], [flags |-> {}, val |-> 1])
             u == [heap[i] EXCEPT !.pend = 1, !.ready = Or(@, 2)]
  <2>1. PICK m \in BOOLEAN : Put(i, IF m THEN [w EXCEPT !.ready = Or(@, 1)] ELSE u)
    BY <1>10 DEF SetRsaPart
  <2>2. Shaped(w) /\ w.cls = "key"
    BY <1>2, <1>4
  <2>4. Shaped(u) /\ u.cls = "key"
    BY <1>2, EditPendReady
  <2> HIDE DEF w, u
  <2> QED BY <1>3, <1>5, <2>1, <2>2, <2>4
<1> QED BY <1>6, <1>7, <1>8, <1>9, <1>10

\* So no chain moves.
LEMMA KeyStep ==
  ASSUME CryptoInv,
         NEW i, SetKey(i) \/ SetEcValue(i) \/ ClearKey(i) \/ (\E p : SetParameter(i, p))
                \/ (\E j : CopyDomainParameters(i, j)) \/ (\E m \in BOOLEAN : SetRsaPart(i, m))
  PROVE  CryptoInv'
<1>1. i \in Keys(heap) /\ Quiet /\ \E w : Shaped(w) /\ w.cls = "key" /\ Put(i, w)
  BY KeyPuts
<1>2. PICK o : Shaped(o) /\ o.cls = "key" /\ Put(i, o)
  BY <1>1
<1>3. MayReplace(i, o)
  BY <1>1, <1>2 DEF MayReplace, Keys
<1> QED BY <1>1, <1>2, <1>3, PutStep

-----------------------------------------------------------------------------
(* Algorithm objects *)

\* A MAC, a cipher, a digest or an agreement is rewritten.
LEMMA AlgorithmPut ==
  ASSUME CryptoInv, Quiet, NEW i \in DOMAIN heap, heap[i].cls \notin {"random", "pair"},
         NEW o, Shaped(o), o.cls = heap[i].cls, Put(i, o)
  PROVE  CryptoInv'
BY PutStep DEF MayReplace

\* Only the stream array is rewritten; this may be done to a random source too.
LEMMA StreamPut ==
  ASSUME CryptoInv, Quiet, NEW i \in DOMAIN heap, heap[i].cls # "pair",
         NEW b, Put(i, [heap[i] EXCEPT !.buf = b])
  PROVE  CryptoInv'
<1> DEFINE o == [heap[i] EXCEPT !.buf = b]
<1>1. Shaped(heap[i])
  BY ObjectShape
<1>2. Shaped(o) /\ o.cls = heap[i].cls /\ o.kind = heap[i].kind /\ o.data = heap[i].data
  BY <1>1, EditBuf
<1>3. MayReplace(i, o)
  BY <1>2 DEF MayReplace
<1> HIDE DEF o
<1> QED BY <1>3, PutStep DEF o

\* The words an init writes.
LEMMA StartedPut ==
  ASSUME CryptoInv, Quiet, NEW i \in DOMAIN heap, heap[i].cls \notin {"random", "pair"},
         NEW k, NEW m, NEW b, Started(i, k, m, b)
  PROVE  CryptoInv'
<1> DEFINE o == heap[i]
           w1 == [o EXCEPT !.mat = k]
           w2 == [w1 EXCEPT !.mode = m]
           w3 == [w2 EXCEPT !.ready = 1]
           w4 == [w3 EXCEPT !.pend = 1]
           w5 == [w4 EXCEPT !.buf = b]
<1>0. Put(i, w5)
  BY DEF Started, Put
<1>1. Shaped(o)
  BY ObjectShape
<1> HIDE DEF o
<1>2. Shaped(w1) /\ w1.cls = o.cls
  BY <1>1, EditField
<1> HIDE DEF w1
<1>3. Shaped(w2) /\ w2.cls = o.cls
  BY <1>2, EditField
<1> HIDE DEF w2
<1>4. Shaped(w3) /\ w3.cls = o.cls
  BY <1>3, EditReady
<1> HIDE DEF w3
<1>5. Shaped(w4) /\ w4.cls = o.cls
  BY <1>4, EditPend
<1> HIDE DEF w4
<1>6. Shaped(w5) /\ w5.cls = heap[i].cls
  BY <1>5, EditBuf DEF o
<1> HIDE DEF w5
<1> QED BY <1>0, <1>6, AlgorithmPut

\* Initialisation.
LEMMA InitStep ==
  ASSUME CryptoInv, NEW i, NEW k, NEW mode, NEW iv,
         SignInit(i, k, mode, iv) \/ CipherInit(i, k, mode, iv) \/ AgreeInit(i, k)
  PROVE  CryptoInv'
<1>1. Quiet /\ i \in DOMAIN heap /\ heap[i].cls \notin {"random", "pair"} /\ Shaped(heap[i])
  BY ObjectShape DEF SignInit, CipherInit, AgreeInit, Is, OnlyHeap, InCall, Quiet
<1>2. CASE SignInit(i, k, mode, iv) \/ CipherInit(i, k, mode, iv)
  <2>1. PICK b : Started(i, k, mode, b)
    BY <1>2 DEF SignInit, CipherInit
  <2> QED BY <1>1, <2>1, StartedPut
<1>3. CASE AgreeInit(i, k)
  <2> DEFINE w == [heap[i] EXCEPT !.mat = k]
             o == [w EXCEPT !.ready = 1]
  <2>1. Put(i, o)
    BY <1>3 DEF AgreeInit, Put
  <2>2. Shaped(w) /\ w.cls = heap[i].cls
    BY <1>1, EditField
  <2> HIDE DEF w
  <2>3. Shaped(o) /\ o.cls = heap[i].cls
    BY <2>2, EditReady
  <2> HIDE DEF o
  <2> QED BY <1>1, <2>1, <2>3, AlgorithmPut
<1> QED BY <1>2, <1>3

\* Updates and finals write the stream array.
LEMMA StreamStep ==
  ASSUME CryptoInv, NEW i, NEW n, NEW t,
         \/ SignUpdate(i, n) \/ SignFinal(i, n) \/ SignHash(i)
         \/ CipherFinal(i, n, t) \/ RsaUpdate(i, n) \/ RsaFinal(i, n)
         \/ DigestFinal(i, n) \/ DigestReset(i, n)
  PROVE  CryptoInv'
<1>1. Quiet /\ i \in DOMAIN heap /\ heap[i].cls # "pair"
  BY DEF SignUpdate, SignFinal, SignHash, CipherFinal, RsaUpdate, RsaFinal, DigestFinal, DigestReset,
         Is, InCall, Quiet
<1>2. \E b : Put(i, [heap[i] EXCEPT !.buf = b])
  <2>1. CASE SignUpdate(i, n)
    BY <2>1 DEF SignUpdate
  <2>2. CASE SignFinal(i, n) \/ SignHash(i) \/ CipherFinal(i, n, t) \/ RsaFinal(i, n) \/ DigestFinal(i, n)
    BY <2>2 DEF SignFinal, SignHash, CipherFinal, RsaFinal, DigestFinal
  <2>3. CASE RsaUpdate(i, n)
    <3>1. Put(i, [heap[i] EXCEPT !.buf = [heap[i].buf EXCEPT !.pend = @ \o Input(i, n)]])
      BY <2>3, <1>1, ObjectShape DEF RsaUpdate, Put, Shaped
    <3> QED BY <3>1
  <2>4. CASE DigestReset(i, n)
    BY <2>4 DEF DigestReset
  <2> QED BY <2>1, <2>2, <2>3, <2>4
<1> QED BY <1>1, <1>2, StreamPut

\* An update of a cipher, or of a digest that has its context.
LEMMA UpdateStep ==
  ASSUME CryptoInv, NEW i, NEW n, CipherUpdate(i, n) \/ DigestUpdate(i, n)
  PROVE  CryptoInv'
<1>1. Quiet /\ i \in DOMAIN heap /\ heap[i].cls \notin {"random", "pair"} /\ Shaped(heap[i])
  BY ObjectShape DEF CipherUpdate, DigestUpdate, Is, InCall, Quiet
<1> DEFINE o == heap[i]
<1>2. CASE CipherUpdate(i, n)
  <2>1. PICK x, y, z : Put(i, [o EXCEPT !.buf.blocks = x, !.buf.pend = y, !.buf.seen = z])
    BY <1>2 DEF CipherUpdate
  <2> DEFINE w1 == [o EXCEPT !.buf.blocks = x]
             w2 == [w1 EXCEPT !.buf.pend = y]
             w3 == [w2 EXCEPT !.buf.seen = z]
  <2>2. Put(i, w3)
    BY <2>1
  <2>3. Shaped(w1) /\ w1.cls = o.cls
    BY <1>1 DEF Shaped
  <2> HIDE DEF w1
  <2>4. Shaped(w2) /\ w2.cls = o.cls
    BY <2>3 DEF Shaped
  <2> HIDE DEF w2
  <2>5. Shaped(w3) /\ w3.cls = o.cls
    BY <2>4 DEF Shaped
  <2> HIDE DEF w3
  <2> QED BY <1>1, <2>2, <2>5, AlgorithmPut
<1>3. CASE DigestUpdate(i, n)
  <2>1. PICK x, y : Put(i, [o EXCEPT !.pend = x, !.buf.pend = y])
    BY <1>3 DEF DigestUpdate
  <2> DEFINE w1 == [o EXCEPT !.pend = x]
             w2 == [w1 EXCEPT !.buf.pend = y]
  <2>2. Put(i, w2)
    BY <2>1
  <2>3. Shaped(w1) /\ w1.cls = o.cls
    BY <1>1, EditPend
  <2> HIDE DEF w1
  <2>4. Shaped(w2) /\ w2.cls = o.cls
    BY <2>3 DEF Shaped
  <2> HIDE DEF w2
  <2> QED BY <1>1, <2>2, <2>4, AlgorithmPut
<1> QED BY <1>2, <1>3

\* Newly made objects.
LEMMA FreshShape ==
  ASSUME NEW cls, NEW k, NEW bits
  PROVE  /\ Shaped(Fresh(cls, k, bits))
         /\ Fresh(cls, k, bits).cls = cls /\ Fresh(cls, k, bits).kind = k
BY DEF Fresh, Shaped

\* A new object that is no chain and no joined pair.
LEMMA AppendStep ==
  ASSUME CryptoInv, Quiet, NEW o, Shaped(o), ~Pseudo(o), o.cls # "pair" \/ o.kind = 0,
         heap' = Append(heap, o)
  PROVE  CryptoInv'
<1>1. Kept(heap, heap')
  BY AppendKept DEF CryptoInv, Sound
<1>2. token \in Nat
  BY DEF CryptoInv, HistoryInv
<1> QED BY <1>1, <1>2, QuietStep DEF Quiet

\* Objects that hold no chain are constructed.
LEMMA ConstructStep ==
  ASSUME CryptoInv, (\E k, bits : BuildKey(k, bits)) \/ NewPair
  PROVE  CryptoInv'
<1>1. CASE \E k, bits : BuildKey(k, bits)
  <2>1. PICK k, bits : BuildKey(k, bits)
    BY <1>1
  <2> DEFINE o == Fresh("key", k, bits)
  <2>2. Quiet /\ heap' = Append(heap, o)
    BY <2>1 DEF BuildKey, InCall, Quiet
  <2>3. Shaped(o) /\ o.cls = "key"
    BY FreshShape
  <2> HIDE DEF o
  <2> QED BY <2>2, <2>3, AppendStep DEF Pseudo
<1>2. CASE NewPair
  <2> DEFINE o == Fresh("pair", 0, 0)
  <2>1. Quiet /\ heap' = Append(heap, o)
    BY <1>2 DEF NewPair, InCall, Quiet
  <2>2. Shaped(o) /\ o.cls = "pair" /\ o.kind = 0
    BY FreshShape
  <2> HIDE DEF o
  <2> QED BY <2>1, <2>2, AppendStep DEF Pseudo
<1> QED BY <1>1, <1>2

\* Among some indices there is a greatest.
LEMMA GreatestIndex ==
  ASSUME NEW n \in Nat, NEW T, T # {}, T \subseteq 1 .. n
  PROVE  \E i \in T : \A j \in T : j <= i
<1> DEFINE R == OpToRel(<, Nat)
           D == {n - j : j \in T}
<1>1. IsWellFoundedOn(R, Nat)
  BY NatLessThanWellFounded, Zenon
<1>2. \A x, y \in Nat : <<y, x>> \notin R => x <= y
  BY DEF OpToRel
<1> HIDE DEF R
<1>3. D \subseteq Nat /\ D # {}
  <2>1. \A j \in T : j \in 1 .. n /\ n - j \in Nat
    OBVIOUS
  <2>2. D \subseteq Nat
    BY <2>1
  <2>3. PICK j : j \in T
    OBVIOUS
  <2>4. n - j \in D
    BY <2>3
  <2> QED BY <2>2, <2>4
<1>4. PICK x \in D : \A y \in D : ~(<<y, x>> \in R)
  <2> HIDE DEF D
  <2> QED BY <1>1, <1>3, WFMin
<1>5. PICK i \in T : x = n - i
  OBVIOUS
<1>6. ASSUME NEW j \in T
      PROVE  j <= i
  <2>1. n - j \in D /\ n - j \in Nat /\ x \in Nat
    BY <1>3
  <2>2. i \in 1 .. n /\ j \in 1 .. n
    BY <1>5
  <2>3. x <= n - j
    <3> HIDE DEF D
    <3> QED BY <1>2, <1>4, <2>1
  <2> QED BY <1>5, <2>2, <2>3
<1> QED BY <1>6

\* The one-shot digest.
LEMMA OneShotStep ==
  ASSUME CryptoInv, (\E k : OpenOneShot(k)) \/ (\E i : CloseOneShot(i))
  PROVE  CryptoInv'
<1>1. CASE \E k : OpenOneShot(k)
  <2>1. PICK k : OpenOneShot(k)
    BY <1>1
  <2> DEFINE w == Fresh("oneshot", k, 0)
             o == [w EXCEPT !.ready = 1]
             reusable == {i \in OneShots : heap[i].size = 1}
             c == CHOOSE i \in reusable : \A j \in reusable : j <= i
  <2>2. Quiet /\ IF reusable # {} THEN Put(c, o) ELSE heap' = Append(heap, o)
    BY <2>1 DEF OpenOneShot, OnlyHeap, InCall, Quiet
  <2>3. Shaped(w) /\ w.cls = "oneshot"
    BY FreshShape
  <2> HIDE DEF w
  <2>4. Shaped(o) /\ o.cls = "oneshot"
    BY <2>3, EditReady
  <2> HIDE DEF o
  <2>5. CASE reusable # {}
    <3>1. reusable \subseteq DOMAIN heap /\ \A i \in reusable : i \in 1 .. Len(heap) /\ heap[i].cls = "oneshot"
      BY SeqDomain DEF OneShots, CryptoInv, Sound, WellFormed
    <3>2. Len(heap) \in Nat
      BY SeqDomain DEF CryptoInv, Sound, WellFormed
    <3>3. \E i \in reusable : \A j \in reusable : j <= i
      <4> HIDE DEF reusable
      <4> QED BY <2>5, <3>1, <3>2, GreatestIndex
    <3>4. c \in reusable
      BY <3>3
    <3> HIDE DEF c, reusable
    <3> QED BY <2>2, <2>4, <2>5, <3>1, <3>4, AlgorithmPut
  <2>6. CASE reusable = {}
    BY <2>2, <2>4, <2>6, AppendStep DEF Pseudo
  <2> QED BY <2>5, <2>6
<1>2. CASE \E i : CloseOneShot(i)
  <2>1. PICK i : CloseOneShot(i)
    BY <1>2
  <2> DEFINE o == [heap[i] EXCEPT !.ready = 0]
  <2>2. Quiet /\ Put(i, o) /\ i \in DOMAIN heap /\ heap[i].cls = "oneshot" /\ Shaped(heap[i])
    BY <2>1, ObjectShape DEF CloseOneShot, OneShots, OnlyHeap, InCall, Quiet
  <2>3. Shaped(o) /\ o.cls = heap[i].cls
    BY <2>2, EditReady
  <2> HIDE DEF o
  <2> QED BY <2>2, <2>3, AlgorithmPut
<1> QED BY <1>1, <1>2

-----------------------------------------------------------------------------
(* Key pairs *)

\* A pair that names its keys.
LEMMA JoinedShape ==
  ASSUME NEW o, Shaped(o), NEW k, NEW bits, NEW pub, NEW priv, NEW w, w = Joined(o, k, bits, pub, priv)
  PROVE  Shaped(w) /\ w.cls = o.cls /\ w.kind = k /\ w.mat = pub /\ w.pend = priv
<1> DEFINE w1 == [o EXCEPT !.kind = k]
           w2 == [w1 EXCEPT !.size = bits]
           w3 == [w2 EXCEPT !.mat = pub]
           w4 == [w3 EXCEPT !.pend = priv]
<1>1. w = w4
  BY DEF Joined
<1>2. Shaped(w1) /\ w1.cls = o.cls /\ w1.kind = k
  BY DEF Shaped
<1> HIDE DEF w1
<1>3. Shaped(w2) /\ w2.cls = o.cls /\ w2.kind = k
  BY <1>2 DEF Shaped
<1> HIDE DEF w2
<1>4. Shaped(w3) /\ w3.cls = o.cls /\ w3.kind = k /\ w3.mat = pub
  BY <1>3 DEF Shaped
<1> HIDE DEF w3
<1>5. Shaped(w4) /\ w4.cls = o.cls /\ w4.kind = k /\ w4.mat = pub /\ w4.pend = priv
  BY <1>4 DEF Shaped
<1> QED BY <1>1, <1>5

\* KeyPair(public, private).
LEMMA PairOfStep ==
  ASSUME CryptoInv, NEW p, NEW pub, NEW priv, PairOf(p, pub, priv)
  PROVE  CryptoInv'
<1>1. /\ Quiet /\ p \in DOMAIN heap /\ heap[p].cls = "pair" /\ Shaped(heap[p])
      /\ pub \in Keys(heap) /\ priv \in Keys(heap)
  BY ObjectShape DEF PairOf, OnlyHeap, InCall, Quiet
<1>2. PICK k : Put(p, Joined(heap[p], k, heap[pub].size, pub, priv))
  BY DEF PairOf
<1> DEFINE o == Joined(heap[p], k, heap[pub].size, pub, priv)
<1>3. Shaped(o) /\ o.cls = "pair" /\ o.mat = pub /\ o.pend = priv
  BY <1>1, JoinedShape
<1> HIDE DEF o
<1>4. MayReplace(p, o)
  BY <1>1, <1>3 DEF MayReplace
<1> QED BY <1>1, <1>2, <1>4, PutStep DEF o

\* Two objects after a heap.
LEMMA TwoMore ==
  ASSUME NEW T, NEW f \in Seq(T), NEW a \in T, NEW b \in T
  PROVE  LET g == f \o <<a, b>> IN
         /\ g \in Seq(T) /\ Len(g) = Len(f) + 2 /\ \A j \in 1 .. Len(f) : g[j] = f[j]
         /\ g[Len(f) + 1] = a /\ g[Len(f) + 2] = b
<1> DEFINE e == <<a, b>>
<1>1. e \in Seq(T) /\ Len(e) = 2 /\ e[1] = a /\ e[2] = b
  OBVIOUS
<1> HIDE DEF e
<1> DEFINE g == f \o e
<1>2. /\ g \in Seq(T) /\ Len(g) = Len(f) + Len(e) /\ \A j \in DOMAIN f : g[j] = f[j]
      /\ \A j \in DOMAIN e : g[Len(f) + j] = e[j]
  BY <1>1, Concatenated
<1> HIDE DEF g
<1>3. DOMAIN f = 1 .. Len(f) /\ DOMAIN e = 1 .. 2
  BY <1>1
<1>4. g[Len(f) + 1] = a /\ g[Len(f) + 2] = b
  BY <1>1, <1>2, <1>3
<1> QED BY <1>1, <1>2, <1>3, <1>4 DEF g, e

\* A heap with one object replaced and two more.
LEMMA PairAppended ==
  ASSUME NEW h, IsSeq(h), NEW p \in DOMAIN h, NEW o, NEW a, NEW b
  PROVE  LET g == [h EXCEPT ![p] = o] \o <<a, b>> IN
         /\ IsSeq(g) /\ DOMAIN g = DOMAIN h \cup {Len(h) + 1, Len(h) + 2} /\ Len(g) = Len(h) + 2
         /\ g[p] = o /\ g[Len(h) + 1] = a /\ g[Len(h) + 2] = b
         /\ \A j \in DOMAIN h : j # p => g[j] = h[j]
<1>1. PICK S : h \in Seq(S)
  BY DEF IsSeq
<1> DEFINE T == S \cup {a, b, o}
           f == [h EXCEPT ![p] = o]
           g == f \o <<a, b>>
<1>2. h \in Seq(T) /\ a \in T /\ b \in T /\ o \in T
  BY <1>1
<1> HIDE DEF T
<1>3. f \in Seq(T) /\ Len(f) = Len(h) /\ Len(h) \in Nat /\ DOMAIN h = 1 .. Len(h)
  BY <1>2
<1>4. f[p] = o /\ \A j \in DOMAIN h : j # p => f[j] = h[j]
  BY <1>2
<1> HIDE DEF f
<1>5. /\ g \in Seq(T) /\ Len(g) = Len(f) + 2 /\ \A j \in 1 .. Len(f) : g[j] = f[j]
      /\ g[Len(f) + 1] = a /\ g[Len(f) + 2] = b
  BY <1>2, <1>3, TwoMore
<1> HIDE DEF g
<1>6. DOMAIN g = DOMAIN h \cup {Len(h) + 1, Len(h) + 2}
  BY <1>3, <1>5
<1>7. g[p] = o /\ \A j \in DOMAIN h : j # p => g[j] = h[j]
  BY <1>3, <1>4, <1>5
<1>8. IsSeq(g)
  BY <1>5 DEF IsSeq
<1> QED BY <1>3, <1>5, <1>6, <1>7, <1>8 DEF g, f

\* KeyPair(algorithm, bits): the pair names the two keys made for it.
LEMMA PairKept ==
  ASSUME NEW h, WellFormed(h), NEW p \in DOMAIN h, h[p].cls = "pair", NEW o, NEW a, NEW b,
         Shaped(o), Shaped(a), Shaped(b), o.cls = "pair", a.cls = "key", b.cls = "key",
         o.mat = Len(h) + 1, o.pend = Len(h) + 2
  PROVE  Kept(h, [h EXCEPT ![p] = o] \o <<a, b>>)
<1> DEFINE g == [h EXCEPT ![p] = o] \o <<a, b>>
<1>1. IsSeq(h)
  BY DEF WellFormed
<1>2. /\ IsSeq(g) /\ DOMAIN g = DOMAIN h \cup {Len(h) + 1, Len(h) + 2} /\ Len(g) = Len(h) + 2
      /\ g[p] = o /\ g[Len(h) + 1] = a /\ g[Len(h) + 2] = b
      /\ \A j \in DOMAIN h : j # p => g[j] = h[j]
  BY <1>1, PairAppended
<1> HIDE DEF g
<1>3. Keys(h) \subseteq Keys(g) /\ Len(h) + 1 \in Keys(g) /\ Len(h) + 2 \in Keys(g)
  BY <1>2 DEF Keys
<1>4. PairsJoined(g)
  <2> SUFFICES ASSUME NEW j \in DOMAIN g, g[j].cls = "pair", g[j].kind # 0
               PROVE  g[j].mat \in Keys(g) /\ g[j].pend \in Keys(g)
    BY DEF PairsJoined
  <2>1. CASE j = p
    BY <1>2, <1>3, <2>1
  <2>2. CASE j # p
    BY <1>2, <1>3, <2>2 DEF PairsJoined, WellFormed
  <2> QED BY <2>1, <2>2
<1>5. WellFormed(g)
  BY <1>2, <1>4 DEF WellFormed
<1>6. Len(h) \in Nat
  BY <1>1, SeqDomain
<1>7. Kept(h, g)
  BY <1>2, <1>5, <1>6 DEF Kept, Pseudo
<1> QED BY <1>7 DEF g

\* The constructor call as a step.
LEMMA PairNewStep ==
  ASSUME CryptoInv, NEW p, NEW k, NEW bits, PairNew(p, k, bits)
  PROVE  CryptoInv'
<1> DEFINE n == Len(heap)
           a == Fresh("key", IF k = 2 THEN 4 ELSE 11, bits)
           b == Fresh("key", IF k = 2 THEN 6 ELSE 12, bits)
           o == Joined(heap[p], k, bits, n + 1, n + 2)
<1>1. /\ Quiet /\ p \in DOMAIN heap /\ heap[p].cls = "pair" /\ Shaped(heap[p])
      /\ heap' = [heap EXCEPT ![p] = o] \o <<a, b>>
  BY ObjectShape DEF PairNew, InCall, Quiet
<1>2. Shaped(a) /\ a.cls = "key" /\ Shaped(b) /\ b.cls = "key"
  BY FreshShape
<1>3. Shaped(o) /\ o.cls = "pair" /\ o.mat = n + 1 /\ o.pend = n + 2
  BY <1>1, JoinedShape
<1> HIDE DEF a, b, o
<1>4. WellFormed(heap)
  BY DEF CryptoInv, Sound
<1>5. Kept(heap, heap')
  BY <1>1, <1>2, <1>3, <1>4, PairKept
<1>6. token \in Nat
  BY DEF CryptoInv, HistoryInv
<1> QED BY <1>1, <1>5, <1>6, QuietStep DEF Quiet

\* The value of a generated key.
LEMMA FilledShape ==
  ASSUME NEW o, Shaped(o), NEW v
  PROVE  Shaped(Filled(o, v)) /\ Filled(o, v).cls = o.cls
<1> DEFINE c == [flags |-> IF o.kind \in EcKinds THEN {0, 1, 5, 6} ELSE {}, val |-> v]
           w1 == WithContents(o, c)
           r == CASE o.kind = 4 -> 3 [] o.kind = 6 -> 1 [] OTHER -> w1.ready
           w2 == [w1 EXCEPT !.ready = r]
<1>1. Shaped(w1) /\ w1.cls = o.cls
  BY ContentsShape
<1>2. Filled(o, v) = [w1 EXCEPT !.ready = r, !.pend = IF o.kind = 4 THEN 1 ELSE w1.pend]
  BY DEF Filled
<1> HIDE DEF w1
<1>3. Shaped([w1 EXCEPT !.ready = r]) /\ [w1 EXCEPT !.ready = r].cls = o.cls
  BY <1>1, EditReady
<1>4. Filled(o, v) = [w2 EXCEPT !.pend = IF o.kind = 4 THEN 1 ELSE w1.pend]
  BY <1>2
<1>5. Shaped(w2) /\ w2.cls = o.cls
  BY <1>3
<1> HIDE DEF w2
<1> QED BY <1>4, <1>5, EditPend

\* genKeyPair writes keys only.
LEMMA GenKeyPairStep ==
  ASSUME CryptoInv, NEW p, GenKeyPair(p)
  PROVE  CryptoInv'
<1>1. /\ p \in DOMAIN heap /\ heap[p].cls = "pair" /\ heap[p].kind # 0 /\ token' = token + 1
      /\ UNCHANGED <<tx, flash, prng>>
  BY DEF GenKeyPair, InCall
<1>2. WellFormed(heap) /\ token \in Nat
  BY DEF CryptoInv, Sound, HistoryInv
<1>3. heap[p].mat \in Keys(heap) /\ heap[p].pend \in Keys(heap)
  BY <1>1, <1>2 DEF WellFormed, PairsJoined
<1> DEFINE new(i) == IF i \in {heap[p].mat, heap[p].pend} THEN Filled(heap[i], token + 1) ELSE heap[i]
<1>4. heap' = [i \in DOMAIN heap |-> new(i)]
  BY DEF GenKeyPair
<1>5. \A i \in DOMAIN heap : Shaped(new(i)) /\ new(i).cls = heap[i].cls
                             /\ (heap[i].cls # "key" => new(i) = heap[i])
  BY <1>3, ObjectShape, FilledShape DEF Keys
<1> HIDE DEF new
<1>6. DOMAIN heap' = DOMAIN heap /\ \A i \in DOMAIN heap : heap'[i] = new(i)
  BY <1>4
<1>7. heap' = [i \in DOMAIN heap |-> heap'[i]]
  BY <1>4
<1>8. \A i \in DOMAIN heap : /\ Shaped(heap'[i]) /\ heap'[i].cls = heap[i].cls
                             /\ (heap[i].cls # "key" => heap'[i] = heap[i])
  BY <1>5, <1>6
<1>9. WellFormed(heap') /\ Len(heap') = Len(heap)
  BY <1>2, <1>6, <1>7, <1>8, MapWellFormed
<1>10. Len(heap) \in Nat
  BY <1>2, SeqDomain DEF WellFormed
<1>11. Kept(heap, heap')
  BY <1>6, <1>8, <1>9, <1>10 DEF Kept, Pseudo
<1> QED BY <1>1, <1>2, <1>11, QuietStep

-----------------------------------------------------------------------------
(* Random sources *)

\* Object c gets a chain that starts at a token drawn just now.
LEMMA NewChain ==
  ASSUME CryptoInv, token' = token + 1, UNCHANGED <<tx, flash, prng>>,
         WellFormed(heap'), Len(heap) <= Len(heap'), NEW c \in DOMAIN heap',
         Pseudo(heap'[c]), heap'[c].data = [seed |-> token + 1, n |-> 0],
         \A i \in DOMAIN heap' : i # c => i \in DOMAIN heap /\ heap'[i] = heap[i],
         \A i \in DOMAIN heap : Pseudo(heap[i]) => Pseudo(heap'[i])
  PROVE  CryptoInv'
<1>1. token \in Nat /\ token' \in Nat /\ token <= token' /\ Sound(heap, Drawn) /\ HistoryInv
  BY DEF CryptoInv, HistoryInv
<1>2. heap'[c].data \in Chains /\ heap'[c].data.seed = token + 1 /\ heap'[c].data.n = 0
  BY <1>1 DEF Chains
<1>3. Drawn' = Drawn
  BY DEF Drawn
<1>4. \A k \in DOMAIN Drawn : Drawn[k] \in Chains /\ Drawn[k].seed \in Nat /\ Drawn[k].seed <= token
  BY <1>1, DrawnType DEF HistoryInv, Chains
<1>5. HistoryInv'
  BY <1>1, <1>3, <1>4 DEF HistoryInv
<1>6. PseudoNeverRepeats'
  BY DEF CryptoInv, PseudoNeverRepeats
<1>7. \A i \in DOMAIN heap : Pseudo(heap[i]) =>
        heap[i].data \in Chains /\ heap[i].data.seed \in Nat /\ heap[i].data.seed <= token
  BY <1>1 DEF Sound, ChainsDrawn, Chains
<1>8. ChainsDrawn(heap)'
  BY <1>1, <1>2, <1>7 DEF ChainsDrawn
<1>9. ChainsApart(heap')
  <2> SUFFICES ASSUME NEW i \in DOMAIN heap', NEW j \in DOMAIN heap', Pseudo(heap'[i]), Pseudo(heap'[j]),
                      heap'[i].data.seed = heap'[j].data.seed
               PROVE  i = j
    BY DEF ChainsApart
  <2>1. CASE i # c /\ j # c
    BY <2>1, <1>1 DEF Sound, ChainsApart
  <2>2. CASE i # c /\ j = c
    BY <2>2, <1>1, <1>2, <1>7
  <2>3. CASE i = c /\ j # c
    BY <2>3, <1>1, <1>2, <1>7
  <2> QED BY <2>1, <2>2, <2>3
<1>10. Beyond(heap', Drawn)
  <2> SUFFICES ASSUME NEW i \in DOMAIN heap', NEW k \in DOMAIN Drawn, Pseudo(heap'[i]),
                      heap'[i].data.seed = Drawn[k].seed
               PROVE  Drawn[k].n <= heap'[i].data.n
    BY DEF Beyond
  <2>1. CASE i = c
    BY <2>1, <1>1, <1>2, <1>4
  <2>2. CASE i # c
    BY <2>2, <1>1 DEF Sound, Beyond
  <2> QED BY <2>1, <2>2
<1>11. Sound(heap, Drawn)'
  BY <1>3, <1>8, <1>9, <1>10 DEF Sound, ChainsApart, Beyond, WellFormed, IsSeq, PairsJoined, Keys
<1>12. ChainsDrawn(flash)'
  BY <1>1, DrawnLater DEF CryptoInv, Sound, ChainsDrawn
<1>13. Sound(flash, prng.sent)'
  BY <1>12 DEF CryptoInv, Sound, ChainsApart, Beyond, WellFormed, IsSeq, PairsJoined, Keys
<1>14. ASSUME NEW t, Covers(heap, t)
       PROVE  Covers(heap', t)
  <2>1. /\ DOMAIN heap = 1 .. Len(heap) /\ Len(heap) \in Nat /\ Len(heap') \in Nat
        /\ DOMAIN t = 1 .. Len(t) /\ Len(t) \in Nat
    BY <1>1, <1>14, SeqDomain DEF Sound, WellFormed, Covers
  <2>2. Len(t) <= Len(heap) /\ Len(t) <= Len(heap')
    BY <1>14, <2>1 DEF Covers
  <2>3. \A i \in DOMAIN t : i \in DOMAIN heap
    BY <2>1, <2>2
  <2> QED BY <1>14, <2>2, <2>3 DEF Covers
<1> QED BY <1>5, <1>6, <1>11, <1>13, <1>14 DEF CryptoInv

\* A new object, whatever it draws from, leaves the heap well formed.
LEMMA AppendWellFormed ==
  ASSUME NEW h, WellFormed(h), NEW o, Shaped(o), o.cls # "pair"
  PROVE  LET g == Append(h, o) IN
         /\ WellFormed(g) /\ DOMAIN g = DOMAIN h \cup {Len(h) + 1} /\ Len(g) = Len(h) + 1
         /\ g[Len(h) + 1] = o /\ \A j \in DOMAIN h : g[j] = h[j]
<1> DEFINE g == Append(h, o)
<1>1. /\ IsSeq(g) /\ DOMAIN g = DOMAIN h \cup {Len(h) + 1} /\ Len(g) = Len(h) + 1
      /\ g[Len(h) + 1] = o /\ \A j \in DOMAIN h : g[j] = h[j]
  <2>1. IsSeq(h)
    BY DEF WellFormed
  <2> QED BY <2>1, AppendSeq
<1> HIDE DEF g
<1>2. Keys(h) \subseteq Keys(g)
  BY <1>1 DEF Keys
<1>3. PairsJoined(g)
  BY <1>1, <1>2 DEF PairsJoined, WellFormed
<1>4. WellFormed(g)
  BY <1>1, <1>3 DEF WellFormed
<1> QED BY <1>1, <1>4 DEF g

\* getInstance: a chain starts from entropy, other objects hold none.
LEMMA GetInstanceStep ==
  ASSUME CryptoInv, NEW cls, NEW k, GetInstance(cls, k)
  PROVE  CryptoInv'
<1> DEFINE w1 == Fresh(cls, k, 0)
           w2 == [w1 EXCEPT !.pend = IF cls = "cipher" THEN 1 ELSE 0]
           o == [w2 EXCEPT !.mat = IF cls \in {"sum", "random"} THEN 1 ELSE 0]
           w4 == [o EXCEPT !.data = [seed |-> token + 1, n |-> 0]]
           chained == cls = "random" /\ k = 1
<1>1. /\ UNCHANGED <<tx, flash, prng>> /\ cls # "pair"
      /\ token' = IF chained THEN token + 1 ELSE token
      /\ heap' = Append(heap, IF chained THEN w4 ELSE o)
  BY DEF GetInstance, InCall, Available
<1>2. Shaped(w1) /\ w1.cls = cls /\ w1.kind = k
  BY FreshShape
<1> HIDE DEF w1
<1>3. Shaped(w2) /\ w2.cls = cls /\ w2.kind = k
  BY <1>2, EditPend
<1> HIDE DEF w2
<1>4. Shaped(o) /\ o.cls = cls /\ o.kind = k
  BY <1>3 DEF Shaped
<1> HIDE DEF o
<1>5. Shaped(w4) /\ w4.cls = cls /\ w4.kind = k /\ w4.data = [seed |-> token + 1, n |-> 0]
  BY <1>4, EditField
<1> HIDE DEF w4
<1>6. CASE ~chained
  BY <1>1, <1>4, <1>6, AppendStep DEF Quiet, Pseudo
<1>7. CASE chained
  <2>1. WellFormed(heap) /\ Len(heap) \in Nat /\ DOMAIN heap = 1 .. Len(heap)
    BY SeqDomain DEF CryptoInv, Sound, WellFormed
  <2>2. heap' = Append(heap, w4) /\ w4.cls # "pair"
    BY <1>1, <1>5, <1>7
  <2>3. /\ WellFormed(heap') /\ DOMAIN heap' = DOMAIN heap \cup {Len(heap) + 1}
        /\ Len(heap') = Len(heap) + 1
        /\ heap'[Len(heap) + 1] = w4 /\ \A j \in DOMAIN heap : heap'[j] = heap[j]
    BY <1>5, <2>1, <2>2, AppendWellFormed
  <2>4. Pseudo(w4)
    BY <1>5, <1>7 DEF Pseudo
  <2> QED BY <1>1, <1>5, <1>7, <2>1, <2>3, <2>4, NewChain
<1> QED BY <1>6, <1>7

\* setSeed and the secure source.
LEMMA SeedStep ==
  ASSUME CryptoInv, NEW i, SetSeed(i) \/ SecureGenerate(i)
  PROVE  CryptoInv'
<1>1. i \in DOMAIN heap /\ heap[i].cls = "random" /\ UNCHANGED <<tx, flash, prng>> /\ Shaped(heap[i])
  BY ObjectShape DEF SetSeed, SecureGenerate, Is, OnlyHeap, InCall
<1>2. WellFormed(heap) /\ token \in Nat
  BY DEF CryptoInv, Sound, HistoryInv
<1>3. ASSUME NEW b, Put(i, [heap[i] EXCEPT !.buf = b])
      PROVE  Kept(heap, heap')
  <2> DEFINE o == [heap[i] EXCEPT !.buf = b]
  <2>1. Shaped(o) /\ o.cls = heap[i].cls /\ o.kind = heap[i].kind /\ o.data = heap[i].data
    BY <1>1, EditBuf
  <2>2. heap' = [heap EXCEPT ![i] = o]
    BY <1>3 DEF Put
  <2> HIDE DEF o
  <2> QED BY <1>1, <1>2, <2>1, <2>2, PutKept
<1>4. CASE SecureGenerate(i)
  <2>1. token' = token /\ Put(i, IF heap[i].buf.seen THEN [heap[i] EXCEPT !.buf.blocks = @ + 1] ELSE heap[i])
    BY <1>4 DEF SecureGenerate, OnlyHeap
  <2>2. \E b : Put(i, [heap[i] EXCEPT !.buf = b])
    <3>1. CASE heap[i].buf.seen
      <4>1. Put(i, [heap[i] EXCEPT !.buf = [heap[i].buf EXCEPT !.blocks = @ + 1]])
        BY <1>1, <2>1, <3>1 DEF Put, Shaped
      <4> QED BY <4>1
    <3>2. CASE ~heap[i].buf.seen
      <4>1. heap[i] = [heap[i] EXCEPT !.buf = heap[i].buf]
        BY <1>1 DEF Shaped
      <4> QED BY <2>1, <3>2, <4>1
    <3> QED BY <3>1, <3>2
  <2> QED BY <1>1, <1>2, <1>3, <2>1, <2>2, QuietStep
<1>5. CASE SetSeed(i) /\ ~Pseudo(heap[i])
  <2>1. token' = token + 1 /\ Put(i, [heap[i] EXCEPT !.buf.seen = TRUE, !.buf.iv = token + 1])
    BY <1>5 DEF SetSeed
  <2> DEFINE x == heap[i]
             v == TRUE
             w == [x EXCEPT !.buf.seen = v]
             o == [w EXCEPT !.buf.iv = token + 1]
  <2>2. heap' = [heap EXCEPT ![i] = o]
    BY <2>1 DEF Put
  <2>6. Shaped(x)
    BY <1>1
  <2> HIDE DEF x, v
  <2>3. Shaped(w) /\ w.cls = x.cls /\ w.kind = x.kind /\ w.data = x.data
    BY <2>6 DEF Shaped
  <2> HIDE DEF w
  <2>7. Shaped(o) /\ o.cls = x.cls /\ o.kind = x.kind /\ o.data = x.data
    BY <2>3 DEF Shaped
  <2> HIDE DEF o
  <2>4. Shaped(o) /\ o.cls = heap[i].cls /\ o.kind = heap[i].kind /\ o.data = heap[i].data
    BY <2>7 DEF x
  <2>5. Kept(heap, heap')
    BY <1>1, <1>2, <2>2, <2>4, PutKept
  <2> QED BY <1>1, <1>2, <2>1, <2>5, QuietStep
<1>6. CASE SetSeed(i) /\ Pseudo(heap[i])
  <2> DEFINE o == [heap[i] EXCEPT !.data = [seed |-> token + 1, n |-> 0]]
  <2>1. token' = token + 1 /\ heap' = [heap EXCEPT ![i] = o]
    BY <1>6 DEF SetSeed, Put
  <2>2. /\ Shaped(o) /\ o.cls = heap[i].cls /\ o.kind = heap[i].kind
        /\ o.data = [seed |-> token + 1, n |-> 0]
    BY <1>1, EditField
  <2> HIDE DEF o
  <2>3. /\ DOMAIN heap' = DOMAIN heap /\ heap' = [j \in DOMAIN heap |-> heap'[j]]
        /\ heap'[i] = o /\ \A j \in DOMAIN heap : j # i => heap'[j] = heap[j]
    BY <1>1, <2>1
  <2>4. WellFormed(heap') /\ Len(heap') = Len(heap)
    <3>1. \A j \in DOMAIN heap : Shaped(heap'[j]) /\ heap'[j].cls = heap[j].cls
      BY <1>1, <2>2, <2>3, ObjectShape
    <3>2. \A j \in DOMAIN heap : heap[j].cls = "pair" => heap'[j] = heap[j]
      BY <1>1, <2>3
    <3> QED BY <1>2, <2>3, <3>1, <3>2, MapWellFormed
  <2>5. Len(heap) \in Nat
    BY <1>2, SeqDomain DEF WellFormed
  <2>6. Pseudo(o)
    BY <1>6, <2>2 DEF Pseudo
  <2> QED BY <1>1, <2>1, <2>2, <2>3, <2>4, <2>5, <2>6, NewChain
<1> QED BY <1>4, <1>5, <1>6

\* A value at the end of a sequence that does not hold it yet.
LEMMA AppendInjective ==
  ASSUME NEW S, NEW s \in Seq(S), NEW v \in S,
         \A a, b \in DOMAIN s : s[a] = s[b] => a = b, \A k \in DOMAIN s : s[k] # v
  PROVE  \A a, b \in DOMAIN Append(s, v) : Append(s, v)[a] = Append(s, v)[b] => a = b
<1> DEFINE q == Append(s, v)
<1>1. /\ q \in Seq(S) /\ Len(q) = Len(s) + 1 /\ DOMAIN q = 1 .. Len(s) + 1
      /\ DOMAIN s = 1 .. Len(s) /\ Len(s) \in Nat
  OBVIOUS
<1>2. q[Len(s) + 1] = v /\ \A k \in 1 .. Len(s) : q[k] = s[k]
  OBVIOUS
<1> HIDE DEF q
<1>3. ASSUME NEW a \in DOMAIN q, NEW b \in DOMAIN q, q[a] = q[b]
      PROVE  a = b
  <2>1. CASE a \in 1 .. Len(s) /\ b \in 1 .. Len(s)
    BY <1>1, <1>2, <1>3, <2>1
  <2>2. CASE a = Len(s) + 1 \/ b = Len(s) + 1
    BY <1>1, <1>2, <1>3, <2>2
  <2> QED BY <1>1, <2>1, <2>2
<1> QED BY <1>3 DEF q

\* A value drawn last is the last of the history.
LEMMA ConcatAppend ==
  ASSUME NEW S, NEW a \in Seq(S), NEW b \in Seq(S), NEW v \in S
  PROVE  a \o Append(b, v) = Append(a \o b, v)
<1> DEFINE c == Append(b, v)
           l == a \o c
           d == a \o b
           r == Append(d, v)
<1>1. c \in Seq(S) /\ Len(c) = Len(b) + 1 /\ c[Len(b) + 1] = v /\ \A k \in 1 .. Len(b) : c[k] = b[k]
  OBVIOUS
<1> HIDE DEF c
<1>2. l \in Seq(S) /\ Len(l) = Len(a) + Len(b) + 1
  BY <1>1
<1>3. d \in Seq(S) /\ Len(d) = Len(a) + Len(b)
  OBVIOUS
<1>4. /\ \A k \in DOMAIN a : l[k] = a[k] /\ d[k] = a[k]
      /\ \A k \in DOMAIN c : l[Len(a) + k] = c[k]
      /\ \A k \in DOMAIN b : d[Len(a) + k] = b[k]
  BY <1>1, Concatenated
<1> HIDE DEF l, d
<1>5. r \in Seq(S) /\ Len(r) = Len(d) + 1 /\ r[Len(d) + 1] = v /\ \A k \in 1 .. Len(d) : r[k] = d[k]
  BY <1>3
<1> HIDE DEF r
<1>6. ASSUME NEW k \in 1 .. Len(l)
      PROVE  l[k] = r[k]
  <2>1. CASE k <= Len(a)
    <3>1. k \in DOMAIN a /\ k \in 1 .. Len(d)
      BY <1>3, <2>1
    <3> QED BY <1>4, <1>5, <3>1
  <2>2. CASE k > Len(a)
    <3> DEFINE j == k - Len(a)
    <3>1. j \in 1 .. Len(b) + 1 /\ k = Len(a) + j
      BY <1>2, <2>2
    <3> HIDE DEF j
    <3>2. l[k] = c[j]
      BY <1>1, <1>4, <3>1
    <3>3. CASE j = Len(b) + 1
      BY <1>1, <1>3, <1>5, <3>1, <3>2, <3>3
    <3>4. CASE j # Len(b) + 1
      <4>1. j \in 1 .. Len(b) /\ k \in 1 .. Len(d)
        BY <1>3, <3>1, <3>4
      <4>2. d[k] = b[j]
        BY <1>4, <3>1, <4>1
      <4> QED BY <1>1, <1>5, <3>2, <4>1, <4>2
    <3> QED BY <3>3, <3>4
  <2> QED BY <1>2, <2>1, <2>2
<1>7. l = r
  <2>1. Len(l) = Len(r)
    BY <1>2, <1>3, <1>5
  <2> QED BY <1>2, <1>5, <1>6, <2>1
<1> QED BY <1>7 DEF l, r, c, d

\* The next value of a chain is beyond all that was drawn from it.
LEMMA GenerateStep ==
  ASSUME CryptoInv, NEW i, PseudoGenerate(i)
  PROVE  CryptoInv'
<1> DEFINE next == [heap[i].data EXCEPT !.n = @ + 1]
           o == [heap[i] EXCEPT !.data = next]
<1>1. /\ i \in DOMAIN heap /\ Pseudo(heap[i]) /\ UNCHANGED <<tx, flash, token>> /\ Shaped(heap[i])
      /\ heap' = [heap EXCEPT ![i] = o] /\ prng' = [prng EXCEPT !.drawn = Append(@, next)]
  BY ObjectShape DEF PseudoGenerate, InCall, Put
<1>2. WellFormed(heap) /\ token \in Nat /\ HistoryInv /\ Sound(heap, Drawn) /\ IsInjective(Drawn)
  BY DEF CryptoInv, Sound, HistoryInv, PseudoNeverRepeats, Drawn
<1>3. heap[i].data \in Chains /\ heap[i].data.seed <= token
  BY <1>1, <1>2 DEF Sound, ChainsDrawn
<1>4. next \in Chains /\ next.seed = heap[i].data.seed /\ next.n = heap[i].data.n + 1
  BY <1>3 DEF Chains
<1>5. Shaped(o) /\ o.cls = heap[i].cls /\ o.kind = heap[i].kind /\ o.data = next
  BY <1>1, EditField
<1> HIDE DEF o, next
<1>6. /\ DOMAIN heap' = DOMAIN heap /\ heap' = [j \in DOMAIN heap |-> heap'[j]]
      /\ heap'[i] = o /\ \A j \in DOMAIN heap : j # i => heap'[j] = heap[j]
  BY <1>1
<1>7. WellFormed(heap') /\ Len(heap') = Len(heap)
  <2>1. \A j \in DOMAIN heap : Shaped(heap'[j]) /\ heap'[j].cls = heap[j].cls
    BY <1>1, <1>5, <1>6, ObjectShape
  <2>2. \A j \in DOMAIN heap : heap[j].cls = "pair" => heap'[j] = heap[j]
    BY <1>1, <1>6 DEF Pseudo
  <2> QED BY <1>2, <1>6, <2>1, <2>2, MapWellFormed
<1>8. /\ prng'.sent = prng.sent /\ prng'.drawn = Append(prng.drawn, next)
      /\ prng' = [drawn |-> prng'.drawn, sent |-> prng'.sent]
  BY <1>1, <1>2 DEF HistoryInv
<1>9. Drawn' = Append(Drawn, next)
  <2>1. prng.sent \in Seq(Chains) /\ prng.drawn \in Seq(Chains)
    BY <1>2 DEF HistoryInv
  <2> DEFINE a == prng.sent
             b == prng.drawn
  <2> HIDE DEF a, b
  <2>3. a \in Seq(Chains) /\ b \in Seq(Chains) /\ next \in Chains
    BY <1>4, <2>1 DEF a, b
  <2>4. a \o Append(b, next) = Append(a \o b, next)
    BY <2>3, ConcatAppend
  <2>2. prng.sent \o Append(prng.drawn, next) = Append(prng.sent \o prng.drawn, next)
    BY <2>4 DEF a, b
  <2> QED BY <1>8, <2>2 DEF Drawn
<1>10. /\ Drawn \in Seq(Chains) /\ DOMAIN Drawn = 1 .. Len(Drawn) /\ Len(Drawn) \in Nat
       /\ \A k \in DOMAIN Drawn : Drawn[k] \in Chains
  <2>1. /\ Drawn \in Seq(Chains) /\ DOMAIN Drawn = 1 .. Len(Drawn)
        /\ \A k \in DOMAIN Drawn : Drawn[k] \in Chains
    BY <1>2, DrawnType
  <2>2. Len(Drawn) \in Nat
    BY <2>1
  <2> QED BY <2>1, <2>2
<1>11. /\ DOMAIN Append(Drawn, next) = DOMAIN Drawn \cup {Len(Drawn) + 1}
       /\ Append(Drawn, next)[Len(Drawn) + 1] = next
       /\ \A k \in DOMAIN Drawn : Append(Drawn, next)[k] = Drawn[k]
  BY <1>4, <1>10
<1>12. \A k \in DOMAIN Drawn : Drawn[k].seed = next.seed => Drawn[k].n <= heap[i].data.n
  BY <1>1, <1>2, <1>4 DEF Sound, Beyond
<1>13. \A k \in DOMAIN Drawn : Drawn[k] # next
  BY <1>3, <1>4, <1>10, <1>12 DEF Chains
<1>14. PseudoNeverRepeats'
  <2>1. IsInjective(Append(Drawn, next))
    BY <1>2, <1>4, <1>10, <1>13, AppendInjective DEF IsInjective
  <2>2. IsInjective(Drawn')
    BY <1>9, <2>1
  <2> QED BY <2>2 DEF PseudoNeverRepeats, Drawn
<1>15. HistoryInv'
  <2>1. prng'.sent \in Seq(Chains) /\ prng'.drawn \in Seq(Chains)
    BY <1>2, <1>4, <1>8 DEF HistoryInv
  <2>2. \A k \in DOMAIN Drawn' : Drawn'[k].seed <= token
    BY <1>2, <1>3, <1>4, <1>9, <1>11 DEF HistoryInv
  <2> QED BY <1>1, <1>2, <1>8, <2>1, <2>2 DEF HistoryInv
<1>16. \A j \in DOMAIN heap : /\ Pseudo(heap'[j]) <=> Pseudo(heap[j])
                              /\ Pseudo(heap[j]) => heap'[j].data.seed = heap[j].data.seed
  BY <1>1, <1>4, <1>5, <1>6 DEF Pseudo
<1>17. Sound(heap', Append(Drawn, next))
  <2>1. ChainsDrawn(heap')
    BY <1>2, <1>3, <1>4, <1>5, <1>6, <1>16 DEF Sound, ChainsDrawn
  <2>2. ChainsApart(heap')
    BY <1>2, <1>6, <1>16 DEF Sound, ChainsApart
  <2>3. Beyond(heap', Append(Drawn, next))
    <3> SUFFICES ASSUME NEW j \in DOMAIN heap, NEW k \in DOMAIN Append(Drawn, next), Pseudo(heap'[j]),
                        heap'[j].data.seed = Append(Drawn, next)[k].seed
                 PROVE  Append(Drawn, next)[k].n <= heap'[j].data.n
      BY <1>6 DEF Beyond
    <3>1. CASE k \in DOMAIN Drawn /\ j # i
      BY <1>2, <1>6, <1>11, <3>1 DEF Sound, Beyond
    <3>2. CASE k \in DOMAIN Drawn /\ j = i
      <4>1. Append(Drawn, next)[k] = Drawn[k] /\ heap'[j].data = next
        BY <1>5, <1>6, <1>11, <3>2
      <4>2. Drawn[k].n <= heap[i].data.n
        BY <1>12, <3>2, <4>1
      <4>3. Drawn[k].n \in Nat /\ heap[i].data.n \in Nat
        BY <1>3, <1>10, <3>2 DEF Chains
      <4> QED BY <1>4, <4>1, <4>2, <4>3
    <3>3. CASE k = Len(Drawn) + 1
      <4>1. heap[j].data.seed = heap[i].data.seed
        BY <1>4, <1>11, <1>16, <3>3
      <4>2. j = i
        BY <1>1, <1>2, <1>16, <4>1 DEF Sound, ChainsApart
      <4> QED BY <1>3, <1>4, <1>5, <1>6, <1>11, <3>3, <4>2 DEF Chains
    <3> QED BY <1>11, <3>1, <3>2, <3>3
  <2> QED BY <1>7, <2>1, <2>2, <2>3 DEF Sound
<1>18. Sound(heap, Drawn)'
  <2>1. ChainsDrawn(heap)'
    BY <1>1, <1>17 DEF Sound, ChainsDrawn
  <2> QED BY <1>9, <1>17, <2>1 DEF Sound
<1>19. Sound(flash, prng.sent)'
  BY <1>1, <1>8 DEF CryptoInv, Sound, ChainsDrawn, ChainsApart, Beyond
<1>20. ASSUME NEW t, Covers(heap, t)
       PROVE  Covers(heap', t)
  <2>1. /\ DOMAIN heap = 1 .. Len(heap) /\ DOMAIN t = 1 .. Len(t) /\ Len(heap) \in Nat /\ Len(t) \in Nat
    BY <1>2, <1>20, SeqDomain DEF WellFormed, Covers
  <2>2. \A j \in DOMAIN t : j \in DOMAIN heap
    BY <1>20, <2>1 DEF Covers
  <2> QED BY <1>7, <1>16, <1>20, <2>2 DEF Covers
<1> QED BY <1>1, <1>14, <1>15, <1>18, <1>19, <1>20 DEF CryptoInv

-----------------------------------------------------------------------------
(* Transactions, records and restarts *)

\* Objects rewritten in place that keep their words and their chains.
LEMMA MapKept ==
  ASSUME NEW h, WellFormed(h), NEW g, DOMAIN g = DOMAIN h, g = [i \in DOMAIN h |-> g[i]],
         \A i \in DOMAIN h : /\ Shaped(g[i]) /\ g[i].cls = h[i].cls /\ g[i].kind = h[i].kind
                             /\ g[i].data = h[i].data /\ g[i].mat = h[i].mat /\ g[i].pend = h[i].pend
  PROVE  Kept(h, g)
<1>1. WellFormed(g) /\ Len(g) = Len(h)
  BY MapWellFormed
<1>2. Len(h) \in Nat
  BY SeqDomain DEF WellFormed
<1> QED BY <1>1, <1>2 DEF Kept, Pseudo

\* The persistence projection drops streams and transient keys only.
LEMMA ProjectedKept ==
  ASSUME NEW h, WellFormed(h)
  PROVE  Kept(h, Projected(h))
<1> DEFINE g == Projected(h)
<1>1. g = [i \in DOMAIN h |-> Cleared(h[i])]
  BY DEF Projected
<1>2. \A i \in DOMAIN h :
        /\ Shaped(Cleared(h[i])) /\ Cleared(h[i]).cls = h[i].cls /\ Cleared(h[i]).kind = h[i].kind
        /\ Cleared(h[i]).data = h[i].data /\ Cleared(h[i]).mat = h[i].mat
        /\ Cleared(h[i]).pend = h[i].pend
  <2> SUFFICES ASSUME NEW o, Shaped(o)
               PROVE  /\ Shaped(Cleared(o)) /\ Cleared(o).cls = o.cls /\ Cleared(o).kind = o.kind
                      /\ Cleared(o).data = o.data /\ Cleared(o).mat = o.mat /\ Cleared(o).pend = o.pend
    BY DEF WellFormed
  <2> QED BY EditBuf DEF Cleared
<1> HIDE DEF g
<1>3. DOMAIN g = DOMAIN h /\ g = [i \in DOMAIN h |-> g[i]] /\ \A i \in DOMAIN h : g[i] = Cleared(h[i])
  BY <1>1
<1>4. Kept(h, g)
  BY <1>2, <1>3, MapKept
<1> QED BY <1>4 DEF g

\* Closing the temporary digests.
LEMMA ReleasedKept ==
  ASSUME NEW h, WellFormed(h)
  PROVE  Kept(h, Released(h))
<1> DEFINE g == Released(h)
           new(o) == IF o.cls = "oneshot" THEN [o EXCEPT !.ready = 0, !.size = 1] ELSE o
<1>1. g = [i \in DOMAIN h |-> new(h[i])]
  BY DEF Released
<1>2. ASSUME NEW o, Shaped(o)
      PROVE  /\ Shaped(new(o)) /\ new(o).cls = o.cls /\ new(o).kind = o.kind
             /\ new(o).data = o.data /\ new(o).mat = o.mat /\ new(o).pend = o.pend
  <2> DEFINE w == [o EXCEPT !.ready = 0]
             z == [w EXCEPT !.size = 1]
  <2>1. new(o) = IF o.cls = "oneshot" THEN z ELSE o
    OBVIOUS
  <2>2. /\ Shaped(w) /\ w.cls = o.cls /\ w.kind = o.kind /\ w.data = o.data
        /\ w.mat = o.mat /\ w.pend = o.pend
    BY <1>2, EditReady
  <2> HIDE DEF w, new
  <2>3. /\ Shaped(z) /\ z.cls = o.cls /\ z.kind = o.kind /\ z.data = o.data
        /\ z.mat = o.mat /\ z.pend = o.pend
    BY <2>2 DEF Shaped
  <2> HIDE DEF z
  <2> QED BY <1>2, <2>1, <2>3
<1> HIDE DEF g, new
<1>3. DOMAIN g = DOMAIN h /\ g = [i \in DOMAIN h |-> g[i]] /\ \A i \in DOMAIN h : g[i] = new(h[i])
  BY <1>1
<1>4. \A i \in DOMAIN h : Shaped(h[i])
  BY DEF WellFormed
<1>5. \A i \in DOMAIN h : /\ Shaped(g[i]) /\ g[i].cls = h[i].cls /\ g[i].kind = h[i].kind
                          /\ g[i].data = h[i].data /\ g[i].mat = h[i].mat /\ g[i].pend = h[i].pend
  BY <1>2, <1>3, <1>4
<1>6. Kept(h, g)
  BY <1>3, <1>5, MapKept
<1> QED BY <1>6 DEF g

\* An abort restores the words of the snapshot and keeps the chains: what it
\* leaves draws on from where the heap stood.
LEMMA RolledBackWithin ==
  ASSUME NEW now, NEW then, WellFormed(now), Covers(now, then)
  PROVE  Within(now, RolledBack(now, then))
<1> DEFINE g == RolledBack(now, then)
           b(i) == IF (then[i].cls = "key" /\ then[i].mat = 1) \/ HasStream(then[i])
                   THEN now[i].buf ELSE then[i].buf
           d(i) == IF Pseudo(then[i]) THEN now[i].data ELSE then[i].data
           c(i) == IF then[i].cls = "oneshot" /\ now[i].ready = 0 THEN 0 ELSE then[i].ready
           new(i) == [then[i] EXCEPT !.buf = b(i), !.data = d(i), !.ready = c(i)]
<1>1. g = [i \in DOMAIN then |-> new(i)]
  BY DEF RolledBack
<1>2. \A i \in DOMAIN then :
        /\ Shaped(new(i)) /\ new(i).cls = then[i].cls /\ new(i).kind = then[i].kind
        /\ new(i).data = d(i) /\ new(i).mat = then[i].mat /\ new(i).pend = then[i].pend
  <2>1. \A i \in DOMAIN then : Shaped(then[i])
    BY DEF Covers, WellFormed
  <2> SUFFICES ASSUME NEW i \in DOMAIN then
               PROVE  /\ Shaped(new(i)) /\ new(i).cls = then[i].cls /\ new(i).kind = then[i].kind
                      /\ new(i).data = d(i) /\ new(i).mat = then[i].mat /\ new(i).pend = then[i].pend
    OBVIOUS
  <2> DEFINE o == then[i]
             x == b(i)
             y == d(i)
             z == c(i)
             w1 == [o EXCEPT !.buf = x]
             w2 == [w1 EXCEPT !.data = y]
             w3 == [w2 EXCEPT !.ready = z]
  <2>2. new(i) = w3 /\ Shaped(o)
    BY <2>1
  <2> HIDE DEF o, x, y, z, new
  <2>3. /\ Shaped(w1) /\ w1.cls = o.cls /\ w1.kind = o.kind
        /\ w1.mat = o.mat /\ w1.pend = o.pend
    BY <2>2, EditBuf
  <2> HIDE DEF w1
  <2>4. /\ Shaped(w2) /\ w2.cls = o.cls /\ w2.kind = o.kind /\ w2.data = y
        /\ w2.mat = o.mat /\ w2.pend = o.pend
    BY <2>3 DEF Shaped
  <2> HIDE DEF w2
  <2>5. /\ Shaped(w3) /\ w3.cls = o.cls /\ w3.kind = o.kind /\ w3.data = y
        /\ w3.mat = o.mat /\ w3.pend = o.pend
    BY <2>4, EditReady
  <2> HIDE DEF w3, b, c, d
  <2> QED BY <2>2, <2>5 DEF o, y
<1> HIDE DEF g, new, b, c
<1>3. /\ DOMAIN g = DOMAIN then /\ g = [i \in DOMAIN then |-> g[i]]
      /\ \A i \in DOMAIN then : g[i] = new(i)
  BY <1>1
<1>4. WellFormed(g)
  <2>1. WellFormed(then)
    BY DEF Covers
  <2>2. \A i \in DOMAIN then :
          /\ Shaped(g[i]) /\ g[i].cls = then[i].cls
          /\ then[i].cls = "pair" =>
               g[i].kind = then[i].kind /\ g[i].mat = then[i].mat /\ g[i].pend = then[i].pend
    BY <1>2, <1>3
  <2> QED BY <1>3, <2>1, <2>2, MapWellFormed
<1>5. \A i \in DOMAIN then : i \in DOMAIN now
  <2>1. /\ DOMAIN now = 1 .. Len(now) /\ Len(now) \in Nat
        /\ DOMAIN then = 1 .. Len(then) /\ Len(then) \in Nat
    BY SeqDomain DEF WellFormed, Covers
  <2> QED BY <2>1 DEF Covers
<1>6. ASSUME NEW i \in DOMAIN then, Pseudo(g[i])
      PROVE  i \in DOMAIN now /\ Pseudo(now[i]) /\ g[i].data = now[i].data
  <2>1. Pseudo(then[i])
    BY <1>2, <1>3, <1>6 DEF Pseudo
  <2> QED BY <1>2, <1>3, <1>5, <2>1 DEF Covers
<1>7. Within(now, g)
  BY <1>3, <1>4, <1>6 DEF Within
<1> QED BY <1>7 DEF g

\* What a rollback would leave draws on where the heap stands.
LEMMA CommittedSound ==
  ASSUME CryptoInv
  PROVE  Sound(Committed, Drawn)
<1>1. CASE tx = NoTx
  BY <1>1 DEF Committed, CryptoInv
<1>2. CASE tx # NoTx
  <2>1. Within(heap, RolledBack(heap, tx[1]))
    BY <1>2, RolledBackWithin DEF CryptoInv, Sound
  <2>2. Sound(RolledBack(heap, tx[1]), Drawn)
    BY <2>1, WithinSound DEF CryptoInv
  <2> QED BY <1>2, <2>2 DEF Committed
<1> QED BY <1>1, <1>2

\* A heap past the values drawn is past those that left the card.
LEMMA SentSound ==
  ASSUME HistoryInv, NEW h, Sound(h, Drawn)
  PROVE  Sound(h, prng.sent)
<1>1. \A k \in DOMAIN prng.sent : k \in DOMAIN Drawn /\ Drawn[k] = prng.sent[k]
  BY DrawnType
<1>2. Beyond(h, prng.sent)
  BY <1>1 DEF Sound, Beyond
<1> QED BY <1>2 DEF Sound

\* The record saved of a heap.
LEMMA ProjectedSound ==
  ASSUME NEW h, NEW s, Sound(h, s)
  PROVE  Sound(Projected(h), s)
<1>1. Kept(h, Projected(h))
  BY ProjectedKept DEF Sound
<1> QED BY <1>1, KeptSound

\* The heap with its temporary digests closed.
LEMMA ReleasedSound ==
  ASSUME NEW h, NEW s, Sound(h, s)
  PROVE  Sound(Released(h), s)
<1>1. Kept(h, Released(h))
  BY ReleasedKept DEF Sound
<1> QED BY <1>1, KeptSound

\* Steps between two commands and around a transaction.
LEMMA TransactionStep ==
  ASSUME CryptoInv, Enter \/ Begin \/ Commit \/ Abort \/ CheckpointPin
  PROVE  CryptoInv'
<1>1. UNCHANGED <<token, prng>>
  BY DEF Enter, Begin, Commit, Abort, CheckpointPin
<1>2. HistoryInv' /\ PseudoNeverRepeats' /\ Drawn' = Drawn
  BY <1>1 DEF CryptoInv, HistoryInv, PseudoNeverRepeats, Drawn
<1>3. ASSUME NEW h, NEW s, Sound(h, s)
      PROVE  WellFormed(h) /\ ChainsApart(h) /\ Beyond(h, s)
             /\ \A i \in DOMAIN h : Pseudo(h[i]) => h[i].data \in Chains /\ h[i].data.seed <= token'
  BY <1>1, <1>3 DEF Sound, ChainsDrawn
<1>4. ASSUME Sound(heap', Drawn)
      PROVE  Sound(heap, Drawn)'
  BY <1>2, <1>3, <1>4 DEF Sound, ChainsDrawn
<1>5. ASSUME Sound(flash', prng.sent)
      PROVE  Sound(flash, prng.sent)'
  BY <1>1, <1>3, <1>5 DEF Sound, ChainsDrawn
<1>6. CASE Enter
  BY <1>2, <1>4, <1>5, <1>6, <1>1 DEF Enter, CryptoInv
<1>7. CASE Begin
  <2>1. tx' = <<heap>> /\ heap' = heap /\ flash' = flash
    BY <1>7 DEF Begin
  <2>2. Covers(heap, heap)
    <3>1. WellFormed(heap) /\ Len(heap) \in Nat
      BY SeqDomain DEF CryptoInv, Sound, WellFormed
    <3> QED BY <3>1 DEF Covers
  <2>3. tx'[1] = heap
    BY <2>1
  <2> QED BY <1>2, <1>4, <1>5, <2>1, <2>2, <2>3 DEF CryptoInv
<1>8. CASE Commit
  <2>1. tx' = NoTx /\ heap' = heap /\ flash' = Projected(heap)
    BY <1>8 DEF Commit
  <2>2. Sound(flash', prng.sent)
    BY <2>1, SentSound, ProjectedSound DEF CryptoInv
  <2> QED BY <1>2, <1>4, <1>5, <2>1, <2>2 DEF CryptoInv
<1>9. CASE Abort
  <2>1. tx' = NoTx /\ heap' = Committed /\ flash' = flash
    BY <1>9 DEF Abort, Committed
  <2> QED BY <1>2, <1>4, <1>5, <2>1, CommittedSound DEF CryptoInv
<1>10. CASE CheckpointPin
  <2>1. tx' = tx /\ heap' = heap /\ flash' = Projected(Committed)
    BY <1>10 DEF CheckpointPin
  <2>2. Sound(Committed, prng.sent)
    BY CommittedSound, SentSound DEF CryptoInv
  <2>3. Sound(flash', prng.sent)
    BY <2>1, <2>2, ProjectedSound
  <2> QED BY <1>2, <1>4, <1>5, <2>1, <2>3 DEF CryptoInv
<1> QED BY <1>6, <1>7, <1>8, <1>9, <1>10

\* Nothing after a sequence.
LEMMA NothingMore ==
  ASSUME NEW S, NEW s \in Seq(S)
  PROVE  s \o <<>> = s
OBVIOUS

\* A command that returns sends what it drew; a restart forgets what was drawn
\* and not sent.
LEMMA RestartStep ==
  ASSUME CryptoInv, Return \/ Recover
  PROVE  CryptoInv'
<1>1. /\ token' = token /\ token \in Nat /\ HistoryInv /\ tx' = NoTx
      /\ prng.sent \in Seq(Chains) /\ prng.drawn \in Seq(Chains)
  BY DEF Return, Recover, CryptoInv, HistoryInv
<1>2. /\ Drawn \in Seq(Chains) /\ DOMAIN Drawn = 1 .. Len(Drawn)
      /\ \A k \in DOMAIN prng.sent : k \in DOMAIN Drawn /\ Drawn[k] = prng.sent[k]
  BY <1>1, DrawnType
<1>3. \A k \in DOMAIN Drawn : Drawn[k].seed <= token
  BY <1>1 DEF HistoryInv
<1>4. \A a, b \in DOMAIN Drawn : Drawn[a] = Drawn[b] => a = b
  BY DEF CryptoInv, PseudoNeverRepeats, Drawn, IsInjective
<1>5. ASSUME NEW s \in Seq(Chains), prng' = [drawn |-> <<>>, sent |-> s],
             \A k \in DOMAIN s : k \in DOMAIN Drawn /\ s[k] = Drawn[k],
             Sound(heap', s), Sound(flash', s)
      PROVE  CryptoInv'
  <2>1. prng'.sent = s /\ prng'.drawn = <<>>
    BY <1>5
  <2>2. Drawn' = s
    BY <1>5, <2>1, NothingMore DEF Drawn
  <2>3. HistoryInv'
    BY <1>1, <1>3, <1>5, <2>1, <2>2 DEF HistoryInv
  <2>4. IsInjective(s)
    BY <1>4, <1>5 DEF IsInjective
  <2>5. PseudoNeverRepeats'
    BY <2>2, <2>4 DEF PseudoNeverRepeats, Drawn
  <2>6. ChainsDrawn(heap)' /\ ChainsDrawn(flash)'
    BY <1>1, <1>5 DEF Sound, ChainsDrawn
  <2> QED BY <1>1, <1>5, <2>1, <2>2, <2>3, <2>5, <2>6 DEF CryptoInv, Sound
<1>6. CASE Return
  <2>1. heap' = Released(Committed) /\ flash' = Projected(heap') /\ prng' = [drawn |-> <<>>, sent |-> Drawn]
    BY <1>6 DEF Return, Drawn
  <2>2. Sound(heap', Drawn)
    BY <2>1, CommittedSound, ReleasedSound
  <2>3. Sound(flash', Drawn)
    BY <2>1, <2>2, ProjectedSound
  <2> QED BY <1>2, <1>5, <2>1, <2>2, <2>3
<1>7. CASE Recover
  <2>1. heap' = Released(flash) /\ flash' = flash /\ prng' = [drawn |-> <<>>, sent |-> prng.sent]
    BY <1>1, <1>7 DEF Recover, HistoryInv
  <2>2. Sound(heap', prng.sent) /\ Sound(flash', prng.sent)
    BY <2>1, ReleasedSound DEF CryptoInv
  <2> QED BY <1>1, <1>2, <1>5, <2>1, <2>2
<1> QED BY <1>6, <1>7

\* Deselecting clears transient keys.
LEMMA DeselectStep ==
  ASSUME CryptoInv, Deselect
  PROVE  CryptoInv'
<1> DEFINE new(i) == IF heap[i].cls = "key" /\ ClearEvent(heap[i].kind) = "deselect"
                     THEN [heap[i] EXCEPT !.buf = NoValue] ELSE heap[i]
<1>1. heap' = [i \in DOMAIN heap |-> new(i)] /\ UNCHANGED <<tx, flash, token, prng>>
  BY DEF Deselect
<1>2. \A i \in DOMAIN heap :
        /\ Shaped(new(i)) /\ new(i).cls = heap[i].cls /\ new(i).kind = heap[i].kind
        /\ new(i).data = heap[i].data /\ new(i).mat = heap[i].mat /\ new(i).pend = heap[i].pend
  <2>1. ASSUME NEW o, Shaped(o)
        PROVE  LET w == [o EXCEPT !.buf = NoValue] IN
               /\ Shaped(w) /\ w.cls = o.cls /\ w.kind = o.kind /\ w.data = o.data
               /\ w.mat = o.mat /\ w.pend = o.pend
    BY <2>1 DEF Shaped
  <2> QED BY <2>1, ObjectShape
<1> HIDE DEF new
<1>3. /\ DOMAIN heap' = DOMAIN heap /\ heap' = [i \in DOMAIN heap |-> heap'[i]]
      /\ \A i \in DOMAIN heap : heap'[i] = new(i)
  BY <1>1
<1>4. WellFormed(heap) /\ token \in Nat
  BY DEF CryptoInv, Sound, HistoryInv
<1>5. Kept(heap, heap')
  BY <1>2, <1>3, <1>4, MapKept
<1> QED BY <1>1, <1>4, <1>5, QuietStep

-----------------------------------------------------------------------------
(* The theorems *)

\* An applet begins with nothing on its heap and nothing drawn.
LEMMA CryptoInit == Init => CryptoInv
<1> SUFFICES ASSUME Init PROVE CryptoInv
  OBVIOUS
<1>1. heap = <<>> /\ flash = <<>> /\ tx = NoTx /\ token = 1 /\ prng = [drawn |-> <<>>, sent |-> <<>>]
  BY DEF Init
<1>2. Drawn = <<>> /\ DOMAIN Drawn = {}
  BY <1>1 DEF Drawn
<1>3. HistoryInv
  BY <1>1, <1>2 DEF HistoryInv
<1>4. PseudoNeverRepeats
  BY <1>2 DEF PseudoNeverRepeats, Drawn, IsInjective
<1>5. WellFormed(<<>>) /\ DOMAIN <<>> = {}
  <2>1. <<>> \in Seq({}) /\ DOMAIN <<>> = {}
    OBVIOUS
  <2> QED BY <2>1 DEF WellFormed, IsSeq, PairsJoined
<1>6. Sound(<<>>, <<>>)
  BY <1>5 DEF Sound, ChainsDrawn, ChainsApart, Beyond
<1> QED BY <1>1, <1>2, <1>3, <1>4, <1>6 DEF CryptoInv

\* Every call, and every step around it, keeps the invariant.
LEMMA CryptoNext == CryptoInv /\ [Next]_vars => CryptoInv'
<1> SUFFICES ASSUME CryptoInv, [Next]_vars PROVE CryptoInv'
  OBVIOUS
<1>1. CASE Enter \/ Begin \/ Commit \/ Abort \/ CheckpointPin
  BY <1>1, TransactionStep
<1>2. CASE Return \/ Recover
  BY <1>2, RestartStep
<1>3. CASE Deselect
  BY <1>3, DeselectStep
<1>4. CASE KeyOps
  <2>1. CASE \E c \in Constructed : BuildKey(c[2], c[3])
    BY <2>1, ConstructStep
  <2>2. CASE ~ \E c \in Constructed : BuildKey(c[2], c[3])
    BY <1>4, <2>2, KeyStep DEF KeyOps
  <2> QED BY <2>1, <2>2
<1>5. CASE NewPair
  BY <1>5, ConstructStep
<1>6. CASE \E p \in DOMAIN heap : \E c \in Constructed : PairNew(p, c[2], c[3])
  BY <1>6, PairNewStep
<1>7. CASE \E p, i, j \in DOMAIN heap : PairOf(p, i, j)
  BY <1>7, PairOfStep
<1>8. CASE \E p \in DOMAIN heap : GenKeyPair(p)
  BY <1>8, GenKeyPairStep
<1>9. CASE \E c \in Constructed : GetInstance(c[1], c[2])
  BY <1>9, GetInstanceStep
<1>10. CASE \/ \E i, k \in DOMAIN heap : \E mode \in {1, 2}, iv \in {0, 1} : SignInit(i, k, mode, iv)
            \/ \E i, k \in DOMAIN heap : AgreeInit(i, k)
            \/ \E i, k \in DOMAIN heap : \E mode \in {1, 2}, iv \in {0, 1} : CipherInit(i, k, mode, iv)
  BY <1>10, InitStep
<1>11. CASE \/ \E i \in DOMAIN heap : \E n \in Chunks : SignUpdate(i, n)
            \/ \E i \in DOMAIN heap : \E n \in Chunks : SignFinal(i, n)
            \/ \E i \in DOMAIN heap : SignHash(i)
            \/ \E i \in DOMAIN heap : \E n \in Chunks, t \in 0 .. Block : CipherFinal(i, n, t)
            \/ \E i \in DOMAIN heap : \E n \in Chunks : RsaUpdate(i, n)
            \/ \E i \in DOMAIN heap : \E n \in Chunks : RsaFinal(i, n)
            \/ \E i \in DOMAIN heap : \E n \in Chunks : DigestFinal(i, n)
            \/ \E i \in DOMAIN heap : \E iv \in {0, 1} : DigestReset(i, iv)
  BY <1>11, StreamStep
<1>12. CASE \/ \E i \in DOMAIN heap : \E n \in Chunks : CipherUpdate(i, n)
            \/ \E i \in DOMAIN heap : \E n \in Chunks : DigestUpdate(i, n)
  BY <1>12, UpdateStep
<1>13. CASE (\E c \in Constructed : OpenOneShot(c[2])) \/ (\E i \in DOMAIN heap : CloseOneShot(i))
  BY <1>13, OneShotStep
<1>14. CASE \E i \in DOMAIN heap : PseudoGenerate(i)
  BY <1>14, GenerateStep
<1>15. CASE (\E i \in DOMAIN heap : SetSeed(i)) \/ (\E i \in DOMAIN heap : SecureGenerate(i))
  BY <1>15, SeedStep
<1>16. CASE UNCHANGED vars
  <2>1. UNCHANGED <<heap, tx, flash, token, prng>>
    BY <1>16 DEF vars
  <2> QED BY <2>1 DEF CryptoInv, HistoryInv, PseudoNeverRepeats, Sound, ChainsDrawn, Drawn
<1> QED BY <1>1, <1>2, <1>3, <1>4, <1>5, <1>6, <1>7, <1>8, <1>9, <1>10, <1>11, <1>12, <1>13, <1>14,
           <1>15, <1>16 DEF Next

\* The inductive invariant holds of every behaviour of the security objects
\* (security/*.rs under the heap's transactions): chains start from different
\* entropy, heap and record are past every value drawn or sent from a chain
\* they hold, and a rollback restores no source the heap has not got.
THEOREM CryptoInvariantHolds == Spec => []CryptoInv
<1>1. Init => CryptoInv
  BY CryptoInit
<1>2. CryptoInv /\ [Next]_vars => CryptoInv'
  BY CryptoNext
<1> QED BY <1>1, <1>2, PTL DEF Spec

\* No pseudo-random value is drawn twice (random.rs writes the chain outside
\* rollback, and a command's response leaves after its record is saved), for
\* any applet and any number of objects.
THEOREM CryptoPseudoNeverRepeats == Spec => []PseudoNeverRepeats
<1>1. CryptoInv => PseudoNeverRepeats
  BY DEF CryptoInv
<1> QED BY <1>1, CryptoInvariantHolds, PTL

-----------------------------------------------------------------------------
(* Records load again *)

\* What the words of a key promise validate_saved_security.
GoodKey(o) ==
  /\ o.kind \in EcKinds => o.size \in {256, 384} /\ o.ready = 0
  /\ ClearEvent(o.kind) # "none" => o.ready = 0
  /\ o.kind = 4 => /\ o.ready \in 0 .. 3
                   /\ o.ready \in {1, 3} => o.mat = 1 /\ o.data.val # 0
                   /\ o.ready \in {2, 3} => o.pend = 1
  /\ o.kind = 6 => o.ready \in 0 .. 1 /\ (o.ready = 1 => o.mat = 1 /\ o.data.val # 0)

\* Object o would pass it in heap h.
Good(h, o) ==
  /\ o.mat \in 0 .. Len(h) /\ o.pend \in 0 .. Len(h)
  /\ o.cls = "key" => GoodKey(o)
  /\ o.cls = "sign" => ValidSignature(h, o)
  /\ o.cls = "cipher" /\ o.kind # 12 => ValidCipher(h, o)
  /\ o.cls = "agree" => ValidAgreement(h, o)
  /\ o.cls = "pair" => ValidPair(h, o)

Loads(h) == \A i \in DOMAIN h : Good(h, h[i])

Open(o) == o.cls = "oneshot" /\ o.ready = 1
OneOpen(h) == \A i, j \in DOMAIN h : Open(h[i]) /\ Open(h[j]) => i = j

\* Not only the record but the heap, and the heap an abort would return to,
\* must be such that a record of them loads.
RecordInv ==
  /\ Loads(heap) /\ OneOpen(heap) /\ Loads(flash)
  /\ Len(heap) <= MaxObj /\ Len(flash) <= MaxObj
  /\ token \in 1 .. MaxToken /\ running \in BOOLEAN /\ locked \in BOOLEAN
  /\ tx # NoTx => running /\ Loads(tx[1]) /\ OneOpen(tx[1])

\* Object w has the words of object o that matter to a record: a temporary
\* digest may have been closed, and what is no key may hold other data.
Alike(o, w) ==
  /\ w.cls = o.cls /\ w.kind = o.kind /\ w.mat = o.mat /\ w.pend = o.pend /\ w.mode = o.mode
  /\ o.cls # "oneshot" => w.size = o.size /\ w.ready = o.ready
  /\ o.cls = "key" => w.data = o.data
  /\ Open(w) => Open(o)

\* It loads where the other did.
LEMMA AlikeGood ==
  ASSUME NEW h, NEW o, NEW w, Good(h, o), Alike(o, w)
  PROVE  Good(h, w)
<1>1. o.cls = "key" => GoodKey(w)
  BY DEF Good, Alike, GoodKey
<1>2. ASSUME NEW k, o.cls # "oneshot"
      PROVE  KeyFits(o, k) => KeyFits(w, k)
  BY <1>2 DEF Alike, KeyFits
<1>3. o.cls = "sign" => ValidSignature(h, w)
  BY <1>2 DEF Good, Alike, ValidSignature
<1>4. o.cls = "cipher" /\ o.kind # 12 => ValidCipher(h, w)
  BY <1>2 DEF Good, Alike, ValidCipher
<1>5. o.cls = "agree" => ValidAgreement(h, w)
  BY <1>2 DEF Good, Alike, ValidAgreement
<1>6. o.cls = "pair" => ValidPair(h, w)
  BY DEF Good, Alike, ValidPair
<1> QED BY <1>1, <1>3, <1>4, <1>5, <1>6 DEF Good, Alike

\* Heap g has the keys of heap h, of the same kinds and sizes.
Grows(h, g) ==
  /\ Len(h) \in Nat /\ Len(g) \in Nat /\ Len(h) <= Len(g)
  /\ \A i \in Keys(h) : i \in Keys(g) /\ g[i].kind = h[i].kind /\ g[i].size = h[i].size

\* Which key an algorithm may name depends on the key's kind and size only.
LEMMA FitsAlike ==
  ASSUME NEW o, NEW k, NEW l, KeyFits(o, k), l.kind = k.kind, l.size = k.size
  PROVE  KeyFits(o, l)
BY DEF KeyFits

\* So what loads in a heap loads in one that has its keys.
LEMMA GrowsGood ==
  ASSUME NEW h, NEW g, NEW o, Good(h, o), Grows(h, g)
  PROVE  Good(g, o)
<1>1. o.mat \in 0 .. Len(g) /\ o.pend \in 0 .. Len(g)
  BY DEF Good, Grows
<1>2. ASSUME o.mat \in Keys(h), KeyFits(o, h[o.mat])
      PROVE  o.mat \in Keys(g) /\ KeyFits(o, g[o.mat])
  BY <1>2, FitsAlike DEF Grows
<1>3. o.cls = "sign" => ValidSignature(g, o)
  BY <1>2 DEF Good, ValidSignature
<1>4. o.cls = "cipher" /\ o.kind # 12 => ValidCipher(g, o)
  BY <1>2 DEF Good, ValidCipher
<1>5. o.cls = "agree" => ValidAgreement(g, o)
  BY <1>2 DEF Good, ValidAgreement
<1>6. o.cls = "pair" => ValidPair(g, o)
  BY DEF Good, ValidPair, Grows
<1> QED BY <1>1, <1>3, <1>4, <1>5, <1>6 DEF Good

\* Objects rewritten in place.
Rewritten(h, g) ==
  /\ DOMAIN g = DOMAIN h /\ Len(g) = Len(h) /\ Len(h) \in Nat
  /\ \A i \in DOMAIN h :
       /\ Good(h, g[i]) /\ g[i].cls = h[i].cls
       /\ h[i].cls = "key" => g[i].kind = h[i].kind /\ g[i].size = h[i].size

\* The rewritten heap loads.
LEMMA RewrittenLoads ==
  ASSUME NEW h, NEW g, Rewritten(h, g)
  PROVE  Loads(g)
<1>1. Grows(h, g)
  BY DEF Rewritten, Grows, Keys
<1> QED BY <1>1, GrowsGood DEF Rewritten, Loads

\* In particular when every object keeps the words that matter.
LEMMA AlikeLoads ==
  ASSUME NEW h, Loads(h), NEW g, DOMAIN g = DOMAIN h, Len(g) = Len(h), Len(h) \in Nat,
         \A i \in DOMAIN h : Alike(h[i], g[i])
  PROVE  Loads(g) /\ (OneOpen(h) => OneOpen(g))
<1>1. \A i \in DOMAIN h : Good(h, g[i])
  BY AlikeGood DEF Loads
<1>2. \A i \in DOMAIN h : h[i].cls = "key" => g[i].kind = h[i].kind /\ g[i].size = h[i].size
  BY DEF Alike
<1>3. Rewritten(h, g)
  BY <1>1, <1>2 DEF Rewritten, Alike
<1>4. OneOpen(h) => OneOpen(g)
  BY DEF OneOpen, Alike
<1> QED BY <1>3, <1>4, RewrittenLoads

-----------------------------------------------------------------------------
(* Calls *)

\* A call changes the heap, and may draw a token.
Calling ==
  running /\ UNCHANGED <<tx, flash, running, locked>> /\ token' \in 1 .. MaxToken

\* What the heap must be after it.
LEMMA CallRecord ==
  ASSUME RecordInv, Calling, Loads(heap'), OneOpen(heap'), Len(heap') <= MaxObj
  PROVE  RecordInv'
BY DEF RecordInv, Calling, Loads, OneOpen

\* A heap is a sequence of records.
LEMMA HeapShape ==
  ASSUME CryptoInv
  PROVE  /\ WellFormed(heap) /\ IsSeq(heap) /\ DOMAIN heap = 1 .. Len(heap) /\ Len(heap) \in Nat
         /\ \A i \in DOMAIN heap : Shaped(heap[i])
BY SeqDomain DEF CryptoInv, Sound, WellFormed

\* An object is replaced by one of its class.
LEMMA PutRecord ==
  ASSUME CryptoInv, RecordInv, Calling, NEW i \in DOMAIN heap, NEW o, Put(i, o),
         Good(heap, o), o.cls = heap[i].cls,
         o.cls = "key" => o.kind = heap[i].kind /\ o.size = heap[i].size,
         Open(o) => \A j \in DOMAIN heap : j = i \/ ~Open(heap[j])
  PROVE  RecordInv'
<1>1. IsSeq(heap) /\ Len(heap) \in Nat
  BY HeapShape
<1> DEFINE g == [heap EXCEPT ![i] = o]
<1>2. heap' = g
  BY DEF Put
<1>3. /\ DOMAIN g = DOMAIN heap /\ Len(g) = Len(heap)
      /\ g[i] = o /\ \A j \in DOMAIN heap : j # i => g[j] = heap[j]
  BY <1>1, PutSeq
<1> HIDE DEF g
<1>4. Rewritten(heap, g)
  <2>1. \A j \in DOMAIN heap : Good(heap, g[j])
    BY <1>3 DEF RecordInv, Loads
  <2> QED BY <1>1, <1>3, <2>1 DEF Rewritten
<1>5. Loads(g)
  BY <1>4, RewrittenLoads
<1>6. OneOpen(g)
  BY <1>3 DEF RecordInv, OneOpen
<1> QED BY <1>2, <1>3, <1>5, <1>6, CallRecord DEF RecordInv

\* An object keeps the words that matter.
LEMMA AlikeRecord ==
  ASSUME CryptoInv, RecordInv, Calling, NEW i \in DOMAIN heap, NEW o, Put(i, o), Alike(heap[i], o)
  PROVE  RecordInv'
<1>1. Good(heap, o)
  BY AlikeGood DEF RecordInv, Loads
<1>2. o.cls = heap[i].cls /\ (o.cls = "key" => o.kind = heap[i].kind /\ o.size = heap[i].size)
  BY DEF Alike
<1>3. Open(o) => \A j \in DOMAIN heap : j = i \/ ~Open(heap[j])
  BY DEF Alike, RecordInv, OneOpen
<1> QED BY <1>1, <1>2, <1>3, PutRecord

\* A new object names nothing yet.
New(o) ==
  /\ o.mat \in {0, 1} /\ o.pend \in {0, 1}
  /\ o.cls = "key" => GoodKey(o)
  /\ o.cls = "sign" => Available("sign", o.kind) /\ o.mat = 0 /\ o.ready = 0
  /\ o.cls = "cipher" /\ o.kind # 12 =>
       (o.kind \in AesCipher \/ (Des /\ IsDesCipher(o.kind))) /\ o.pend = 1 /\ o.mat = 0 /\ o.ready = 0
  /\ o.cls = "agree" => o.kind = 3 /\ o.mat = 0 /\ o.ready = 0
  /\ o.cls = "pair" => o.kind = 0 /\ o.size = 0 /\ o.mat = 0 /\ o.pend = 0

\* It loads in any heap.
LEMMA NewGood ==
  ASSUME NEW g, Len(g) \in Nat, Len(g) > 0, NEW o, New(o)
  PROVE  Good(g, o)
<1>1. o.mat \in 0 .. Len(g) /\ o.pend \in 0 .. Len(g)
  BY DEF New
<1>2. o.cls = "sign" => ValidSignature(g, o)
  BY DEF New, ValidSignature
<1>3. o.cls = "cipher" /\ o.kind # 12 => ValidCipher(g, o)
  BY DEF New, ValidCipher
<1>4. o.cls = "agree" => ValidAgreement(g, o)
  BY DEF New, ValidAgreement
<1>5. o.cls = "pair" => ValidPair(g, o)
  BY DEF New, ValidPair
<1> QED BY <1>1, <1>2, <1>3, <1>4, <1>5 DEF Good, New

\* An object is added.
LEMMA AppendRecord ==
  ASSUME CryptoInv, RecordInv, Calling, Len(heap) + 1 <= MaxObj, NEW o, heap' = Append(heap, o),
         New(o), Open(o) => \A j \in DOMAIN heap : ~Open(heap[j])
  PROVE  RecordInv'
<1>1. IsSeq(heap) /\ Len(heap) \in Nat
  BY HeapShape
<1> DEFINE g == Append(heap, o)
<1>2. /\ DOMAIN g = DOMAIN heap \cup {Len(heap) + 1} /\ Len(g) = Len(heap) + 1
      /\ g[Len(heap) + 1] = o /\ \A j \in DOMAIN heap : g[j] = heap[j]
  BY <1>1, AppendSeq
<1>3. heap' = g
  OBVIOUS
<1> HIDE DEF g
<1>4. Grows(heap, g)
  BY <1>1, <1>2 DEF Grows, Keys
<1>5. Good(g, o)
  BY <1>1, <1>2, NewGood
<1>6. \A j \in DOMAIN heap : Good(g, heap[j])
  BY <1>4, GrowsGood DEF RecordInv, Loads
<1>7. Loads(g)
  BY <1>2, <1>5, <1>6 DEF Loads
<1>8. OneOpen(g)
  BY <1>2 DEF RecordInv, OneOpen
<1> QED BY <1>2, <1>3, <1>7, <1>8, CallRecord

\* Only an array that is not saved is rewritten.
LEMMA BufAlike ==
  ASSUME NEW o, Shaped(o), NEW v
  PROVE  LET w == [o EXCEPT !.buf = v] IN Shaped(w) /\ Alike(o, w)
BY DEF Shaped, Alike, Open

\* Updates and finals write the stream array.
LEMMA StreamRecord ==
  ASSUME CryptoInv, RecordInv, NEW i, NEW n, NEW t,
         \/ SignUpdate(i, n) \/ SignFinal(i, n) \/ SignHash(i)
         \/ CipherFinal(i, n, t) \/ RsaUpdate(i, n) \/ RsaFinal(i, n)
         \/ DigestFinal(i, n) \/ DigestReset(i, n) \/ CipherUpdate(i, n)
  PROVE  RecordInv'
<1>1. Calling /\ i \in DOMAIN heap /\ Shaped(heap[i])
  BY HeapShape DEF SignUpdate, SignFinal, SignHash, CipherFinal, RsaUpdate, RsaFinal, DigestFinal,
     DigestReset, CipherUpdate, Is, InCall, Calling, RecordInv
<1>2. \E b : Put(i, [heap[i] EXCEPT !.buf = b])
  <2>1. CASE SignUpdate(i, n)
    BY <2>1 DEF SignUpdate
  <2>2. CASE SignFinal(i, n) \/ SignHash(i) \/ CipherFinal(i, n, t) \/ RsaFinal(i, n) \/ DigestFinal(i, n)
    BY <2>2 DEF SignFinal, SignHash, CipherFinal, RsaFinal, DigestFinal
  <2>3. CASE RsaUpdate(i, n)
    <3>1. Put(i, [heap[i] EXCEPT !.buf = [heap[i].buf EXCEPT !.pend = @ \o Input(i, n)]])
      BY <2>3, <1>1 DEF RsaUpdate, Put, Shaped
    <3> QED BY <3>1
  <2>4. CASE DigestReset(i, n)
    BY <2>4 DEF DigestReset
  <2>5. CASE CipherUpdate(i, n)
    <3>1. PICK x, y, z : Put(i, [heap[i] EXCEPT !.buf.blocks = x, !.buf.pend = y, !.buf.seen = z])
      BY <2>5 DEF CipherUpdate
    <3> DEFINE o == heap[i]
               b1 == [o.buf EXCEPT !.blocks = x]
               b2 == [b1 EXCEPT !.pend = y]
               b3 == [b2 EXCEPT !.seen = z]
               w1 == [o EXCEPT !.buf.blocks = x]
               w2 == [w1 EXCEPT !.buf.pend = y]
               w3 == [w2 EXCEPT !.buf.seen = z]
    <3>2. Put(i, w3) /\ Shaped(o)
      BY <1>1, <3>1
    <3> HIDE DEF o
    <3>3. w1 = [o EXCEPT !.buf = b1]
      BY <3>2 DEF Shaped
    <3>4. w2 = [o EXCEPT !.buf = b2]
      <4> HIDE DEF b1
      <4> QED BY <3>2, <3>3 DEF Shaped
    <3>5. w3 = [o EXCEPT !.buf = b3]
      <4> HIDE DEF b2
      <4> QED BY <3>2, <3>4 DEF Shaped
    <3> HIDE DEF b3, w3
    <3> QED BY <3>2, <3>5 DEF o
  <2> QED BY <2>1, <2>2, <2>3, <2>4, <2>5
<1>3. PICK b : Put(i, [heap[i] EXCEPT !.buf = b])
  BY <1>2
<1> DEFINE w == [heap[i] EXCEPT !.buf = b]
<1>4. Alike(heap[i], w)
  BY <1>1, BufAlike
<1> HIDE DEF w
<1> QED BY <1>1, <1>3, <1>4, AlikeRecord DEF w

\* A digest allocates its context at the first byte.
LEMMA DigestRecord ==
  ASSUME CryptoInv, RecordInv, NEW i, NEW n, DigestUpdate(i, n)
  PROVE  RecordInv'
<1>1. Calling /\ i \in DOMAIN heap /\ Shaped(heap[i]) /\ heap[i].cls \in {"digest", "sum"}
  BY HeapShape DEF DigestUpdate, Is, InCall, Calling, RecordInv
<1>2. /\ Good(heap, heap[i]) /\ DOMAIN heap = 1 .. Len(heap) /\ Len(heap) \in Nat
  BY <1>1, HeapShape DEF RecordInv, Loads
<1> DEFINE o == heap[i]
           x == IF o.cls = "digest" THEN 1 ELSE o.pend
           y == o.buf.pend \o Input(i, n)
           w1 == [o EXCEPT !.pend = x]
           w2 == [w1 EXCEPT !.buf.pend = y]
<1>3. Put(i, w2)
  BY DEF DigestUpdate
<1>4. x \in 0 .. Len(heap) /\ o.mat \in 0 .. Len(heap) /\ Shaped(o) /\ o.cls = heap[i].cls
  BY <1>1, <1>2 DEF Good
<1> HIDE DEF o, x, y
<1>5. Shaped(w1) /\ w1.cls = o.cls /\ w1.mat = o.mat /\ w1.pend = x
  BY <1>4 DEF Shaped
<1> HIDE DEF w1
<1>6. w2.cls = o.cls /\ w2.mat = o.mat /\ w2.pend = x
  BY <1>5 DEF Shaped
<1> HIDE DEF w2
<1>7. Good(heap, w2) /\ w2.cls # "key" /\ ~Open(w2)
  BY <1>1, <1>4, <1>6 DEF Good, Open
<1> QED BY <1>1, <1>3, <1>4, <1>6, <1>7, PutRecord

\* Random sources change what is no key.
LEMMA RandomPuts ==
  ASSUME CryptoInv, RecordInv, NEW i, PseudoGenerate(i) \/ SetSeed(i) \/ SecureGenerate(i)
  PROVE  /\ Calling /\ i \in DOMAIN heap /\ heap[i].cls = "random"
         /\ \E w : Put(i, w) /\ Alike(heap[i], w)
<1>1. Calling /\ i \in DOMAIN heap /\ Shaped(heap[i]) /\ heap[i].cls = "random"
  <2>1. token \in 1 .. MaxToken /\ MaxToken \in Nat
    BY CryptoConstants DEF RecordInv
  <2>2. token' \in 1 .. MaxToken
    BY <2>1 DEF PseudoGenerate, SetSeed, SecureGenerate, OnlyHeap
  <2> QED BY <2>2, HeapShape DEF PseudoGenerate, SetSeed, SecureGenerate, OnlyHeap, Is, Pseudo, InCall, Calling
<1> DEFINE o == heap[i]
<1> SUFFICES \E v : Put(i, v) /\ Alike(o, v)
  BY <1>1
<1>2. ASSUME NEW w, Put(i, w), Alike(o, w)
      PROVE  \E v : Put(i, v) /\ Alike(o, v)
  BY <1>2
<1>3. ASSUME NEW d
      PROVE  Alike(o, [o EXCEPT !.data = d])
  BY <1>1 DEF Alike, Open, Shaped
<1>4. CASE PseudoGenerate(i)
  <2>1. PICK d : Put(i, [o EXCEPT !.data = d])
    BY <1>4 DEF PseudoGenerate
  <2> QED BY <1>2, <1>3, <2>1
<1>5. CASE SetSeed(i) /\ Pseudo(o)
  <2>1. PICK d : Put(i, [o EXCEPT !.data = d])
    BY <1>5 DEF SetSeed
  <2> QED BY <1>2, <1>3, <2>1
<1>6. CASE SetSeed(i) /\ ~Pseudo(o)
  <2> DEFINE v == TRUE
             u == token + 1
             b1 == [o.buf EXCEPT !.seen = v]
             b2 == [b1 EXCEPT !.iv = u]
             w1 == [o EXCEPT !.buf.seen = v]
             w2 == [w1 EXCEPT !.buf.iv = u]
  <2>1. Put(i, w2) /\ Shaped(o)
    BY <1>1, <1>6 DEF SetSeed
  <2> HIDE DEF o, v, u
  <2>2. w1 = [o EXCEPT !.buf = b1]
    BY <2>1 DEF Shaped
  <2>3. w2 = [o EXCEPT !.buf = b2]
    <3> HIDE DEF b1
    <3> QED BY <2>1, <2>2 DEF Shaped
  <2> HIDE DEF w1, w2, b2
  <2>4. Alike(o, w2)
    BY <2>1, <2>3, BufAlike
  <2> QED BY <1>2, <2>1, <2>4
<1>7. CASE SecureGenerate(i)
  <2>1. CASE o.buf.seen
    <3> DEFINE b == [o.buf EXCEPT !.blocks = @ + 1]
               w == [o EXCEPT !.buf = b]
    <3>1. Put(i, w)
      BY <1>1, <1>7, <2>1 DEF SecureGenerate, Put, Shaped
    <3>2. Alike(o, w)
      BY <1>1, BufAlike
    <3> HIDE DEF w, b
    <3> QED BY <1>2, <3>1, <3>2
  <2>2. CASE ~o.buf.seen
    <3>1. Put(i, o) /\ Alike(o, o)
      BY <1>7, <2>2 DEF SecureGenerate, Alike
    <3> QED BY <1>2, <3>1
  <2> QED BY <2>1, <2>2
<1> QED BY <1>4, <1>5, <1>6, <1>7

\* So a record of the heap still loads.
LEMMA RandomRecord ==
  ASSUME CryptoInv, RecordInv, NEW i, PseudoGenerate(i) \/ SetSeed(i) \/ SecureGenerate(i)
  PROVE  RecordInv'
<1>1. Calling /\ i \in DOMAIN heap /\ \E w : Put(i, w) /\ Alike(heap[i], w)
  BY RandomPuts
<1> QED BY <1>1, AlikeRecord

-----------------------------------------------------------------------------
(* Keys *)

\* The words of a key whose bytes are replaced.
LEMMA ContentsWords ==
  ASSUME NEW o, Shaped(o), NEW c
  PROVE  LET w == WithContents(o, c) IN
         /\ Shaped(w) /\ w.cls = o.cls /\ w.kind = o.kind /\ w.size = o.size /\ w.mat = 1
         /\ w.ready = o.ready /\ w.pend = o.pend
         /\ w.data = IF ClearEvent(o.kind) = "none" THEN c ELSE o.data
<1> DEFINE w0 == [o EXCEPT !.mat = 1]
<1>1. /\ Shaped(w0) /\ w0.cls = o.cls /\ w0.kind = o.kind /\ w0.size = o.size /\ w0.mat = 1
      /\ w0.ready = o.ready /\ w0.pend = o.pend /\ w0.data = o.data
  BY DEF Shaped
<1>2. WithContents(o, c) = IF ClearEvent(o.kind) = "none" THEN [w0 EXCEPT !.data = c]
                           ELSE [w0 EXCEPT !.buf = c]
  BY DEF WithContents
<1> HIDE DEF w0
<1>3. LET w == [w0 EXCEPT !.data = c] IN
      /\ Shaped(w) /\ w.cls = o.cls /\ w.kind = o.kind /\ w.size = o.size /\ w.mat = 1
      /\ w.ready = o.ready /\ w.pend = o.pend /\ w.data = c
  BY <1>1 DEF Shaped
<1>4. LET w == [w0 EXCEPT !.buf = c] IN
      /\ Shaped(w) /\ w.cls = o.cls /\ w.kind = o.kind /\ w.size = o.size /\ w.mat = 1
      /\ w.ready = o.ready /\ w.pend = o.pend /\ w.data = o.data
  BY <1>1 DEF Shaped
<1> QED BY <1>2, <1>3, <1>4

\* The readiness word is rewritten.
LEMMA ReadyWords ==
  ASSUME NEW o, Shaped(o), NEW r
  PROVE  LET w == [o EXCEPT !.ready = r] IN
         /\ Shaped(w) /\ w.cls = o.cls /\ w.kind = o.kind /\ w.size = o.size /\ w.mat = o.mat
         /\ w.ready = r /\ w.pend = o.pend /\ w.data = o.data /\ w.mode = o.mode
BY DEF Shaped

\* A key is rewritten.
LEMMA KeyPut ==
  ASSUME CryptoInv, RecordInv, Calling, NEW i \in Keys(heap), NEW o, Put(i, o), GoodKey(o),
         o.cls = "key", o.kind = heap[i].kind, o.size = heap[i].size,
         o.mat \in 0 .. Len(heap), o.pend \in 0 .. Len(heap)
  PROVE  RecordInv'
<1>1. i \in DOMAIN heap /\ heap[i].cls = "key"
  BY DEF Keys
<1>2. Good(heap, o) /\ ~Open(o)
  BY DEF Good, Open
<1> QED BY <1>1, <1>2, PutRecord

\* The kinds of key an event clears.
LEMMA Kinds ==
  /\ ClearEvent(4) = "none" /\ ClearEvent(6) = "none"
  /\ \A k \in EcKinds : k # 4 /\ k # 6
  /\ \A k \in AesKinds \cup DesKinds : k \notin EcKinds /\ k # 4 /\ k # 6
BY DEF ClearEvent, EcKinds, AesKinds, DesKinds

\* Setting and clearing keys.
LEMMA KeyRecord ==
  ASSUME CryptoInv, RecordInv,
         NEW i, SetKey(i) \/ SetEcValue(i) \/ ClearKey(i) \/ (\E p : SetParameter(i, p))
                \/ (\E j : CopyDomainParameters(i, j)) \/ (\E m \in BOOLEAN : SetRsaPart(i, m))
  PROVE  RecordInv'
<1>1. i \in Keys(heap) /\ Calling
  BY DEF SetKey, SetEcValue, ClearKey, SetParameter, CopyDomainParameters, SetRsaPart, IsEc,
         OnlyHeap, InCall, Calling, RecordInv
<1> DEFINE o == heap[i]
<1>2. /\ i \in DOMAIN heap /\ Shaped(o) /\ o.cls = "key" /\ GoodKey(o)
      /\ o.mat \in 0 .. Len(heap) /\ o.pend \in 0 .. Len(heap)
      /\ 1 \in 0 .. Len(heap) /\ Len(heap) \in Nat
  BY <1>1, HeapShape DEF Keys, RecordInv, Loads, Good
<1>3. ASSUME NEW w, Put(i, w), GoodKey(w), w.cls = "key", w.kind = o.kind, w.size = o.size,
             w.mat \in 0 .. Len(heap), w.pend \in 0 .. Len(heap)
      PROVE  RecordInv'
  BY <1>1, <1>3, KeyPut
<1> HIDE DEF o
<1>4. CASE SetKey(i)
  <2> DEFINE t == ClearEvent(o.kind) # "none"
             w == WithContents(o, [flags |-> IF t THEN {6} ELSE {}, val |-> 1])
             z == [w EXCEPT !.ready = IF t THEN w.ready ELSE 1]
  <2>1. Put(i, z) /\ o.kind \in AesKinds \cup DesKinds
    BY <1>4 DEF SetKey, o
  <2>2. /\ Shaped(w) /\ w.cls = o.cls /\ w.kind = o.kind /\ w.size = o.size /\ w.mat = 1
        /\ w.ready = o.ready /\ w.pend = o.pend
    BY <1>2, ContentsWords
  <2> HIDE DEF w
  <2>3. /\ z.cls = o.cls /\ z.kind = o.kind /\ z.size = o.size /\ z.mat = 1 /\ z.pend = o.pend
        /\ z.ready = IF t THEN o.ready ELSE 1
    BY <2>2, ReadyWords
  <2> HIDE DEF z
  <2>4. GoodKey(z)
    BY <1>2, <2>1, <2>3, Kinds DEF GoodKey
  <2> QED BY <1>2, <1>3, <2>1, <2>3, <2>4
<1>5. ASSUME NEW c, o.kind \in EcKinds, Put(i, WithContents(o, c))
      PROVE  RecordInv'
  <2> DEFINE w == WithContents(o, c)
  <2>1. /\ w.cls = o.cls /\ w.kind = o.kind /\ w.size = o.size /\ w.mat = 1
        /\ w.ready = o.ready /\ w.pend = o.pend
    BY <1>2, ContentsWords
  <2>2. Put(i, w)
    BY <1>5
  <2> HIDE DEF w
  <2>3. GoodKey(w)
    BY <1>2, <1>5, <2>1, Kinds DEF GoodKey
  <2> QED BY <1>2, <1>3, <2>1, <2>2, <2>3
<1>6. CASE SetEcValue(i)
  BY <1>5, <1>6 DEF SetEcValue, IsEc, o
<1>7. CASE (\E p : SetParameter(i, p)) \/ (\E j : CopyDomainParameters(i, j))
  <2>1. PICK f : SetFlags(i, f)
    BY <1>7 DEF SetParameter, CopyDomainParameters
  <2> QED BY <1>5, <1>7, <2>1 DEF SetParameter, CopyDomainParameters, IsEc, SetFlags, o
<1>8. CASE ClearKey(i)
  <2> DEFINE w == IF o.mat = 0 THEN o ELSE WithContents(o, NoValue)
             z == [w EXCEPT !.ready = 0]
  <2>1. Put(i, z)
    BY <1>8 DEF ClearKey, o
  <2>2. /\ Shaped(w) /\ w.cls = o.cls /\ w.kind = o.kind /\ w.size = o.size
        /\ w.mat \in {o.mat, 1} /\ w.pend = o.pend
    BY <1>2, ContentsWords
  <2> HIDE DEF w
  <2>3. z.cls = o.cls /\ z.kind = o.kind /\ z.size = o.size /\ z.mat = w.mat /\ z.pend = o.pend /\ z.ready = 0
    BY <2>2, ReadyWords
  <2> HIDE DEF z
  <2>4. GoodKey(z)
    BY <1>2, <2>3 DEF GoodKey
  <2> QED BY <1>2, <1>3, <2>1, <2>2, <2>3, <2>4
<1>9. CASE \E m \in BOOLEAN : SetRsaPart(i, m)
  <2> DEFINE w == WithContents(o, [flags |-> {}, val |-> 1])
             u == [w EXCEPT !.ready = Or(w.ready, 1)]
             x == [o EXCEPT !.pend = 1]
             y == [x EXCEPT !.ready = Or(o.ready, 2)]
  <2>1. PICK m \in BOOLEAN : SetRsaPart(i, m)
    BY <1>9
  <2>2. o.kind = 4 /\ o.ready \in 0 .. 3
    BY <1>2, <2>1 DEF SetRsaPart, o, GoodKey
  <2>3. /\ Or(o.ready, 1) \in {1, 3} /\ (Or(o.ready, 1) = 3 => o.ready \in {2, 3})
        /\ Or(o.ready, 2) \in {2, 3} /\ (Or(o.ready, 2) = 3 => o.ready \in {1, 3})
    <3>1. o.ready = 0 \/ o.ready = 1 \/ o.ready = 2 \/ o.ready = 3
      BY <2>2
    <3> QED BY <3>1 DEF Or
  <2>4. CASE m
    <3>1. Put(i, u)
      BY <2>1, <2>4 DEF SetRsaPart, o
    <3>2. /\ Shaped(w) /\ w.cls = o.cls /\ w.kind = o.kind /\ w.size = o.size /\ w.mat = 1
          /\ w.ready = o.ready /\ w.pend = o.pend /\ w.data = [flags |-> {}, val |-> 1]
      BY <1>2, <2>2, ContentsWords, Kinds
    <3> HIDE DEF w
    <3>3. /\ u.cls = o.cls /\ u.kind = o.kind /\ u.size = o.size /\ u.mat = 1 /\ u.pend = o.pend
          /\ u.ready = Or(o.ready, 1) /\ u.data.val = 1
      BY <3>2, ReadyWords
    <3> HIDE DEF u
    <3>4. GoodKey(u)
      BY <1>2, <2>2, <2>3, <3>3, Kinds DEF GoodKey
    <3> QED BY <1>2, <1>3, <3>1, <3>3, <3>4
  <2>5. CASE ~m
    <3>1. Put(i, y)
      BY <2>1, <2>5 DEF SetRsaPart, o
    <3>2. /\ Shaped(x) /\ x.cls = o.cls /\ x.kind = o.kind /\ x.size = o.size /\ x.mat = o.mat
          /\ x.pend = 1 /\ x.data = o.data
      BY <1>2 DEF Shaped
    <3> HIDE DEF x
    <3>3. /\ y.cls = o.cls /\ y.kind = o.kind /\ y.size = o.size /\ y.mat = o.mat /\ y.pend = 1
          /\ y.ready = Or(o.ready, 2) /\ y.data = o.data
      BY <3>2, ReadyWords
    <3> HIDE DEF y
    <3>4. GoodKey(y)
      BY <1>2, <2>2, <2>3, <3>3, Kinds DEF GoodKey
    <3> QED BY <1>2, <1>3, <3>1, <3>3, <3>4
  <2> QED BY <2>4, <2>5
<1> QED BY <1>4, <1>6, <1>7, <1>8, <1>9

-----------------------------------------------------------------------------
(* Constructors and initialisation *)

\* The words of a new object.
LEMMA FreshWords ==
  ASSUME NEW cls, NEW k, NEW bits
  PROVE  LET w == Fresh(cls, k, bits) IN
         /\ Shaped(w) /\ w.cls = cls /\ w.kind = k /\ w.size = bits /\ w.mat = 0 /\ w.ready = 0
         /\ w.pend = 0 /\ w.mode = 0
BY DEF Fresh, Shaped

\* A new key of an admitted kind and size.
LEMMA FreshKey ==
  ASSUME NEW k, NEW bits, k \in EcKinds => bits \in {256, 384}, NEW w, w = Fresh("key", k, bits)
  PROVE  /\ w.cls = "key" /\ w.kind = k /\ w.size = bits /\ GoodKey(w) /\ w.mat = 0 /\ w.pend = 0
         /\ New(w) /\ ~Open(w)
<1>1. w.cls = "key" /\ w.kind = k /\ w.size = bits /\ w.mat = 0 /\ w.ready = 0 /\ w.pend = 0
  BY FreshWords
<1>2. GoodKey(w)
  BY <1>1 DEF GoodKey
<1> QED BY <1>1, <1>2 DEF New, Open

\* Keys and empty pairs are constructed.
LEMMA ConstructRecord ==
  ASSUME CryptoInv, RecordInv, (\E k, bits : BuildKey(k, bits)) \/ NewPair
  PROVE  RecordInv'
<1>1. Calling /\ Len(heap) + 1 <= MaxObj
  BY DEF BuildKey, NewPair, InCall, Calling, RecordInv, Room
<1>2. CASE \E k, bits : BuildKey(k, bits)
  <2>1. PICK k, bits : BuildKey(k, bits)
    BY <1>2
  <2> DEFINE o == Fresh("key", k, bits)
  <2>2. heap' = Append(heap, o)
    BY <2>1 DEF BuildKey
  <2>3. k \in EcKinds => bits \in {256, 384}
    BY <2>1 DEF BuildKey, Buildable, EcKinds, AesKinds, DesKinds
  <2>4. New(o) /\ ~Open(o)
    BY <2>3, FreshKey
  <2> HIDE DEF o
  <2> QED BY <1>1, <2>2, <2>4, AppendRecord
<1>3. CASE NewPair
  <2> DEFINE o == Fresh("pair", 0, 0)
  <2>1. heap' = Append(heap, o)
    BY <1>3 DEF NewPair
  <2>2. o.cls = "pair" /\ o.kind = 0 /\ o.size = 0 /\ o.mat = 0 /\ o.pend = 0
    BY FreshWords
  <2> HIDE DEF o
  <2>3. New(o) /\ ~Open(o)
    BY <2>2 DEF New, Open
  <2> QED BY <1>1, <2>1, <2>3, AppendRecord
<1> QED BY <1>2, <1>3

\* getInstance.
LEMMA GetInstanceRecord ==
  ASSUME CryptoInv, RecordInv, NEW cls, NEW k, GetInstance(cls, k)
  PROVE  RecordInv'
<1> DEFINE x == IF cls = "cipher" THEN 1 ELSE 0
           y == IF cls \in {"sum", "random"} THEN 1 ELSE 0
           w1 == Fresh(cls, k, 0)
           w2 == [w1 EXCEPT !.pend = x]
           o == [w2 EXCEPT !.mat = y]
           w4 == [o EXCEPT !.data = [seed |-> token + 1, n |-> 0]]
           chained == cls = "random" /\ k = 1
<1>1. /\ Calling /\ Len(heap) + 1 <= MaxObj /\ Available(cls, k) /\ cls # "oneshot"
      /\ heap' = Append(heap, IF chained THEN w4 ELSE o)
  <2>1. token \in 1 .. MaxToken /\ MaxToken \in Nat
    BY CryptoConstants DEF RecordInv
  <2>2. token' \in 1 .. MaxToken
    BY <2>1 DEF GetInstance
  <2> QED BY <2>2 DEF GetInstance, InCall, Calling, Room
<1>2. /\ Shaped(w1) /\ w1.cls = cls /\ w1.kind = k /\ w1.mat = 0 /\ w1.ready = 0
  BY FreshWords
<1>3. x \in {0, 1} /\ (cls = "cipher" => x = 1) /\ y \in {0, 1} /\ (cls \in {"sign", "cipher", "agree"} => y = 0)
  OBVIOUS
<1> HIDE DEF w1, x, y
<1>4. Shaped(w2) /\ w2.cls = cls /\ w2.kind = k /\ w2.mat = 0 /\ w2.ready = 0 /\ w2.pend = x
  BY <1>2 DEF Shaped
<1> HIDE DEF w2
<1>5. Shaped(o) /\ o.cls = cls /\ o.kind = k /\ o.mat = y /\ o.ready = 0 /\ o.pend = x
  BY <1>4 DEF Shaped
<1> HIDE DEF o
<1>6. w4.cls = cls /\ w4.kind = k /\ w4.mat = y /\ w4.ready = 0 /\ w4.pend = x
  BY <1>5 DEF Shaped
<1> HIDE DEF w4
<1>7. ASSUME NEW w, w.cls = cls, w.kind = k, w.mat = y, w.ready = 0, w.pend = x
      PROVE  New(w) /\ ~Open(w)
  <2>1. cls # "key" /\ cls # "pair" /\ (cls = "agree" => k = 3)
    BY <1>1 DEF Available
  <2>2. cls = "cipher" /\ k # 12 => k \in AesCipher \/ (Des /\ IsDesCipher(k))
    BY <1>1 DEF Available
  <2>3. cls = "sign" => Available("sign", k)
    BY <1>1
  <2> QED BY <1>1, <1>3, <1>7, <2>1, <2>2, <2>3 DEF New, Open
<1>8. CASE chained
  BY <1>1, <1>6, <1>7, <1>8, AppendRecord
<1>9. CASE ~chained
  BY <1>1, <1>5, <1>7, <1>9, AppendRecord
<1> QED BY <1>8, <1>9

\* The words an init writes.
LEMMA StartedWords ==
  ASSUME NEW o, Shaped(o), NEW k, NEW m, NEW b
  PROVE  LET w == [o EXCEPT !.mat = k, !.mode = m, !.ready = 1, !.pend = 1, !.buf = b] IN
         /\ w.cls = o.cls /\ w.kind = o.kind /\ w.size = o.size
         /\ w.mat = k /\ w.mode = m /\ w.ready = 1 /\ w.pend = 1 /\ w.buf = b
<1> DEFINE w1 == [o EXCEPT !.mat = k]
           w2 == [w1 EXCEPT !.mode = m]
           w3 == [w2 EXCEPT !.ready = 1]
           w4 == [w3 EXCEPT !.pend = 1]
           w5 == [w4 EXCEPT !.buf = b]
<1>1. [o EXCEPT !.mat = k, !.mode = m, !.ready = 1, !.pend = 1, !.buf = b] = w5
  OBVIOUS
<1>2. Shaped(w1) /\ w1.cls = o.cls /\ w1.kind = o.kind /\ w1.size = o.size /\ w1.mat = k
  BY DEF Shaped
<1> HIDE DEF w1
<1>3. Shaped(w2) /\ w2.cls = o.cls /\ w2.kind = o.kind /\ w2.size = o.size /\ w2.mat = k /\ w2.mode = m
  BY <1>2 DEF Shaped
<1> HIDE DEF w2
<1>4. /\ Shaped(w3) /\ w3.cls = o.cls /\ w3.kind = o.kind /\ w3.size = o.size /\ w3.mat = k /\ w3.mode = m
      /\ w3.ready = 1
  BY <1>3 DEF Shaped
<1> HIDE DEF w3
<1>5. /\ Shaped(w4) /\ w4.cls = o.cls /\ w4.kind = o.kind /\ w4.size = o.size /\ w4.mat = k /\ w4.mode = m
      /\ w4.ready = 1 /\ w4.pend = 1
  BY <1>4 DEF Shaped
<1> HIDE DEF w4
<1>6. /\ w5.cls = o.cls /\ w5.kind = o.kind /\ w5.size = o.size /\ w5.mat = k /\ w5.mode = m
      /\ w5.ready = 1 /\ w5.pend = 1 /\ w5.buf = b
  BY <1>5 DEF Shaped
<1> HIDE DEF w5
<1> QED BY <1>1, <1>6

\* Which key fits depends on class, algorithm and mode only.
LEMMA FitsMode ==
  ASSUME NEW o, NEW w, NEW k, KeyFits(o, k), w.cls = o.cls, w.kind = o.kind,
         w.mode = o.mode \/ o.cls # "sign"
  PROVE  KeyFits(w, k)
BY DEF KeyFits

\* Initialisation names a key that fits.
LEMMA InitRecord ==
  ASSUME CryptoInv, RecordInv, NEW i, NEW k, NEW mode \in {1, 2}, NEW iv,
         SignInit(i, k, mode, iv) \/ CipherInit(i, k, mode, iv)
  PROVE  RecordInv'
<1> DEFINE o == heap[i]
<1>1. /\ Calling /\ i \in DOMAIN heap /\ Shaped(o) /\ k \in Keys(heap) /\ o.cls \in {"sign", "cipher"}
      /\ Good(heap, o)
  BY HeapShape DEF SignInit, CipherInit, Is, InCall, Calling, RecordInv, Loads
<1>2. k \in 0 .. Len(heap) /\ 1 \in 0 .. Len(heap) /\ k # 0
  BY <1>1, HeapShape DEF Keys
<1>3. PICK b : Put(i, [o EXCEPT !.mat = k, !.mode = mode, !.ready = 1, !.pend = 1, !.buf = b])
  BY DEF SignInit, CipherInit, Started
<1> DEFINE w == [o EXCEPT !.mat = k, !.mode = mode, !.ready = 1, !.pend = 1, !.buf = b]
           v == [o EXCEPT !.mode = mode]
<1>4. /\ w.cls = o.cls /\ w.kind = o.kind /\ w.mat = k /\ w.mode = mode /\ w.ready = 1 /\ w.pend = 1
  BY <1>1, StartedWords
<1>5. Put(i, w)
  BY <1>3
<1>6. v.cls = o.cls /\ v.kind = o.kind /\ v.mode = mode
  BY <1>1 DEF Shaped
<1>7. SignInit(i, k, mode, iv) => o.cls = "sign" /\ KeyFits(v, heap[k])
  BY DEF SignInit, Is
<1>8. CipherInit(i, k, mode, iv) => o.cls = "cipher" /\ (o.kind # 12 => KeyFits(o, heap[k]))
  BY DEF CipherInit, Is
<1> HIDE DEF w, v, o
<1>9. CASE SignInit(i, k, mode, iv)
  <2>1. KeyFits(w, heap[k])
    BY <1>4, <1>6, <1>7, <1>9, FitsMode
  <2>2. ValidSignature(heap, w)
    BY <1>1, <1>2, <1>4, <1>7, <1>9, <2>1 DEF ValidSignature, Good
  <2>3. Good(heap, w) /\ ~Open(w)
    BY <1>2, <1>4, <1>7, <1>9, <2>2 DEF Good, Open
  <2> QED BY <1>1, <1>4, <1>5, <2>3, PutRecord DEF o
<1>10. CASE CipherInit(i, k, mode, iv)
  <2>1. o.kind # 12 => KeyFits(w, heap[k])
    BY <1>4, <1>8, <1>10, FitsMode
  <2>2. w.kind # 12 => ValidCipher(heap, w)
    BY <1>1, <1>2, <1>4, <1>8, <1>10, <2>1 DEF ValidCipher, Good
  <2>3. Good(heap, w) /\ ~Open(w)
    BY <1>2, <1>4, <1>8, <1>10, <2>2 DEF Good, Open
  <2> QED BY <1>1, <1>4, <1>5, <2>3, PutRecord DEF o
<1> QED BY <1>9, <1>10

\* So does the initialisation of a key agreement.
LEMMA AgreeRecord ==
  ASSUME CryptoInv, RecordInv, NEW i, NEW k, AgreeInit(i, k)
  PROVE  RecordInv'
<1> DEFINE o == heap[i]
           w1 == [o EXCEPT !.mat = k]
           w == [w1 EXCEPT !.ready = 1]
<1>1. /\ Calling /\ i \in DOMAIN heap /\ Shaped(o) /\ k \in Keys(heap) /\ o.cls = "agree"
      /\ Good(heap, o) /\ KeyFits(o, heap[k]) /\ Put(i, w)
  BY HeapShape DEF AgreeInit, OnlyHeap, Is, InCall, Calling, RecordInv, Loads
<1>2. k \in 0 .. Len(heap) /\ k # 0
  BY <1>1, HeapShape DEF Keys
<1> HIDE DEF o
<1>3. /\ Shaped(w1) /\ w1.cls = o.cls /\ w1.kind = o.kind /\ w1.mat = k /\ w1.pend = o.pend
  BY <1>1 DEF Shaped
<1> HIDE DEF w1
<1>4. w.cls = o.cls /\ w.kind = o.kind /\ w.mat = k /\ w.pend = o.pend
  BY <1>3, ReadyWords
<1> HIDE DEF w
<1>5. KeyFits(w, heap[k])
  BY <1>1, <1>4, FitsMode
<1>6. ValidAgreement(heap, w)
  BY <1>1, <1>2, <1>4, <1>5 DEF ValidAgreement, Good
<1>7. Good(heap, w) /\ ~Open(w)
  BY <1>1, <1>2, <1>4, <1>6 DEF Good, Open
<1> QED BY <1>1, <1>4, <1>7, PutRecord DEF o

\* The words of a pair that names its keys.
LEMMA JoinedWords ==
  ASSUME NEW o, Shaped(o), NEW k, NEW bits, NEW pub, NEW priv
  PROVE  LET w == Joined(o, k, bits, pub, priv) IN
         w.cls = o.cls /\ w.kind = k /\ w.size = bits /\ w.mat = pub /\ w.pend = priv
<1> DEFINE w1 == [o EXCEPT !.kind = k]
           w2 == [w1 EXCEPT !.size = bits]
           w3 == [w2 EXCEPT !.mat = pub]
           w4 == [w3 EXCEPT !.pend = priv]
<1>1. Joined(o, k, bits, pub, priv) = w4
  BY DEF Joined
<1>2. Shaped(w1) /\ w1.cls = o.cls /\ w1.kind = k
  BY DEF Shaped
<1> HIDE DEF w1
<1>3. Shaped(w2) /\ w2.cls = o.cls /\ w2.kind = k /\ w2.size = bits
  BY <1>2 DEF Shaped
<1> HIDE DEF w2
<1>4. Shaped(w3) /\ w3.cls = o.cls /\ w3.kind = k /\ w3.size = bits /\ w3.mat = pub
  BY <1>3 DEF Shaped
<1> HIDE DEF w3
<1>5. w4.cls = o.cls /\ w4.kind = k /\ w4.size = bits /\ w4.mat = pub /\ w4.pend = priv
  BY <1>4 DEF Shaped
<1> HIDE DEF w4
<1> QED BY <1>1, <1>5

\* KeyPair(public, private) accepts keys that belong together.
LEMMA PairOfRecord ==
  ASSUME CryptoInv, RecordInv, NEW p, NEW pub, NEW priv, PairOf(p, pub, priv)
  PROVE  RecordInv'
<1> DEFINE bits == heap[pub].size
<1>1. /\ Calling /\ p \in DOMAIN heap /\ heap[p].cls = "pair" /\ Shaped(heap[p])
      /\ pub \in Keys(heap) /\ priv \in Keys(heap) /\ heap[priv].size = bits
  BY HeapShape DEF PairOf, OnlyHeap, InCall, Calling, RecordInv
<1>2. PICK k : /\ Put(p, Joined(heap[p], k, bits, pub, priv))
               /\ \/ k = 5 /\ heap[pub].kind = 11 /\ heap[priv].kind \in EcPrivate
                  \/ k = 2 /\ heap[pub].kind = 4 /\ heap[priv].kind = 6 /\ bits \in {1024, 2048}
  BY DEF PairOf
<1> DEFINE o == Joined(heap[p], k, bits, pub, priv)
<1>3. o.cls = "pair" /\ o.kind = k /\ o.size = bits /\ o.mat = pub /\ o.pend = priv
  BY <1>1, JoinedWords
<1>4. Put(p, o)
  BY <1>2
<1> HIDE DEF o
<1>5. k = 5 => bits \in {256, 384}
  BY <1>1, <1>2 DEF RecordInv, Loads, Good, GoodKey, Keys, EcKinds
<1>6. pub \in 0 .. Len(heap) /\ priv \in 0 .. Len(heap)
  BY <1>1, HeapShape DEF Keys
<1>7. ValidPair(heap, o)
  BY <1>1, <1>2, <1>3, <1>5 DEF ValidPair
<1>8. Good(heap, o) /\ ~Open(o)
  BY <1>3, <1>6, <1>7 DEF Good, Open
<1> QED BY <1>1, <1>3, <1>4, <1>8, PutRecord

\* KeyPair(algorithm, bits) makes two keys of the pair's kind and size.
LEMMA PairNewRecord ==
  ASSUME CryptoInv, RecordInv, NEW p, NEW k, NEW bits, PairNew(p, k, bits)
  PROVE  RecordInv'
<1> DEFINE n == Len(heap)
           a == Fresh("key", IF k = 2 THEN 4 ELSE 11, bits)
           b == Fresh("key", IF k = 2 THEN 6 ELSE 12, bits)
           o == Joined(heap[p], k, bits, n + 1, n + 2)
           g == [heap EXCEPT ![p] = o] \o <<a, b>>
<1>1. /\ Calling /\ p \in DOMAIN heap /\ heap[p].cls = "pair" /\ Shaped(heap[p]) /\ n + 2 <= MaxObj
      /\ heap' = g /\ ((k = 2 /\ bits \in {1024, 2048}) \/ (k = 5 /\ bits \in {256, 384}))
  BY HeapShape DEF PairNew, InCall, Calling, RecordInv, Room
<1>2. /\ a.cls = "key" /\ a.kind = (IF k = 2 THEN 4 ELSE 11) /\ a.size = bits /\ New(a) /\ ~Open(a)
      /\ b.cls = "key" /\ b.kind = (IF k = 2 THEN 6 ELSE 12) /\ b.size = bits /\ New(b) /\ ~Open(b)
  BY <1>1, FreshKey DEF EcKinds
<1>3. o.cls = "pair" /\ o.kind = k /\ o.size = bits /\ o.mat = n + 1 /\ o.pend = n + 2
  BY <1>1, JoinedWords
<1> HIDE DEF a, b, o
<1>4. IsSeq(heap) /\ n \in Nat /\ DOMAIN heap = 1 .. n
  BY HeapShape
<1>5. /\ DOMAIN g = DOMAIN heap \cup {n + 1, n + 2} /\ Len(g) = n + 2
      /\ g[p] = o /\ g[n + 1] = a /\ g[n + 2] = b
      /\ \A j \in DOMAIN heap : j # p => g[j] = heap[j]
  BY <1>1, <1>4, PairAppended
<1> HIDE DEF g
<1>6. Grows(heap, g)
  BY <1>1, <1>4, <1>5 DEF Grows, Keys
<1>7. Good(g, a) /\ Good(g, b)
  BY <1>2, <1>4, <1>5, NewGood
<1>8. Good(g, o)
  <2>1. n + 1 \in Keys(g) /\ n + 2 \in Keys(g)
    BY <1>2, <1>5 DEF Keys
  <2>2. ValidPair(g, o)
    BY <1>1, <1>2, <1>3, <1>5, <2>1 DEF ValidPair, EcPrivate
  <2> QED BY <1>3, <1>4, <1>5, <2>2 DEF Good
<1>9. \A j \in DOMAIN heap : Good(g, heap[j])
  BY <1>6, GrowsGood DEF RecordInv, Loads
<1>10. Loads(g)
  BY <1>5, <1>7, <1>8, <1>9 DEF Loads
<1>11. OneOpen(g)
  <2>1. ~Open(o)
    BY <1>3 DEF Open
  <2> QED BY <1>2, <1>5, <2>1 DEF RecordInv, OneOpen
<1> QED BY <1>1, <1>5, <1>10, <1>11, CallRecord

\* The words of a generated key.
LEMMA FilledWords ==
  ASSUME NEW o, Shaped(o), NEW v
  PROVE  LET w == Filled(o, v) IN
         /\ w.cls = o.cls /\ w.kind = o.kind /\ w.size = o.size /\ w.mat = 1
         /\ w.ready = (IF o.kind = 4 THEN 3 ELSE IF o.kind = 6 THEN 1 ELSE o.ready)
         /\ w.pend = (IF o.kind = 4 THEN 1 ELSE o.pend)
         /\ o.kind \in {4, 6} => w.data.val = v
<1> DEFINE c == [flags |-> IF o.kind \in EcKinds THEN {0, 1, 5, 6} ELSE {}, val |-> v]
           w1 == WithContents(o, c)
           r == IF o.kind = 4 THEN 3 ELSE IF o.kind = 6 THEN 1 ELSE o.ready
           q == IF o.kind = 4 THEN 1 ELSE o.pend
           w2 == [w1 EXCEPT !.ready = r]
           w3 == [w2 EXCEPT !.pend = q]
<1>1. /\ Shaped(w1) /\ w1.cls = o.cls /\ w1.kind = o.kind /\ w1.size = o.size /\ w1.mat = 1
      /\ w1.ready = o.ready /\ w1.pend = o.pend
      /\ w1.data = IF ClearEvent(o.kind) = "none" THEN c ELSE o.data
  BY ContentsWords
<1>2. o.kind \in {4, 6} => w1.data.val = v
  <2>1. c.val = v
    OBVIOUS
  <2> HIDE DEF c, w1
  <2> QED BY <1>1, <2>1, Kinds
<1>3. Filled(o, v) = [w1 EXCEPT !.ready = (CASE o.kind = 4 -> 3 [] o.kind = 6 -> 1 [] OTHER -> w1.ready),
                                !.pend = IF o.kind = 4 THEN 1 ELSE w1.pend]
  BY DEF Filled
<1>4. (CASE o.kind = 4 -> 3 [] o.kind = 6 -> 1 [] OTHER -> w1.ready) = r
  <2> HIDE DEF w1
  <2> QED BY <1>1
<1>5. Filled(o, v) = w3
  <2> HIDE DEF w1
  <2> QED BY <1>1, <1>3, <1>4
<1> HIDE DEF w1, r, q
<1>6. /\ Shaped(w2) /\ w2.cls = o.cls /\ w2.kind = o.kind /\ w2.size = o.size /\ w2.mat = 1
      /\ w2.ready = r /\ w2.data = w1.data
  BY <1>1, ReadyWords
<1> HIDE DEF w2
<1>7. /\ w3.cls = o.cls /\ w3.kind = o.kind /\ w3.size = o.size /\ w3.mat = 1
      /\ w3.ready = r /\ w3.data = w1.data /\ w3.pend = q
  BY <1>6 DEF Shaped
<1> HIDE DEF w3
<1> QED BY <1>2, <1>5, <1>7 DEF r, q

\* genKeyPair writes both keys.
LEMMA GenKeyPairRecord ==
  ASSUME CryptoInv, RecordInv, NEW p, GenKeyPair(p)
  PROVE  RecordInv'
<1>1. token \in 1 .. MaxToken /\ MaxToken \in Nat
  BY CryptoConstants DEF RecordInv
<1>2. /\ p \in DOMAIN heap /\ heap[p].cls = "pair" /\ heap[p].kind # 0 /\ Calling
      /\ UNCHANGED <<tx, flash>>
  BY <1>1 DEF GenKeyPair, InCall, Calling
<1>3. heap[p].mat \in Keys(heap) /\ heap[p].pend \in Keys(heap)
  BY <1>2, HeapShape DEF WellFormed, PairsJoined
<1> DEFINE new(i) == IF i \in {heap[p].mat, heap[p].pend} THEN Filled(heap[i], token + 1) ELSE heap[i]
<1>4. heap' = [i \in DOMAIN heap |-> new(i)]
  BY DEF GenKeyPair
<1>5. IsSeq(heap) /\ DOMAIN heap = 1 .. Len(heap) /\ Len(heap) \in Nat /\ \A i \in DOMAIN heap : Shaped(heap[i])
  BY HeapShape
<1>6. ASSUME NEW i \in DOMAIN heap, heap[i].cls = "key"
      PROVE  LET w == Filled(heap[i], token + 1) IN
             /\ Good(heap, w) /\ w.cls = heap[i].cls /\ w.kind = heap[i].kind /\ w.size = heap[i].size
  <2> DEFINE o == heap[i]
             w == Filled(o, token + 1)
  <2>1. /\ w.cls = o.cls /\ w.kind = o.kind /\ w.size = o.size /\ w.mat = 1
        /\ w.ready = (IF o.kind = 4 THEN 3 ELSE IF o.kind = 6 THEN 1 ELSE o.ready)
        /\ w.pend = (IF o.kind = 4 THEN 1 ELSE o.pend)
        /\ o.kind \in {4, 6} => w.data.val = token + 1
    BY <1>5, FilledWords
  <2>2. GoodKey(o) /\ o.pend \in 0 .. Len(heap)
    BY <1>6 DEF RecordInv, Loads, Good
  <2>3. 1 \in 0 .. Len(heap) /\ token + 1 # 0
    BY <1>1, <1>5
  <2> HIDE DEF w
  <2>4. GoodKey(w)
    BY <2>1, <2>2, <2>3, Kinds DEF GoodKey
  <2>5. Good(heap, w)
    BY <1>6, <2>1, <2>2, <2>3, <2>4 DEF Good
  <2> QED BY <2>1, <2>5 DEF w
<1>7. ASSUME NEW i \in DOMAIN heap
      PROVE  /\ Good(heap, new(i)) /\ new(i).cls = heap[i].cls
             /\ heap[i].cls = "key" => new(i).kind = heap[i].kind /\ new(i).size = heap[i].size
             /\ heap[i].cls # "key" => new(i) = heap[i]
  <2>1. CASE i \in {heap[p].mat, heap[p].pend}
    BY <1>3, <1>6, <2>1 DEF Keys
  <2>2. CASE i \notin {heap[p].mat, heap[p].pend}
    BY <2>2 DEF RecordInv, Loads
  <2> QED BY <2>1, <2>2
<1> HIDE DEF new
<1>8. /\ DOMAIN heap' = DOMAIN heap /\ heap' = [i \in DOMAIN heap |-> heap'[i]]
      /\ \A i \in DOMAIN heap : heap'[i] = new(i)
  BY <1>4
<1>9. Len(heap') = Len(heap)
  BY <1>5, <1>8, MapSeq
<1>10. Rewritten(heap, heap')
  BY <1>5, <1>7, <1>8, <1>9 DEF Rewritten
<1>11. OneOpen(heap')
  <2>1. \A i \in DOMAIN heap : Open(heap'[i]) => Open(heap[i])
    BY <1>7, <1>8 DEF Open
  <2> QED BY <1>8, <2>1 DEF RecordInv, OneOpen
<1> QED BY <1>2, <1>9, <1>10, <1>11, RewrittenLoads, CallRecord DEF RecordInv

\* The one-shot digest: opened when none is open.
LEMMA OneShotRecord ==
  ASSUME CryptoInv, RecordInv, (\E k : OpenOneShot(k)) \/ (\E i : CloseOneShot(i))
  PROVE  RecordInv'
<1>1. Calling
  BY DEF OpenOneShot, CloseOneShot, OnlyHeap, InCall, Calling, RecordInv
<1>2. DOMAIN heap = 1 .. Len(heap) /\ Len(heap) \in Nat
  BY HeapShape
<1>3. CASE \E k : OpenOneShot(k)
  <2>1. PICK k : OpenOneShot(k)
    BY <1>3
  <2> DEFINE w == Fresh("oneshot", k, 0)
             o == [w EXCEPT !.ready = 1]
             reusable == {i \in OneShots : heap[i].size = 1}
             c == CHOOSE i \in reusable : \A j \in reusable : j <= i
  <2>2. IF reusable # {} THEN Put(c, o) ELSE Room(1) /\ heap' = Append(heap, o)
    BY <2>1 DEF OpenOneShot
  <2>3. \A j \in DOMAIN heap : ~Open(heap[j])
    BY <2>1 DEF OpenOneShot, OneShots, Open
  <2>4. Shaped(w) /\ w.cls = "oneshot" /\ w.mat = 0 /\ w.pend = 0
    BY FreshWords
  <2> HIDE DEF w
  <2>5. o.cls = "oneshot" /\ o.mat = 0 /\ o.pend = 0
    BY <2>4, ReadyWords
  <2> HIDE DEF o
  <2>6. New(o) /\ Good(heap, o)
    BY <1>2, <2>5 DEF New, Good
  <2>7. CASE reusable # {}
    <3>1. /\ reusable \subseteq 1 .. Len(heap)
          /\ \A i \in reusable : i \in DOMAIN heap /\ heap[i].cls = "oneshot"
      BY <1>2 DEF OneShots
    <3>2. \E i \in reusable : \A j \in reusable : j <= i
      <4> HIDE DEF reusable
      <4> QED BY <1>2, <2>7, <3>1, GreatestIndex
    <3>3. c \in reusable
      BY <3>2
    <3> HIDE DEF c, reusable
    <3> QED BY <1>1, <2>2, <2>3, <2>5, <2>6, <2>7, <3>1, <3>3, PutRecord
  <2>8. CASE reusable = {}
    BY <1>1, <2>2, <2>3, <2>6, <2>8, AppendRecord DEF Room
  <2> QED BY <2>7, <2>8
<1>4. CASE \E i : CloseOneShot(i)
  <2>1. PICK i : CloseOneShot(i)
    BY <1>4
  <2> DEFINE o == [heap[i] EXCEPT !.ready = 0]
  <2>2. Put(i, o) /\ i \in DOMAIN heap /\ heap[i].cls = "oneshot" /\ Shaped(heap[i])
    BY <2>1, HeapShape DEF CloseOneShot, OneShots
  <2>3. Alike(heap[i], o)
    BY <2>2, ReadyWords DEF Alike, Open
  <2> HIDE DEF o
  <2> QED BY <1>1, <2>2, <2>3, AlikeRecord
<1> QED BY <1>3, <1>4

-----------------------------------------------------------------------------
(* Saving, rolling back and restarting *)

\* The persistence projection of a heap that loads, loads.
LEMMA ProjectedLoads ==
  ASSUME NEW h, WellFormed(h), Loads(h)
  PROVE  LET g == Projected(h) IN Loads(g) /\ Len(g) = Len(h)
<1> DEFINE g == Projected(h)
<1>1. g = [i \in DOMAIN h |-> Cleared(h[i])] /\ IsSeq(h) /\ Len(h) \in Nat
  BY SeqDomain DEF Projected, WellFormed
<1>2. \A i \in DOMAIN h : Alike(h[i], Cleared(h[i]))
  BY BufAlike DEF Cleared, WellFormed
<1> HIDE DEF g
<1>3. DOMAIN g = DOMAIN h /\ g = [i \in DOMAIN h |-> g[i]] /\ \A i \in DOMAIN h : g[i] = Cleared(h[i])
  BY <1>1
<1>4. Len(g) = Len(h)
  BY <1>1, <1>3, MapSeq
<1>5. Loads(g)
  BY <1>1, <1>2, <1>3, <1>4, AlikeLoads
<1> QED BY <1>4, <1>5 DEF g

\* Closing the temporary digests leaves a heap that loads, with none open.
LEMMA ReleasedLoads ==
  ASSUME NEW h, WellFormed(h), Loads(h)
  PROVE  LET g == Released(h) IN Loads(g) /\ OneOpen(g) /\ Len(g) = Len(h)
<1> DEFINE g == Released(h)
           new(o) == IF o.cls = "oneshot" THEN [o EXCEPT !.ready = 0, !.size = 1] ELSE o
<1>1. g = [i \in DOMAIN h |-> new(h[i])] /\ IsSeq(h) /\ Len(h) \in Nat
  BY SeqDomain DEF Released, WellFormed
<1>2. ASSUME NEW o, Shaped(o)
      PROVE  Alike(o, new(o)) /\ ~Open(new(o))
  <2> DEFINE w == [o EXCEPT !.ready = 0]
             z == [w EXCEPT !.size = 1]
  <2>1. new(o) = IF o.cls = "oneshot" THEN z ELSE o
    OBVIOUS
  <2>2. /\ Shaped(w) /\ w.cls = o.cls /\ w.kind = o.kind /\ w.mat = o.mat /\ w.pend = o.pend
        /\ w.mode = o.mode /\ w.ready = 0
    BY <1>2, ReadyWords
  <2> HIDE DEF w, new
  <2>3. /\ z.cls = o.cls /\ z.kind = o.kind /\ z.mat = o.mat /\ z.pend = o.pend
        /\ z.mode = o.mode /\ z.ready = 0
    BY <2>2 DEF Shaped
  <2> HIDE DEF z
  <2> QED BY <2>1, <2>3 DEF Alike, Open
<1>3. \A i \in DOMAIN h : Alike(h[i], new(h[i])) /\ ~Open(new(h[i]))
  BY <1>2 DEF WellFormed
<1> HIDE DEF g, new
<1>4. DOMAIN g = DOMAIN h /\ g = [i \in DOMAIN h |-> g[i]] /\ \A i \in DOMAIN h : g[i] = new(h[i])
  BY <1>1
<1>5. Len(g) = Len(h)
  BY <1>1, <1>4, MapSeq
<1>6. Loads(g)
  BY <1>1, <1>3, <1>4, <1>5, AlikeLoads
<1>7. OneOpen(g)
  BY <1>3, <1>4 DEF OneOpen
<1> QED BY <1>5, <1>6, <1>7 DEF g

\* An abort restores the words of the snapshot.
LEMMA RolledBackLoads ==
  ASSUME NEW now, NEW then, WellFormed(then), Loads(then), OneOpen(then)
  PROVE  LET g == RolledBack(now, then) IN Loads(g) /\ OneOpen(g) /\ Len(g) = Len(then)
<1> DEFINE g == RolledBack(now, then)
           b(i) == IF (then[i].cls = "key" /\ then[i].mat = 1) \/ HasStream(then[i])
                   THEN now[i].buf ELSE then[i].buf
           d(i) == IF Pseudo(then[i]) THEN now[i].data ELSE then[i].data
           c(i) == IF then[i].cls = "oneshot" /\ now[i].ready = 0 THEN 0 ELSE then[i].ready
           new(i) == [then[i] EXCEPT !.buf = b(i), !.data = d(i), !.ready = c(i)]
<1>1. g = [i \in DOMAIN then |-> new(i)] /\ IsSeq(then) /\ Len(then) \in Nat
  BY SeqDomain DEF RolledBack, WellFormed
<1>2. ASSUME NEW i \in DOMAIN then
      PROVE  Alike(then[i], new(i))
  <2> DEFINE o == then[i]
             x == b(i)
             y == d(i)
             z == c(i)
             w1 == [o EXCEPT !.buf = x]
             w2 == [w1 EXCEPT !.data = y]
             w3 == [w2 EXCEPT !.ready = z]
  <2>1. new(i) = w3 /\ Shaped(o) /\ (o.cls = "key" => y = o.data) /\ (z = o.ready \/ (o.cls = "oneshot" /\ z = 0))
    BY DEF WellFormed, Pseudo
  <2> HIDE DEF o, x, y, z, new
  <2>2. /\ Shaped(w1) /\ w1.cls = o.cls /\ w1.kind = o.kind /\ w1.size = o.size
        /\ w1.mat = o.mat /\ w1.pend = o.pend /\ w1.mode = o.mode
    BY <2>1 DEF Shaped
  <2> HIDE DEF w1
  <2>3. /\ Shaped(w2) /\ w2.cls = o.cls /\ w2.kind = o.kind /\ w2.size = o.size
        /\ w2.mat = o.mat /\ w2.pend = o.pend /\ w2.mode = o.mode /\ w2.data = y
    BY <2>2 DEF Shaped
  <2> HIDE DEF w2
  <2>4. /\ w3.cls = o.cls /\ w3.kind = o.kind /\ w3.size = o.size
        /\ w3.mat = o.mat /\ w3.pend = o.pend /\ w3.mode = o.mode /\ w3.data = y /\ w3.ready = z
    BY <2>3, ReadyWords
  <2> HIDE DEF w3
  <2>5. Alike(o, w3)
    BY <2>1, <2>4 DEF Alike, Open
  <2> QED BY <2>1, <2>5 DEF o
<1> HIDE DEF g, new
<1>3. DOMAIN g = DOMAIN then /\ g = [i \in DOMAIN then |-> g[i]] /\ \A i \in DOMAIN then : g[i] = new(i)
  BY <1>1
<1>4. Len(g) = Len(then)
  BY <1>1, <1>3, MapSeq
<1>5. Loads(g) /\ OneOpen(g)
  BY <1>1, <1>2, <1>3, <1>4, AlikeLoads
<1> QED BY <1>4, <1>5 DEF g

\* So what a rollback would leave loads.
LEMMA CommittedLoads ==
  ASSUME CryptoInv, RecordInv
  PROVE  WellFormed(Committed) /\ Loads(Committed) /\ OneOpen(Committed) /\ Len(Committed) <= MaxObj
<1>1. CASE tx = NoTx
  BY <1>1, HeapShape DEF Committed, RecordInv
<1>2. CASE tx # NoTx
  <2>1. Covers(heap, tx[1]) /\ WellFormed(heap) /\ WellFormed(tx[1])
    BY <1>2, HeapShape DEF CryptoInv, Covers
  <2>2. WellFormed(RolledBack(heap, tx[1]))
    BY <2>1, RolledBackWithin DEF Within
  <2>3. /\ Loads(RolledBack(heap, tx[1])) /\ OneOpen(RolledBack(heap, tx[1]))
        /\ Len(RolledBack(heap, tx[1])) = Len(tx[1])
    BY <1>2, <2>1, RolledBackLoads DEF RecordInv
  <2>4. Len(tx[1]) <= MaxObj
    <3>1. Len(tx[1]) <= Len(heap) /\ Len(heap) <= MaxObj /\ Len(tx[1]) \in Nat /\ Len(heap) \in Nat
      BY <2>1, SeqDomain DEF Covers, WellFormed, RecordInv
    <3> QED BY <3>1, CryptoConstants
  <2> QED BY <1>2, <2>2, <2>3, <2>4 DEF Committed
<1> QED BY <1>1, <1>2

\* Steps around a transaction and between two commands.
LEMMA TransactionRecord ==
  ASSUME CryptoInv, RecordInv, Enter \/ Begin \/ Commit \/ Abort \/ CheckpointPin
  PROVE  RecordInv'
<1>1. token' = token /\ token \in 1 .. MaxToken /\ running' \in BOOLEAN /\ locked' \in BOOLEAN
  BY DEF Enter, Begin, Commit, Abort, CheckpointPin, RecordInv
<1>2. WellFormed(heap)
  BY HeapShape
<1>3. CASE Enter
  BY <1>1, <1>3 DEF Enter, RecordInv, Loads, OneOpen
<1>4. CASE Begin
  <2>1. running' /\ tx'[1] = heap /\ heap' = heap /\ flash' = flash
    BY <1>4 DEF Begin
  <2> QED BY <1>1, <2>1 DEF RecordInv
<1>5. CASE Commit
  <2>1. tx' = NoTx /\ heap' = heap /\ flash' = Projected(heap)
    BY <1>5 DEF Commit
  <2>2. Loads(flash') /\ Len(flash') <= MaxObj
    BY <1>2, <2>1, ProjectedLoads DEF RecordInv
  <2> QED BY <1>1, <2>1, <2>2 DEF RecordInv
<1>6. CASE Abort
  <2>1. tx' = NoTx /\ heap' = Committed /\ flash' = flash
    BY <1>6 DEF Abort, Committed
  <2> QED BY <1>1, <2>1, CommittedLoads DEF RecordInv
<1>7. CASE CheckpointPin
  <2>1. tx' = tx /\ heap' = heap /\ flash' = Projected(Committed) /\ running' = running
    BY <1>7 DEF CheckpointPin
  <2>2. Loads(flash') /\ Len(flash') <= MaxObj
    BY <2>1, ProjectedLoads, CommittedLoads
  <2> QED BY <1>1, <2>1, <2>2 DEF RecordInv
<1> QED BY <1>3, <1>4, <1>5, <1>6, <1>7

\* The end of a command saves its heap; a restart loads the record.
LEMMA RestartRecord ==
  ASSUME CryptoInv, RecordInv, Return \/ Recover
  PROVE  RecordInv'
<1>1. token' = token /\ token \in 1 .. MaxToken /\ running' \in BOOLEAN /\ locked' \in BOOLEAN /\ tx' = NoTx
  BY DEF Return, Recover, RecordInv
<1>2. CASE Return
  <2> DEFINE h == Released(Committed)
  <2>1. heap' = h /\ flash' = Projected(h)
    BY <1>2 DEF Return
  <2>2. Loads(h) /\ OneOpen(h) /\ Len(h) <= MaxObj
    BY CommittedLoads, ReleasedLoads
  <2>3. WellFormed(h)
    BY CommittedLoads, ReleasedKept DEF Kept
  <2> HIDE DEF h
  <2>4. Loads(flash') /\ Len(flash') <= MaxObj
    BY <2>1, <2>2, <2>3, ProjectedLoads
  <2> QED BY <1>1, <2>1, <2>2, <2>4 DEF RecordInv
<1>3. CASE Recover
  <2>1. heap' = Released(flash) /\ flash' = flash
    BY <1>3 DEF Recover
  <2>2. WellFormed(flash)
    BY DEF CryptoInv, Sound
  <2>3. Loads(heap') /\ OneOpen(heap') /\ Len(heap') <= MaxObj
    BY <2>1, <2>2, ReleasedLoads DEF RecordInv
  <2> QED BY <1>1, <2>1, <2>3 DEF RecordInv
<1> QED BY <1>2, <1>3

\* Deselecting clears transient keys.
LEMMA DeselectRecord ==
  ASSUME CryptoInv, RecordInv, Deselect
  PROVE  RecordInv'
<1> DEFINE new(i) == IF heap[i].cls = "key" /\ ClearEvent(heap[i].kind) = "deselect"
                     THEN [heap[i] EXCEPT !.buf = NoValue] ELSE heap[i]
<1>1. heap' = [i \in DOMAIN heap |-> new(i)] /\ UNCHANGED <<tx, flash, running, locked, token>>
  BY DEF Deselect
<1>2. IsSeq(heap) /\ Len(heap) \in Nat /\ \A i \in DOMAIN heap : Shaped(heap[i])
  BY HeapShape
<1>3. \A i \in DOMAIN heap : Alike(heap[i], heap[i])
  BY DEF Alike
<1>4. \A i \in DOMAIN heap : Alike(heap[i], new(i))
  BY <1>2, <1>3, BufAlike
<1> HIDE DEF new
<1>5. /\ DOMAIN heap' = DOMAIN heap /\ heap' = [i \in DOMAIN heap |-> heap'[i]]
      /\ \A i \in DOMAIN heap : heap'[i] = new(i)
  BY <1>1
<1>6. Len(heap') = Len(heap)
  BY <1>2, <1>5, MapSeq
<1>7. Loads(heap') /\ OneOpen(heap')
  BY <1>2, <1>4, <1>5, <1>6, AlikeLoads DEF RecordInv
<1> QED BY <1>1, <1>6, <1>7 DEF RecordInv

-----------------------------------------------------------------------------
(* The theorems *)

\* An applet begins with nothing on its heap.
LEMMA RecordInit == Init => RecordInv
<1> SUFFICES ASSUME Init PROVE RecordInv
  OBVIOUS
<1>1. heap = <<>> /\ flash = <<>> /\ tx = NoTx /\ token = 1 /\ running = FALSE /\ locked = FALSE
  BY DEF Init
<1>2. DOMAIN <<>> = {} /\ Len(<<>>) = 0
  OBVIOUS
<1>3. Loads(<<>>) /\ OneOpen(<<>>)
  BY <1>2 DEF Loads, OneOpen
<1>4. token \in 1 .. MaxToken /\ 0 <= MaxObj
  BY <1>1, CryptoConstants
<1> QED BY <1>1, <1>2, <1>3, <1>4 DEF RecordInv

\* Every call, and every step around it, leaves objects a record of which loads.
LEMMA RecordNext == CryptoInv /\ RecordInv /\ [Next]_vars => RecordInv'
<1> SUFFICES ASSUME CryptoInv, RecordInv, [Next]_vars PROVE RecordInv'
  OBVIOUS
<1>1. CASE Enter \/ Begin \/ Commit \/ Abort \/ CheckpointPin
  BY <1>1, TransactionRecord
<1>2. CASE Return \/ Recover
  BY <1>2, RestartRecord
<1>3. CASE Deselect
  BY <1>3, DeselectRecord
<1>4. CASE KeyOps
  <2>1. CASE \E c \in Constructed : BuildKey(c[2], c[3])
    BY <2>1, ConstructRecord
  <2>2. CASE ~ \E c \in Constructed : BuildKey(c[2], c[3])
    BY <1>4, <2>2, KeyRecord DEF KeyOps
  <2> QED BY <2>1, <2>2
<1>5. CASE NewPair
  BY <1>5, ConstructRecord
<1>6. CASE \E p \in DOMAIN heap : \E c \in Constructed : PairNew(p, c[2], c[3])
  BY <1>6, PairNewRecord
<1>7. CASE \E p, i, j \in DOMAIN heap : PairOf(p, i, j)
  BY <1>7, PairOfRecord
<1>8. CASE \E p \in DOMAIN heap : GenKeyPair(p)
  BY <1>8, GenKeyPairRecord
<1>9. CASE \E c \in Constructed : GetInstance(c[1], c[2])
  BY <1>9, GetInstanceRecord
<1>10. CASE \/ \E i, k \in DOMAIN heap : \E mode \in {1, 2}, iv \in {0, 1} : SignInit(i, k, mode, iv)
            \/ \E i, k \in DOMAIN heap : \E mode \in {1, 2}, iv \in {0, 1} : CipherInit(i, k, mode, iv)
  BY <1>10, InitRecord
<1>11. CASE \E i, k \in DOMAIN heap : AgreeInit(i, k)
  BY <1>11, AgreeRecord
<1>12. CASE \/ \E i \in DOMAIN heap : \E n \in Chunks : SignUpdate(i, n)
            \/ \E i \in DOMAIN heap : \E n \in Chunks : SignFinal(i, n)
            \/ \E i \in DOMAIN heap : SignHash(i)
            \/ \E i \in DOMAIN heap : \E n \in Chunks : CipherUpdate(i, n)
            \/ \E i \in DOMAIN heap : \E n \in Chunks, t \in 0 .. Block : CipherFinal(i, n, t)
            \/ \E i \in DOMAIN heap : \E n \in Chunks : RsaUpdate(i, n)
            \/ \E i \in DOMAIN heap : \E n \in Chunks : RsaFinal(i, n)
            \/ \E i \in DOMAIN heap : \E n \in Chunks : DigestFinal(i, n)
            \/ \E i \in DOMAIN heap : \E iv \in {0, 1} : DigestReset(i, iv)
  BY <1>12, StreamRecord
<1>13. CASE \E i \in DOMAIN heap : \E n \in Chunks : DigestUpdate(i, n)
  BY <1>13, DigestRecord
<1>14. CASE (\E c \in Constructed : OpenOneShot(c[2])) \/ (\E i \in DOMAIN heap : CloseOneShot(i))
  BY <1>14, OneShotRecord
<1>15. CASE \/ \E i \in DOMAIN heap : PseudoGenerate(i)
            \/ \E i \in DOMAIN heap : SetSeed(i)
            \/ \E i \in DOMAIN heap : SecureGenerate(i)
  BY <1>15, RandomRecord
<1>16. CASE UNCHANGED vars
  <2>1. UNCHANGED <<heap, tx, flash, token, running, locked>>
    BY <1>16 DEF vars
  <2> QED BY <2>1 DEF RecordInv
<1> QED BY <1>1, <1>2, <1>3, <1>4, <1>5, <1>6, <1>7, <1>8, <1>9, <1>10, <1>11, <1>12, <1>13, <1>14,
           <1>15, <1>16 DEF Next

\* A set any two members of which are equal has at most one.
LEMMA AtMostOne ==
  ASSUME NEW T, \A i, j \in T : i = j
  PROVE  Cardinality(T) <= 1
<1>1. CASE T = {}
  BY <1>1, FS_EmptySet
<1>2. CASE T # {}
  <2>1. PICK x : x \in T
    BY <1>2
  <2>2. T = {x}
    BY <2>1
  <2>3. Cardinality({x}) = 1
    BY FS_Singleton
  <2> QED BY <2>2, <2>3
<1> QED BY <1>1, <1>2

\* A key that keeps its promises passes the checks on restored keys.
LEMMA GoodValid ==
  ASSUME NEW h, NEW o, Good(h, o), ~(o.cls = "cipher" /\ o.kind = 12)
  PROVE  ValidSaved(h, o)
<1>1. o.cls = "key" => ValidKey(o)
  BY DEF Good, GoodKey, ValidKey, RsaKinds
<1> QED BY <1>1 DEF Good, ValidSaved

\* The invariant is as strong as the property the runs check.
LEMMA RecordInvLoads == CryptoInv /\ RecordInv => RecordLoads
<1> SUFFICES ASSUME CryptoInv, RecordInv PROVE RecordLoads
  OBVIOUS
<1> DEFINE T == {i \in OneShots : heap[i].ready = 1}
<1>1. Cardinality(T) <= 1
  <2>1. \A i, j \in T : i = j
    BY DEF RecordInv, OneOpen, OneShots, Open
  <2> HIDE DEF T
  <2> QED BY <2>1, AtMostOne
<1>2. tx # NoTx => running /\ Len(tx[1]) <= Len(heap)
  BY DEF CryptoInv, RecordInv, Covers
<1>3. \A i \in DOMAIN heap : heap[i].mat \in 0 .. Len(heap) /\ heap[i].pend \in 0 .. Len(heap)
  BY DEF RecordInv, Loads, Good
<1>4. TypeOK
  BY <1>1, <1>2, <1>3 DEF TypeOK, RecordInv
<1> QED BY <1>4, GoodValid DEF RecordLoads, RecordInv, Loads

\* Every record saved, at a commit, at a PIN checkpoint in the middle of a
\* transaction or at the end of a command, passes validate_saved_security when
\* the applet is loaded again (saved_state.rs), and at most one temporary
\* digest is open, for any applet, any number of objects and any interleaving
\* of constructions, initialisations, aborts and cuts.
THEOREM CryptoRecordLoads == Spec => []RecordLoads
<1>1. Init => RecordInv
  BY RecordInit
<1>2. CryptoInv /\ RecordInv /\ [Next]_vars => RecordInv'
  BY RecordNext
<1>3. CryptoInv /\ RecordInv => RecordLoads
  BY RecordInvLoads
<1> QED BY <1>1, <1>2, <1>3, CryptoInvariantHolds, PTL DEF Spec

-----------------------------------------------------------------------------
(* Streams keep their bytes: the arithmetic *)

\* Division with remainder.
LEMMA DivMod ==
  ASSUME NEW a \in Nat, NEW b \in Nat \ {0}
  PROVE  /\ a \div b \in Nat /\ a % b \in Nat /\ a % b < b /\ a % b <= a
         /\ ((a - (a % b)) \div b) * b = a - (a % b)
<1>1. a \div b \in Nat
  OBVIOUS
<1>2. a % b \in Nat /\ a % b < b
  OBVIOUS
<1>3. ((a - (a % b)) \div b) * b = a - (a % b)
  OBVIOUS
<1>4. a % b <= a
  OBVIOUS
<1> QED BY <1>1, <1>2, <1>3, <1>4

\* One block less.
LEMMA BlockLess ==
  ASSUME NEW a \in Nat, NEW b \in Nat \ {0}, a % b = 0, a > 0
  PROVE  a >= b /\ ((a - b) \div b) * b = a - b
<1>1. a >= b
  OBVIOUS
<1>2. PICK q \in Nat : a = q * b
  <2>1. (a \div b) * b = a /\ a \div b \in Nat
    OBVIOUS
  <2> QED BY <2>1
<1>3. q # 0
  BY <1>2
<1>4. q - 1 \in Nat /\ a - b = (q - 1) * b
  BY <1>2, <1>3
<1>5. ((q - 1) * b) \div b = q - 1
  BY <1>4
<1> QED BY <1>1, <1>4, <1>5

\* Blocks counted together.
LEMMA BlocksAdd ==
  ASSUME NEW p \in Nat, NEW q \in Nat, NEW b \in Nat
  PROVE  (p + q) * b = p * b + q * b
OBVIOUS

\* What a MAC or a hash keeps back (mac.rs, signature.rs): all but whole blocks,
\* and never the last byte of a CMAC.
LEMMA HeldBounds ==
  ASSUME NEW k, NEW total \in Nat
  PROVE  LET done == total - Held(k, total) IN
         /\ Held(k, total) \in Nat /\ done \in Nat /\ done <= total
         /\ (done \div Block) * Block = done
         /\ k = 49 /\ total > 0 => Held(k, total) > 0
<1>1. Block \in Nat \ {0}
  BY CryptoConstants
<1>2. CASE k = 49
  <2>1. Held(k, total) = IF total = 0 THEN 0 ELSE ((total - 1) % Block) + 1
    BY <1>2 DEF Held, DesMac, RetailMac
  <2>2. CASE total = 0
    BY <1>1, <2>1, <2>2
  <2>3. CASE total # 0
    <3> DEFINE a == total - 1
               r == a % Block
    <3>1. a \in Nat /\ Held(k, total) = r + 1 /\ total = a + 1
      BY <2>1, <2>3
    <3> HIDE DEF a
    <3>2. r \in Nat /\ r <= a /\ ((a - r) \div Block) * Block = a - r
      <4>1. r \in Nat /\ r <= a
        BY <1>1, <3>1, DivMod
      <4>2. ((a - r) \div Block) * Block = a - r
        BY <1>1, <3>1, DivMod
      <4> QED BY <4>1, <4>2
    <3> HIDE DEF r
    <3>3. total - Held(k, total) = a - r
      BY <3>1, <3>2
    <3> QED BY <3>1, <3>2, <3>3
  <2> QED BY <2>2, <2>3
<1>3. CASE k # 49 /\ k \in {18} \cup DesMac
  <2>1. Held(k, total) = total % Block
    BY <1>3 DEF Held
  <2>2. total % Block \in Nat /\ total % Block <= total
    BY <1>1, DivMod
  <2>3. ((total - (total % Block)) \div Block) * Block = total - (total % Block)
    BY <1>1, DivMod
  <2> QED BY <1>3, <2>1, <2>2, <2>3
<1>4. CASE k # 49 /\ k \notin {18} \cup DesMac
  <2>1. Held(k, total) = total
    BY <1>4 DEF Held
  <2>2. (0 \div Block) * Block = 0
    BY <1>1
  <2> QED BY <1>4, <2>1, <2>2
<1> QED BY <1>2, <1>3, <1>4

\* What a cipher update releases: whole blocks, and not the last one of a
\* decryption that must remove padding.
LEMMA UpdateBounds ==
  ASSUME NEW k, NEW encrypt \in BOOLEAN, NEW total \in Nat
  PROVE  LET len == UpdateLen(k, encrypt, total) IN
         /\ len \in Nat /\ len <= total /\ (len \div Block) * Block = len
         /\ ~encrypt /\ Padding(k) >= 2 /\ total > 0 => len < total
<1>1. Block \in Nat \ {0}
  BY CryptoConstants
<1> DEFINE r == total % Block
<1>2. r \in Nat /\ r <= total /\ ((total - r) \div Block) * Block = total - r
  <2>1. r \in Nat /\ r <= total
    BY <1>1, DivMod
  <2>2. ((total - r) \div Block) * Block = total - r
    BY <1>1, DivMod
  <2> QED BY <2>1, <2>2
<1>3. Whole(total) = total - r
  BY DEF Whole
<1> HIDE DEF r
<1>4. CASE ~encrypt /\ Padding(k) >= 2 /\ total > 0 /\ Whole(total) = total
  <2>1. UpdateLen(k, encrypt, total) = total - Block
    BY <1>4 DEF UpdateLen
  <2>2. r = 0
    BY <1>2, <1>3, <1>4
  <2>3. total >= Block /\ ((total - Block) \div Block) * Block = total - Block
    BY <1>1, <1>4, <2>2, BlockLess DEF r
  <2> QED BY <1>1, <2>1, <2>3
<1>5. CASE ~(~encrypt /\ Padding(k) >= 2 /\ total > 0 /\ Whole(total) = total)
  <2>1. UpdateLen(k, encrypt, total) = total - r
    BY <1>3, <1>5 DEF UpdateLen
  <2> QED BY <1>2, <1>3, <1>5, <2>1
<1> QED BY <1>4, <1>5

\* What doFinal adds and removes.
LEMMA FinalBounds ==
  ASSUME NEW k, NEW encrypt \in BOOLEAN, NEW total \in Nat, NEW seen, NEW trim \in 0 .. Block,
         FinalAllowed(k, encrypt, total, seen), trim # 0 => ~encrypt /\ Padding(k) >= 2
  PROVE  LET len == FinalLen(k, encrypt, total) IN
         /\ len \in Nat /\ total <= len /\ len - total <= Block /\ trim <= total
         /\ trim # 0 => len = total
<1>1. Block \in Nat \ {0}
  BY CryptoConstants
<1> DEFINE r == total % Block
<1>2. r \in Nat /\ r <= total /\ r < Block
  BY <1>1, DivMod
<1>3. Whole(total) = total - r
  BY DEF Whole
<1>4. r = 0 /\ total # 0 => total >= Block
  BY <1>1, BlockLess
<1>5. CASE k = 240
  <2>1. Padding(k) = 0
    BY <1>5 DEF Padding
  <2> QED BY <1>1, <1>5, <2>1 DEF FinalLen
<1>6. CASE k # 240 /\ encrypt /\ Padding(k) # 0 /\ (Padding(k) # 1 \/ total % Block # 0)
  <2>1. FinalLen(k, encrypt, total) = total + Block - r
    BY <1>6 DEF FinalLen
  <2>2. trim = 0
    BY <1>6
  <2> HIDE DEF r
  <2> QED BY <1>1, <1>2, <2>1, <2>2
<1>7. CASE k # 240 /\ ~(encrypt /\ Padding(k) # 0 /\ (Padding(k) # 1 \/ total % Block # 0))
  <2>1. FinalLen(k, encrypt, total) = total - r
    BY <1>3, <1>7 DEF FinalLen
  <2>2. r = 0
    BY <1>7 DEF FinalAllowed
  <2>3. trim # 0 => total # 0
    BY <1>7 DEF FinalAllowed
  <2> HIDE DEF r
  <2> QED BY <1>1, <1>2, <1>4, <2>1, <2>2, <2>3
<1> QED BY <1>5, <1>6, <1>7

-----------------------------------------------------------------------------
(* Runs of message bytes *)

\* The bytes of a message after the first a.
Run(s, a) == s \in Seq(Nat) /\ \A j \in 1 .. Len(s) : s[j] = a + j

\* The bytes an applet passes in.
LEMMA PositionsRun ==
  ASSUME NEW a \in Nat, NEW n \in Nat
  PROVE  LET s == Positions(a, a + n) IN Run(s, a) /\ Len(s) = n
<1> DEFINE s == Positions(a, a + n)
<1>1. s = [j \in 1 .. n |-> a + j]
  BY DEF Positions
<1>2. s \in Seq(Nat) /\ Len(s) = n
  BY <1>1
<1>3. \A j \in 1 .. n : s[j] = a + j
  BY <1>1
<1> QED BY <1>2, <1>3 DEF Run

\* One run after another.
LEMMA RunJoin ==
  ASSUME NEW a \in Nat, NEW s, Run(s, a), NEW t, Run(t, a + Len(s))
  PROVE  LET u == s \o t IN Run(u, a) /\ Len(u) = Len(s) + Len(t)
<1> DEFINE u == s \o t
<1>1. s \in Seq(Nat) /\ t \in Seq(Nat) /\ DOMAIN s = 1 .. Len(s) /\ DOMAIN t = 1 .. Len(t)
  BY DEF Run
<1>2. /\ u \in Seq(Nat) /\ Len(u) = Len(s) + Len(t) /\ \A j \in DOMAIN s : u[j] = s[j]
      /\ \A j \in DOMAIN t : u[Len(s) + j] = t[j]
  BY <1>1, Concatenated
<1> HIDE DEF u
<1>3. ASSUME NEW j \in 1 .. Len(u)
      PROVE  u[j] = a + j
  <2>1. CASE j <= Len(s)
    <3>1. j \in 1 .. Len(s)
      BY <1>1, <1>2, <2>1
    <3>2. s[j] = a + j /\ u[j] = s[j]
      BY <1>1, <1>2, <3>1 DEF Run
    <3> QED BY <3>2
  <2>2. CASE j > Len(s)
    <3> DEFINE m == j - Len(s)
    <3>1. m \in 1 .. Len(t) /\ j = Len(s) + m /\ Len(s) \in Nat
      BY <1>1, <1>2, <2>2
    <3> HIDE DEF m
    <3>2. u[j] = t[m] /\ t[m] = a + Len(s) + m
      BY <1>1, <1>2, <3>1 DEF Run
    <3> QED BY <3>1, <3>2
  <2> QED BY <1>1, <1>2, <2>1, <2>2
<1> QED BY <1>2, <1>3 DEF Run, u

\* A run cut in two.
LEMMA RunCut ==
  ASSUME NEW a \in Nat, NEW s, Run(s, a), NEW d \in Nat, d <= Len(s)
  PROVE  LET u == SubSeq(s, 1, d)
             v == SubSeq(s, d + 1, Len(s))
         IN /\ Run(u, a) /\ Len(u) = d /\ Run(v, a + d) /\ Len(v) = Len(s) - d
<1>1. s \in Seq(Nat) /\ Len(s) \in Nat
  BY DEF Run
<1> DEFINE u == SubSeq(s, 1, d)
           v == SubSeq(s, d + 1, Len(s))
<1>2. u \in Seq(Nat) /\ Len(u) = d /\ \A j \in 1 .. d : u[j] = s[j]
  BY <1>1
<1>3. v \in Seq(Nat) /\ Len(v) = Len(s) - d /\ \A j \in 1 .. Len(s) - d : v[j] = s[d + j]
  BY <1>1
<1> HIDE DEF u, v
<1>4. Run(u, a)
  BY <1>1, <1>2 DEF Run
<1>5. Run(v, a + d)
  BY <1>1, <1>3 DEF Run
<1> QED BY <1>2, <1>3, <1>4, <1>5 DEF u, v

\* A run from the start of the message is the message.
LEMMA RunWhole ==
  ASSUME NEW s, Run(s, 0)
  PROVE  s = Positions(0, Len(s))
<1>1. s \in Seq(Nat) /\ Len(s) \in Nat
  BY DEF Run
<1>2. s = [j \in 1 .. Len(s) |-> s[j]]
  BY <1>1
<1>3. \A j \in 1 .. Len(s) : s[j] = 0 + j
  BY DEF Run
<1>4. Positions(0, Len(s)) = [j \in 1 .. Len(s) |-> 0 + j]
  BY <1>1 DEF Positions
<1> QED BY <1>2, <1>3, <1>4

\* Nothing is a run.
LEMMA RunEmpty ==
  ASSUME NEW a
  PROVE  Run(<<>>, a) /\ Len(<<>>) = 0
BY DEF Run

\* A sequence of no bytes.
LEMMA EmptySeq ==
  ASSUME NEW s \in Seq(Nat), Len(s) = 0
  PROVE  s = <<>>
OBVIOUS

\* The bytes held back and those of a chunk; what is released of them, after
\* what was released before, and what is held back again.
Fed(pend, fed, n) == pend \o Positions(fed, fed + n)
More(out, all, d) == out \o SubSeq(all, 1, d)
Back(all, d) == SubSeq(all, d + 1, Len(all))

\* The bytes at hand follow those released.
LEMMA RunFeed ==
  ASSUME NEW out, Run(out, 0), NEW pend, Run(pend, Len(out)), NEW fed, fed = Len(out) + Len(pend),
         NEW n \in Nat
  PROVE  LET all == Fed(pend, fed, n) IN
         Run(all, Len(out)) /\ Len(all) = Len(pend) + n /\ Len(all) \in Nat
<1>1. Len(out) \in Nat /\ Len(pend) \in Nat /\ fed \in Nat
  BY DEF Run
<1> DEFINE s == Positions(fed, fed + n)
<1>2. Run(s, fed) /\ Len(s) = n
  BY <1>1, PositionsRun
<1> HIDE DEF s
<1>3. Run(pend \o s, Len(out)) /\ Len(pend \o s) = Len(pend) + Len(s)
  BY <1>1, <1>2, RunJoin
<1> QED BY <1>1, <1>2, <1>3 DEF s, Fed

\* Releasing the first d of them.
LEMMA RunRelease ==
  ASSUME NEW out, Run(out, 0), NEW all, Run(all, Len(out)), NEW d \in Nat, d <= Len(all)
  PROVE  LET more == More(out, all, d)
             rest == Back(all, d)
         IN /\ Run(more, 0) /\ Len(more) = Len(out) + d
            /\ Run(rest, Len(more)) /\ Len(rest) = Len(all) - d
<1>1. Len(out) \in Nat /\ Len(all) \in Nat
  BY DEF Run
<1> DEFINE u == SubSeq(all, 1, d)
           v == SubSeq(all, d + 1, Len(all))
<1>2. Run(u, Len(out)) /\ Len(u) = d /\ Run(v, Len(out) + d) /\ Len(v) = Len(all) - d
  BY <1>1, RunCut
<1> HIDE DEF u, v
<1>3. Run(out \o u, 0) /\ Len(out \o u) = Len(out) + Len(u)
  BY <1>1, <1>2, RunJoin
<1>4. More(out, all, d) = out \o u /\ Back(all, d) = v
  BY DEF u, v, More, Back
<1> QED BY <1>2, <1>3, <1>4

\* The first m bytes of what an operation covered are the message, the others
\* padding.
Covered(w, m) ==
  /\ w \in Seq(Nat) /\ m \in Nat /\ m <= Len(w) /\ Len(w) - m <= Block
  /\ \A j \in 1 .. m : w[j] = j
  /\ \A j \in m + 1 .. Len(w) : w[j] = 0

\* An operation without padding covers the message.
LEMMA CoveredRun ==
  ASSUME NEW w, Run(w, 0), NEW m, m = Len(w)
  PROVE  Covered(w, m)
<1>1. w \in Seq(Nat) /\ Len(w) \in Nat /\ Block \in Nat
  BY CryptoConstants DEF Run
<1> QED BY <1>1 DEF Covered, Run

\* With padding it covers the message and the padding.
LEMMA CoveredPadded ==
  ASSUME NEW w, Run(w, 0), NEW p \in Nat, p <= Block
  PROVE  Covered(w \o [j \in 1 .. p |-> 0], Len(w))
<1> DEFINE z == [j \in 1 .. p |-> 0]
           u == w \o z
<1>1. w \in Seq(Nat) /\ Len(w) \in Nat /\ DOMAIN w = 1 .. Len(w) /\ Block \in Nat
  BY CryptoConstants DEF Run
<1>2. z \in Seq(Nat) /\ Len(z) = p /\ DOMAIN z = 1 .. p /\ \A j \in 1 .. p : z[j] = 0
  OBVIOUS
<1> HIDE DEF z
<1>3. /\ u \in Seq(Nat) /\ Len(u) = Len(w) + Len(z) /\ \A j \in DOMAIN w : u[j] = w[j]
      /\ \A j \in DOMAIN z : u[Len(w) + j] = z[j]
  <2>1. w \in Seq(Nat) /\ z \in Seq(Nat)
    BY <1>1, <1>2
  <2> QED BY <2>1, Concatenated
<1> HIDE DEF u
<1>4. \A j \in 1 .. Len(w) : u[j] = j
  <2>1. \A j \in 1 .. Len(w) : w[j] = 0 + j
    BY DEF Run
  <2> QED BY <1>1, <1>3, <2>1
<1>5. ASSUME NEW j \in Len(w) + 1 .. Len(u)
      PROVE  u[j] = 0
  <2> DEFINE m == j - Len(w)
  <2>1. m \in 1 .. p /\ j = Len(w) + m
    BY <1>1, <1>2, <1>3
  <2> HIDE DEF m
  <2> QED BY <1>2, <1>3, <2>1
<1>6. Covered(u, Len(w))
  BY <1>1, <1>2, <1>3, <1>4, <1>5 DEF Covered
<1> QED BY <1>6 DEF u, z

\* Covering is what the runs check of a finished operation.
LEMMA CoveredWhole ==
  ASSUME NEW w, NEW m, Covered(w, m)
  PROVE  /\ SubSeq(w, 1, m) = Positions(0, m)
         /\ \A j \in m + 1 .. Len(w) : w[j] = 0
         /\ Len(w) - m <= Block
<1>1. w \in Seq(Nat) /\ m \in Nat /\ m <= Len(w)
  BY DEF Covered
<1>2. SubSeq(w, 1, m) = [j \in 1 .. m |-> w[j]]
  BY <1>1
<1>3. Positions(0, m) = [j \in 1 .. m |-> j]
  BY <1>1 DEF Positions
<1>4. \A j \in 1 .. m : w[j] = j
  BY DEF Covered
<1>5. SubSeq(w, 1, m) = Positions(0, m)
  BY <1>2, <1>3, <1>4
<1> QED BY <1>5 DEF Covered

-----------------------------------------------------------------------------
(* Streams keep their bytes: the invariant *)

Streaming(o) == o.cls \in {"sign", "cipher", "digest", "sum"}

\* A stream array, and the history of one.
Stored(b) ==
  /\ b = [seen |-> b.seen, iv |-> b.iv, blocks |-> b.blocks, pend |-> b.pend, sched |-> b.sched]
  /\ b.blocks \in Nat
Told(h) ==
  /\ h = [fed |-> h.fed, out |-> h.out, stale |-> h.stale, last |-> h.last]
  /\ h.stale \in BOOLEAN

\* A stream object has its array from construction on, or from its first use.
Fixed(o) ==
  /\ o.cls = "cipher" => o.pend = 1
  /\ o.cls = "sum" => o.mat = 1
  /\ o.cls \in {"sign", "digest"} => o.pend \in {0, 1} /\ (o.pend = 0 => o.buf = NoStream)

\* Which streams count the blocks they have chained, which release nothing
\* before they end, and which hold a block back to remove its padding.
Counts(o) == (o.cls = "sign" /\ o.kind \notin HashSign) \/ (o.cls = "cipher" /\ IsChained(o.kind))
Collects(o) == o.cls \in {"digest", "sum"} \/ (o.cls = "cipher" /\ o.kind = 12)
HoldsBack(o) == o.cls = "cipher" /\ o.kind # 12 /\ o.mode = 1 /\ Padding(o.kind) >= 2

\* Released bytes, then held ones: the bytes fed, in order.
Flows(b, h) ==
  Stored(b) /\ Run(h.out, 0) /\ Run(b.pend, Len(h.out)) /\ h.fed = Len(h.out) + Len(b.pend)

\* The history h is that of the stream of object o.
Tracks(o, h) ==
  /\ Flows(o.buf, h)
  /\ Counts(o) => o.buf.blocks * Block = Len(h.out)
  /\ Collects(o) => h.out = <<>>
  /\ o.cls = "sign" /\ o.kind = 49 /\ h.fed > 0 => o.buf.pend # <<>>
  /\ HoldsBack(o) /\ ~h.stale /\ h.fed > 0 => o.buf.pend # <<>>
  /\ h.last # <<>> => Covered(h.last[1], h.last[2])

\* Every stream of the heap has its history; those of the record and those an
\* abort would return to are such that their history survives, or is silent.
StreamInv ==
  /\ hist = [i \in 1 .. MaxObj |-> hist[i]] /\ \A i \in 1 .. MaxObj : Told(hist[i])
  /\ \A i \in DOMAIN heap : Streaming(heap[i]) => Tracks(heap[i], hist[i]) /\ Fixed(heap[i])
  /\ \A i \in DOMAIN flash : Streaming(flash[i]) => Fixed(flash[i]) /\ flash[i].buf = NoStream
  /\ tx # NoTx => \A i \in DOMAIN tx[1] :
       /\ tx[1][i].cls = heap[i].cls
       /\ Streaming(heap[i]) => tx[1][i].kind = heap[i].kind /\ Fixed(tx[1][i])

\* The invariant is as strong as the property the runs check.
LEMMA StreamInvKeeps == StreamInv => StreamKeepsBytes
<1> SUFFICES ASSUME StreamInv, NEW i \in DOMAIN heap, Streaming(heap[i])
             PROVE  LET o == heap[i]
                        h == hist[i]
                        w == IF h.last = <<>> THEN <<>> ELSE h.last[1]
                    IN /\ h.out \o o.buf.pend = Positions(0, h.fed)
                       /\ Counts(o) => o.buf.blocks * Block = Len(h.out)
                       /\ o.cls = "sign" /\ o.kind = 49 /\ h.fed > 0 => o.buf.pend # <<>>
                       /\ HoldsBack(o) /\ ~h.stale /\ h.fed > 0 => o.buf.pend # <<>>
                       /\ h.last # <<>> =>
                            /\ SubSeq(w, 1, h.last[2]) = Positions(0, h.last[2])
                            /\ \A j \in h.last[2] + 1 .. Len(w) : w[j] = 0
                            /\ Len(w) - h.last[2] <= Block
  BY DEF StreamKeepsBytes, Streaming, Counts, HoldsBack
<1> DEFINE o == heap[i]
           h == hist[i]
<1>1. Tracks(o, h)
  BY DEF StreamInv
<1> HIDE DEF o, h
<1>2. h.out \o o.buf.pend = Positions(0, h.fed)
  <2>1. Run(h.out, 0) /\ Run(o.buf.pend, Len(h.out)) /\ h.fed = Len(h.out) + Len(o.buf.pend)
    BY <1>1 DEF Tracks, Flows
  <2>2. Run(h.out \o o.buf.pend, 0) /\ Len(h.out \o o.buf.pend) = h.fed
    <3>1. Len(h.out) \in Nat /\ 0 + Len(h.out) = Len(h.out)
      BY <2>1 DEF Run
    <3> QED BY <2>1, <3>1, RunJoin
  <2> QED BY <2>2, RunWhole
<1>3. h.last # <<>> =>
        /\ SubSeq(h.last[1], 1, h.last[2]) = Positions(0, h.last[2])
        /\ \A j \in h.last[2] + 1 .. Len(h.last[1]) : h.last[1][j] = 0
        /\ Len(h.last[1]) - h.last[2] <= Block
  BY <1>1, CoveredWhole DEF Tracks
<1> QED BY <1>1, <1>2, <1>3 DEF Tracks, o, h

-----------------------------------------------------------------------------
(* Steps of one stream *)

\* A cleared array, whatever vector it starts from, has a silent history.
LEMMA SilentTracks ==
  ASSUME NEW o, Stored(o.buf), o.buf.pend = <<>>, o.buf.blocks = 0
  PROVE  Tracks(o, Silent) /\ Told(Silent)
<1>1. /\ Silent.fed = 0 /\ Silent.out = <<>> /\ Silent.last = <<>> /\ Told(Silent)
  BY DEF Silent, Told
<1>2. Run(<<>>, 0) /\ Len(<<>>) = 0 /\ 0 * Block = 0
  BY RunEmpty, CryptoConstants
<1>3. Flows(o.buf, Silent)
  BY <1>1, <1>2 DEF Flows
<1> HIDE DEF Silent
<1> QED BY <1>1, <1>2, <1>3 DEF Tracks

\* The cleared arrays of the code.
LEMMA NoStreamStored ==
  /\ Stored(NoStream) /\ NoStream.pend = <<>> /\ NoStream.blocks = 0
  /\ \A v : LET b == [NoStream EXCEPT !.iv = v] IN Stored(b) /\ b.pend = <<>> /\ b.blocks = 0
  /\ \A k, v : LET b == DesContext(k, v) IN Stored(b) /\ b.pend = <<>> /\ b.blocks = 0
<1>1. Stored(NoStream) /\ NoStream.pend = <<>> /\ NoStream.blocks = 0
  BY DEF NoStream, Stored
<1>2. ASSUME NEW b, Stored(b), b.pend = <<>>, b.blocks = 0, NEW v
      PROVE  /\ LET c == [b EXCEPT !.iv = v] IN Stored(c) /\ c.pend = <<>> /\ c.blocks = 0
             /\ LET c == [b EXCEPT !.seen = v] IN Stored(c) /\ c.pend = <<>> /\ c.blocks = 0
             /\ LET c == [b EXCEPT !.sched = v] IN Stored(c) /\ c.pend = <<>> /\ c.blocks = 0
  BY <1>2 DEF Stored
<1>3. ASSUME NEW k, NEW v
      PROVE  LET b == DesContext(k, v) IN Stored(b) /\ b.pend = <<>> /\ b.blocks = 0
  <2> DEFINE x == TRUE
             y == Contents(heap[k]).val
             b1 == [NoStream EXCEPT !.iv = v]
             b2 == [b1 EXCEPT !.seen = x]
             b3 == [b2 EXCEPT !.sched = y]
  <2>1. DesContext(k, v) = b3
    BY DEF DesContext
  <2>2. Stored(b1) /\ b1.pend = <<>> /\ b1.blocks = 0
    BY <1>1, <1>2
  <2> HIDE DEF b1, x, y
  <2>3. Stored(b2) /\ b2.pend = <<>> /\ b2.blocks = 0
    BY <1>2, <2>2
  <2> HIDE DEF b2
  <2>4. Stored(b3) /\ b3.pend = <<>> /\ b3.blocks = 0
    BY <1>2, <2>3
  <2> HIDE DEF b3
  <2> QED BY <2>1, <2>4
<1> QED BY <1>1, <1>2, <1>3

\* What finished is forgotten one step later.
LEMMA HeardTracks ==
  ASSUME NEW h, Told(h)
  PROVE  LET g == [h EXCEPT !.last = <<>>] IN
         Told(g) /\ \A o : Tracks(o, h) => Tracks(o, g)
<1> DEFINE g == [h EXCEPT !.last = <<>>]
<1>1. g.fed = h.fed /\ g.out = h.out /\ g.stale = h.stale /\ g.last = <<>> /\ Told(g)
  BY DEF Told
<1> HIDE DEF g
<1>2. ASSUME NEW o, Tracks(o, h)
      PROVE  Tracks(o, g)
  BY <1>1, <1>2 DEF Tracks, Flows
<1> QED BY <1>1, <1>2 DEF g

\* A stream depends on class, algorithm, direction and array only.
LEMMA TracksWords ==
  ASSUME NEW o, NEW w, NEW h, Tracks(o, h), w.cls = o.cls, w.kind = o.kind, w.buf = o.buf,
         w.mode = o.mode
  PROVE  Tracks(w, h)
BY DEF Tracks, Counts, Collects, HoldsBack

\* A final operation leaves a cleared array and what it covered.
LEMMA DoneTracks ==
  ASSUME NEW o, o.buf = NoStream, NEW w, NEW m, Covered(w, m)
  PROVE  LET g == [Silent EXCEPT !.last = <<w, m>>] IN Told(g) /\ Tracks(o, g)
<1> DEFINE p == <<w, m>>
           g == [Silent EXCEPT !.last = p]
<1>1. p[1] = w /\ p[2] = m
  OBVIOUS
<1> HIDE DEF p
<1>2. Tracks(o, Silent) /\ Told(Silent) /\ Silent.fed = 0
  <2>1. Silent.fed = 0
    BY DEF Silent
  <2> QED BY <2>1, SilentTracks, NoStreamStored
<1> HIDE DEF Silent
<1>3. g.fed = Silent.fed /\ g.out = Silent.out /\ g.stale = Silent.stale /\ g.last = p /\ Told(g)
  BY <1>2 DEF Told
<1> HIDE DEF g
<1>4. Tracks(o, g)
  BY <1>1, <1>2, <1>3 DEF Tracks, Flows
<1> QED BY <1>3, <1>4 DEF g, p

\* How stream w may follow stream o when d of the bytes at hand are released.
Releases(o, w, d, all) ==
  /\ Counts(o) => w.buf.blocks = o.buf.blocks + d \div Block /\ (d \div Block) * Block = d
  /\ Collects(o) => d = 0
  /\ (o.cls = "sign" /\ o.kind = 49) \/ HoldsBack(o) => d < Len(all) \/ Len(all) = 0

\* History h when n more bytes were accepted and s released in all.
After(h, n, s) == [fed |-> h.fed + n, out |-> s, stale |-> h.stale, last |-> <<>>]

\* Bytes are accepted, and the first d of those at hand released.
LEMMA FedRun ==
  ASSUME NEW out, NEW pend, NEW fed, Run(out, 0), Run(pend, Len(out)), fed = Len(out) + Len(pend),
         NEW n \in Nat, NEW d \in Nat, d <= Len(Fed(pend, fed, n))
  PROVE  LET all == Fed(pend, fed, n)
             more == More(out, all, d)
             rest == Back(all, d)
         IN /\ Run(more, 0) /\ Run(rest, Len(more)) /\ fed + n = Len(more) + Len(rest)
            /\ Len(more) = Len(out) + d /\ Len(rest) = Len(all) - d
            /\ Len(all) = Len(pend) + n /\ Len(out) \in Nat /\ Len(pend) \in Nat
<1> DEFINE all == Fed(pend, fed, n)
           more == More(out, all, d)
           rest == Back(all, d)
<1>1. Run(all, Len(out)) /\ Len(all) = Len(pend) + n /\ Len(all) \in Nat
  BY RunFeed
<1>2. Len(out) \in Nat /\ Len(pend) \in Nat
  BY DEF Run
<1>3. Run(more, 0) /\ Len(more) = Len(out) + d /\ Run(rest, Len(more)) /\ Len(rest) = Len(all) - d
  <2> HIDE DEF all
  <2>1. d <= Len(all)
    BY DEF all
  <2> QED BY <1>1, <2>1, RunRelease
<1> HIDE DEF all, more, rest
<1>4. fed + n = Len(more) + Len(rest)
  BY <1>1, <1>2, <1>3
<1> QED BY <1>1, <1>2, <1>3, <1>4 DEF all, more, rest

\* The same of an array and its history.
LEMMA FedFlows ==
  ASSUME NEW b, NEW h, Flows(b, h), NEW n \in Nat, NEW c, Stored(c),
         NEW all, all = Fed(b.pend, h.fed, n),
         NEW d \in Nat, d <= Len(all), c.pend = Back(all, d),
         NEW g, g.fed = h.fed + n, g.out = More(h.out, all, d)
  PROVE  /\ Flows(c, g) /\ Len(g.out) = Len(h.out) + d /\ Len(c.pend) = Len(all) - d
         /\ Len(all) = Len(b.pend) + n /\ Len(h.out) \in Nat /\ Len(b.pend) \in Nat
<1>1. Run(h.out, 0) /\ Run(b.pend, Len(h.out)) /\ h.fed = Len(h.out) + Len(b.pend)
  BY DEF Flows
<1> DEFINE out == h.out
           pend == b.pend
           fed == h.fed
           more == More(out, Fed(pend, fed, n), d)
           rest == Back(Fed(pend, fed, n), d)
<1> HIDE DEF out, pend, fed
<1>2. /\ Run(more, 0) /\ Run(rest, Len(more)) /\ fed + n = Len(more) + Len(rest)
      /\ Len(more) = Len(out) + d /\ Len(rest) = Len(Fed(pend, fed, n)) - d
      /\ Len(Fed(pend, fed, n)) = Len(pend) + n /\ Len(out) \in Nat /\ Len(pend) \in Nat
  <2>1. Run(out, 0) /\ Run(pend, Len(out)) /\ fed = Len(out) + Len(pend)
    BY <1>1 DEF out, pend, fed
  <2>2. d <= Len(Fed(pend, fed, n))
    BY DEF pend, fed
  <2> QED BY <2>1, <2>2, FedRun
<1>3. more = g.out /\ rest = c.pend /\ fed + n = g.fed /\ Fed(pend, fed, n) = all
  BY DEF out, pend, fed
<1> HIDE DEF more, rest
<1>4. Flows(c, g)
  BY <1>2, <1>3 DEF Flows
<1> QED BY <1>2, <1>3, <1>4 DEF out, pend

\* So a stream that is fed keeps its history.
LEMMA FedTracks ==
  ASSUME NEW o, NEW h, Told(h), Tracks(o, h), NEW n \in Nat,
         NEW all, all = Fed(o.buf.pend, h.fed, n),
         NEW d \in Nat, d <= Len(all),
         NEW w, w.cls = o.cls, w.kind = o.kind, w.mode = o.mode, Stored(w.buf),
         w.buf.pend = Back(all, d), Releases(o, w, d, all),
         NEW g, g = After(h, n, More(h.out, all, d))
  PROVE  Told(g) /\ Tracks(w, g)
<1>1. /\ g.fed = h.fed + n /\ g.out = More(h.out, all, d) /\ g.stale = h.stale
      /\ g.last = <<>> /\ Told(g)
  BY DEF Told, After
<1>2. Flows(o.buf, h)
  BY DEF Tracks
<1>3. /\ Flows(w.buf, g) /\ Len(g.out) = Len(h.out) + d /\ Len(w.buf.pend) = Len(all) - d
      /\ Len(all) = Len(o.buf.pend) + n /\ Len(h.out) \in Nat /\ Len(o.buf.pend) \in Nat
  <2> DEFINE b == o.buf
             c == w.buf
  <2>1. Flows(b, h) /\ Stored(c) /\ all = Fed(b.pend, h.fed, n) /\ c.pend = Back(all, d)
    BY <1>2
  <2>2. g.fed = h.fed + n /\ g.out = More(h.out, all, d)
    BY <1>1
  <2> HIDE DEF b, c
  <2>3. /\ Flows(c, g) /\ Len(g.out) = Len(h.out) + d /\ Len(c.pend) = Len(all) - d
        /\ Len(all) = Len(b.pend) + n /\ Len(h.out) \in Nat /\ Len(b.pend) \in Nat
    BY <2>1, <2>2, FedFlows
  <2> QED BY <2>3 DEF b, c
<1>4. Counts(w) => w.buf.blocks * Block = Len(g.out)
  <2> SUFFICES ASSUME Counts(w) PROVE w.buf.blocks * Block = Len(g.out)
    OBVIOUS
  <2>1. Counts(o)
    BY DEF Counts
  <2> DEFINE p == o.buf.blocks
             q == d \div Block
  <2>2. w.buf.blocks = p + q /\ q * Block = d
    BY <2>1 DEF Releases
  <2>3. p * Block = Len(h.out) /\ p \in Nat
    BY <1>2, <2>1 DEF Tracks, Flows, Stored
  <2>4. q \in Nat /\ Block \in Nat
    BY CryptoConstants, DivMod
  <2> HIDE DEF p, q
  <2>5. (p + q) * Block = p * Block + q * Block
    BY <2>3, <2>4, BlocksAdd
  <2> QED BY <1>3, <2>2, <2>3, <2>5
<1>5. Collects(w) => g.out = <<>>
  <2> SUFFICES ASSUME Collects(w) PROVE g.out = <<>>
    OBVIOUS
  <2>1. Collects(o)
    BY DEF Collects
  <2>2. d = 0 /\ h.out = <<>> /\ Len(<<>>) = 0
    BY <2>1 DEF Tracks, Releases
  <2>3. Len(g.out) = 0
    BY <1>3, <2>2
  <2>4. g.out \in Seq(Nat)
    BY <1>3 DEF Flows, Run
  <2> DEFINE x == g.out
  <2> HIDE DEF x
  <2>5. x \in Seq(Nat) /\ Len(x) = 0
    BY <2>3, <2>4 DEF x
  <2>6. x = <<>>
    BY <2>5, EmptySeq
  <2> QED BY <2>6 DEF x
<1>6. ASSUME (o.cls = "sign" /\ o.kind = 49) \/ (HoldsBack(o) /\ ~h.stale), g.fed > 0
      PROVE  w.buf.pend # <<>>
  <2>1. d < Len(all) \/ Len(all) = 0
    BY <1>6 DEF Releases
  <2>2. CASE d < Len(all)
    <3>1. Len(w.buf.pend) # 0 /\ Len(<<>>) = 0
      BY <1>3, <2>2
    <3> QED BY <3>1
  <2>3. CASE Len(all) = 0
    <3>1. n = 0 /\ Len(o.buf.pend) = 0
      BY <1>3, <2>3
    <3>2. h.fed > 0
      <4>1. h.fed = Len(h.out) + Len(o.buf.pend)
        BY <1>2 DEF Flows
      <4> QED BY <1>1, <1>3, <1>6, <3>1, <4>1
    <3>3. o.buf.pend # <<>> /\ o.buf.pend \in Seq(Nat)
      BY <1>2, <1>6, <3>2 DEF Tracks, Flows, Run
    <3> QED BY <3>1, <3>3, EmptySeq
  <2> QED BY <2>1, <2>2, <2>3
<1>7. HoldsBack(w) => HoldsBack(o)
  BY DEF HoldsBack
<1> QED BY <1>1, <1>3, <1>4, <1>5, <1>6, <1>7 DEF Tracks

-----------------------------------------------------------------------------
(* Steps of the heap *)

\* A handle has an entry in the history.
LEMMA Listed ==
  ASSUME CryptoInv, RecordInv, NEW i \in DOMAIN heap
  PROVE  i \in 1 .. MaxObj
BY HeapShape, CryptoConstants DEF RecordInv

\* A handle of the snapshot is one of the heap.
LEMMA SnapshotListed ==
  ASSUME CryptoInv, tx # NoTx, NEW i \in DOMAIN tx[1]
  PROVE  i \in DOMAIN heap
<1>1. IsSeq(tx[1]) /\ Len(tx[1]) <= Len(heap)
  BY DEF CryptoInv, Covers, WellFormed
<1> QED BY <1>1, HeapShape, SeqDomain

\* A step that touches no stream.
LEMMA QuietStream ==
  ASSUME CryptoInv, RecordInv, StreamInv, Heard, UNCHANGED <<tx, flash>>,
         \A i \in DOMAIN heap :
           /\ i \in DOMAIN heap' /\ heap'[i].cls = heap[i].cls
           /\ Streaming(heap[i]) => heap'[i] = heap[i],
         \A i \in DOMAIN heap' : i \notin DOMAIN heap => ~Streaming(heap'[i])
  PROVE  StreamInv'
<1>1. /\ hist' = [i \in 1 .. MaxObj |-> hist'[i]] /\ \A i \in 1 .. MaxObj : Told(hist'[i])
      /\ \A i \in 1 .. MaxObj : \A o : Tracks(o, hist[i]) => Tracks(o, hist'[i])
  <2>1. /\ hist' = [i \in 1 .. MaxObj |-> hist'[i]]
        /\ \A i \in 1 .. MaxObj : hist'[i] = [hist[i] EXCEPT !.last = <<>>]
    BY DEF Heard
  <2> QED BY <2>1, HeardTracks DEF StreamInv
<1>2. \A i \in DOMAIN heap' : Streaming(heap'[i]) => i \in DOMAIN heap /\ heap'[i] = heap[i]
  BY DEF Streaming
<1>3. \A i \in DOMAIN heap' : Streaming(heap'[i]) => Tracks(heap'[i], hist'[i]) /\ Fixed(heap'[i])
  BY <1>1, <1>2, Listed DEF StreamInv
<1>4. tx # NoTx => \A i \in DOMAIN tx[1] : i \in DOMAIN heap
  BY SnapshotListed
<1>5. tx' # NoTx => \A i \in DOMAIN tx'[1] :
        /\ tx'[1][i].cls = heap'[i].cls
        /\ Streaming(heap'[i]) => tx'[1][i].kind = heap'[i].kind /\ Fixed(tx'[1][i])
  BY <1>2, <1>4 DEF StreamInv, Streaming
<1> QED BY <1>1, <1>3, <1>5 DEF StreamInv

\* Something else than a stream is rewritten.
LEMMA PutQuiet ==
  ASSUME CryptoInv, RecordInv, StreamInv, Heard, UNCHANGED <<tx, flash>>,
         NEW i \in DOMAIN heap, ~Streaming(heap[i]), NEW o, o.cls = heap[i].cls, Put(i, o)
  PROVE  StreamInv'
<1>1. /\ DOMAIN heap' = DOMAIN heap /\ heap'[i] = o /\ \A j \in DOMAIN heap : j # i => heap'[j] = heap[j]
  BY HeapShape, PutSeq DEF Put
<1> QED BY <1>1, QuietStream

\* Something else than a stream is constructed.
LEMMA AppendQuiet ==
  ASSUME CryptoInv, RecordInv, StreamInv, Heard, UNCHANGED <<tx, flash>>,
         NEW o, ~Streaming(o), heap' = Append(heap, o)
  PROVE  StreamInv'
<1>1. /\ DOMAIN heap' = DOMAIN heap \cup {Len(heap) + 1} /\ heap'[Len(heap) + 1] = o
      /\ \A j \in DOMAIN heap : heap'[j] = heap[j]
  BY HeapShape, AppendSeq
<1> QED BY <1>1, QuietStream

\* One stream is rewritten, and its history.
LEMMA OneStream ==
  ASSUME CryptoInv, RecordInv, StreamInv, UNCHANGED <<tx, flash>>,
         NEW i \in DOMAIN heap, NEW o, Put(i, o), o.cls = heap[i].cls, o.kind = heap[i].kind, Fixed(o),
         NEW g, hist' = [hist EXCEPT ![i] = g], Told(g), Tracks(o, g)
  PROVE  StreamInv'
<1>1. /\ DOMAIN heap' = DOMAIN heap /\ heap'[i] = o /\ \A j \in DOMAIN heap : j # i => heap'[j] = heap[j]
  BY HeapShape, PutSeq DEF Put
<1>2. /\ hist = [j \in 1 .. MaxObj |-> hist[j]] /\ i \in 1 .. MaxObj
      /\ \A j \in 1 .. MaxObj : Told(hist[j])
  BY Listed DEF StreamInv
<1>3. /\ hist' = [j \in 1 .. MaxObj |-> hist'[j]] /\ hist'[i] = g
      /\ \A j \in 1 .. MaxObj : j # i => hist'[j] = hist[j]
  BY <1>2
<1>4. \A j \in 1 .. MaxObj : Told(hist'[j])
  BY <1>2, <1>3
<1>5. \A j \in DOMAIN heap' : Streaming(heap'[j]) => Tracks(heap'[j], hist'[j]) /\ Fixed(heap'[j])
  BY <1>1, <1>3, Listed DEF StreamInv
<1>6. \A j \in DOMAIN heap : heap'[j].cls = heap[j].cls /\ heap'[j].kind = heap[j].kind
  BY <1>1
<1>7. tx # NoTx => \A j \in DOMAIN tx[1] : j \in DOMAIN heap
  BY SnapshotListed
<1>8. tx' # NoTx => \A j \in DOMAIN tx'[1] :
        /\ tx'[1][j].cls = heap'[j].cls
        /\ Streaming(heap'[j]) => tx'[1][j].kind = heap'[j].kind /\ Fixed(tx'[1][j])
  BY <1>6, <1>7 DEF StreamInv, Streaming
<1> QED BY <1>3, <1>4, <1>5, <1>8 DEF StreamInv

\* A new object starts silent.
LEMMA AppendStream ==
  ASSUME CryptoInv, RecordInv, StreamInv, UNCHANGED <<tx, flash>>, Len(heap) + 1 <= MaxObj,
         NEW o, heap' = Append(heap, o), Streaming(o) => Fixed(o) /\ o.buf = NoStream,
         hist' = [hist EXCEPT ![Len(heap) + 1] = Silent]
  PROVE  StreamInv'
<1> DEFINE n == Len(heap) + 1
<1>1. /\ DOMAIN heap' = DOMAIN heap \cup {n} /\ heap'[n] = o /\ n \notin DOMAIN heap
      /\ \A j \in DOMAIN heap : heap'[j] = heap[j]
  BY HeapShape, AppendSeq
<1>2. n \in 1 .. MaxObj
  <2>1. Len(heap) \in Nat /\ MaxObj \in Nat
    BY HeapShape, CryptoConstants
  <2> QED BY <2>1
<1>3. Streaming(o) => Tracks(o, Silent)
  BY SilentTracks, NoStreamStored
<1>4. Told(Silent)
  BY DEF Told, Silent
<1> HIDE DEF n
<1>5. /\ hist' = [j \in 1 .. MaxObj |-> hist'[j]] /\ hist'[n] = Silent
      /\ \A j \in 1 .. MaxObj : j # n => hist'[j] = hist[j]
  BY <1>2 DEF StreamInv, n
<1>6. \A j \in 1 .. MaxObj : Told(hist'[j])
  BY <1>4, <1>5 DEF StreamInv
<1>7. \A j \in DOMAIN heap' : Streaming(heap'[j]) => Tracks(heap'[j], hist'[j]) /\ Fixed(heap'[j])
  <2>1. ASSUME NEW j \in DOMAIN heap, Streaming(heap[j])
        PROVE  Tracks(heap'[j], hist'[j]) /\ Fixed(heap'[j])
    <3>1. Tracks(heap[j], hist[j]) /\ Fixed(heap[j])
      BY <2>1 DEF StreamInv
    <3>2. heap'[j] = heap[j] /\ hist'[j] = hist[j]
      BY <1>1, <1>5, Listed
    <3> QED BY <3>1, <3>2
  <2> QED BY <1>1, <1>3, <1>5, <2>1
<1>8. tx # NoTx => \A j \in DOMAIN tx[1] : j \in DOMAIN heap
  BY SnapshotListed
<1>9. tx' # NoTx => \A j \in DOMAIN tx'[1] :
        /\ tx'[1][j].cls = heap'[j].cls
        /\ Streaming(heap'[j]) => tx'[1][j].kind = heap'[j].kind /\ Fixed(tx'[1][j])
  BY <1>1, <1>8 DEF StreamInv, Streaming
<1> QED BY <1>5, <1>6, <1>7, <1>9 DEF StreamInv

-----------------------------------------------------------------------------
(* Calls on other objects *)

\* Keys, random sources, key agreements and pairs around existing keys.
LEMMA OtherStream ==
  ASSUME CryptoInv, RecordInv, StreamInv, NEW i, NEW j, NEW k,
         \/ SetKey(i) \/ SetEcValue(i) \/ ClearKey(i) \/ (\E p : SetParameter(i, p))
         \/ (\E p : CopyDomainParameters(i, p)) \/ (\E m \in BOOLEAN : SetRsaPart(i, m))
         \/ PseudoGenerate(i) \/ SetSeed(i) \/ SecureGenerate(i)
         \/ AgreeInit(i, k) \/ PairOf(i, j, k)
  PROVE  StreamInv'
<1>1. Heard /\ UNCHANGED <<tx, flash>>
  <2>1. OnlyHeap => Heard /\ InCall
    BY DEF OnlyHeap
  <2>2. CASE SetKey(i) \/ SetEcValue(i) \/ ClearKey(i)
    BY <2>1, <2>2 DEF SetKey, SetEcValue, ClearKey, InCall
  <2>3. CASE \/ (\E p : SetParameter(i, p)) \/ (\E p : CopyDomainParameters(i, p))
             \/ (\E m \in BOOLEAN : SetRsaPart(i, m))
    BY <2>1, <2>3 DEF SetParameter, CopyDomainParameters, SetRsaPart, InCall
  <2>4. CASE PseudoGenerate(i) \/ SetSeed(i) \/ SecureGenerate(i)
    BY <2>1, <2>4 DEF PseudoGenerate, SetSeed, SecureGenerate, InCall
  <2>5. CASE AgreeInit(i, k) \/ PairOf(i, j, k)
    BY <2>1, <2>5 DEF AgreeInit, PairOf, InCall
  <2> QED BY <2>2, <2>3, <2>4, <2>5
<1>2. ASSUME NEW w, i \in DOMAIN heap, heap[i].cls \in {"key", "random", "agree", "pair"},
             w.cls = heap[i].cls, Put(i, w)
      PROVE  StreamInv'
  BY <1>1, <1>2, PutQuiet DEF Streaming
<1>3. CASE \/ SetKey(i) \/ SetEcValue(i) \/ ClearKey(i) \/ (\E p : SetParameter(i, p))
           \/ (\E p : CopyDomainParameters(i, p)) \/ (\E m \in BOOLEAN : SetRsaPart(i, m))
  <2>1. i \in Keys(heap) /\ \E w : Shaped(w) /\ w.cls = "key" /\ Put(i, w)
    BY <1>3, KeyPuts
  <2> QED BY <1>2, <2>1 DEF Keys
<1>4. CASE PseudoGenerate(i) \/ SetSeed(i) \/ SecureGenerate(i)
  <2>1. i \in DOMAIN heap /\ heap[i].cls = "random" /\ \E w : Put(i, w) /\ Alike(heap[i], w)
    BY <1>4, RandomPuts
  <2> QED BY <1>2, <2>1 DEF Alike
<1>5. CASE AgreeInit(i, k)
  <2> DEFINE w1 == [heap[i] EXCEPT !.mat = k]
             w == [w1 EXCEPT !.ready = 1]
  <2>1. Put(i, w) /\ i \in DOMAIN heap /\ heap[i].cls = "agree" /\ Shaped(heap[i])
    BY <1>5, HeapShape DEF AgreeInit, Is
  <2>2. Shaped(w1) /\ w1.cls = heap[i].cls
    BY <2>1, EditField
  <2> HIDE DEF w1
  <2>3. w.cls = heap[i].cls
    BY <2>2, EditReady
  <2> HIDE DEF w
  <2> QED BY <1>2, <2>1, <2>3
<1>6. CASE PairOf(i, j, k)
  <2>1. PICK a, b : /\ Put(i, Joined(heap[i], a, b, j, k)) /\ i \in DOMAIN heap /\ heap[i].cls = "pair"
    BY <1>6 DEF PairOf
  <2> DEFINE w == Joined(heap[i], a, b, j, k)
  <2>2. w.cls = "pair"
    BY <2>1, HeapShape, JoinedWords
  <2> HIDE DEF w
  <2> QED BY <1>2, <2>1, <2>2 DEF w
<1> QED BY <1>3, <1>4, <1>5, <1>6

\* Keys and pairs are constructed.
LEMMA ConstructStream ==
  ASSUME CryptoInv, RecordInv, StreamInv, (\E k, bits : BuildKey(k, bits)) \/ NewPair
  PROVE  StreamInv'
<1>1. Heard /\ UNCHANGED <<tx, flash>>
  BY DEF BuildKey, NewPair, InCall
<1>2. PICK cls \in {"key", "pair"} : \E k, bits : heap' = Append(heap, Fresh(cls, k, bits))
  BY DEF BuildKey, NewPair
<1>3. PICK k, bits : heap' = Append(heap, Fresh(cls, k, bits))
  BY <1>2
<1> DEFINE o == Fresh(cls, k, bits)
<1>4. heap' = Append(heap, o) /\ o.cls = cls
  BY <1>3, FreshWords
<1> HIDE DEF o
<1> QED BY <1>1, <1>2, <1>4, AppendQuiet DEF Streaming

\* So is a pair with its keys.
LEMMA PairNewStream ==
  ASSUME CryptoInv, RecordInv, StreamInv, NEW p, NEW k, NEW bits, PairNew(p, k, bits)
  PROVE  StreamInv'
<1> DEFINE n == Len(heap)
           a == Fresh("key", IF k = 2 THEN 4 ELSE 11, bits)
           b == Fresh("key", IF k = 2 THEN 6 ELSE 12, bits)
           o == Joined(heap[p], k, bits, n + 1, n + 2)
           g == [heap EXCEPT ![p] = o] \o <<a, b>>
<1>1. /\ p \in DOMAIN heap /\ heap[p].cls = "pair" /\ Shaped(heap[p]) /\ heap' = g
      /\ Heard /\ UNCHANGED <<tx, flash>>
  BY HeapShape DEF PairNew, InCall
<1>2. a.cls = "key" /\ b.cls = "key"
  BY FreshWords
<1>3. o.cls = "pair"
  BY <1>1, JoinedWords
<1> HIDE DEF a, b, o
<1>4. IsSeq(heap) /\ n \in Nat /\ DOMAIN heap = 1 .. n
  BY HeapShape
<1>5. /\ DOMAIN g = DOMAIN heap \cup {n + 1, n + 2}
      /\ g[p] = o /\ g[n + 1] = a /\ g[n + 2] = b
      /\ \A j \in DOMAIN heap : j # p => g[j] = heap[j]
  BY <1>1, <1>4, PairAppended
<1> HIDE DEF g, n
<1>6. \A i \in DOMAIN heap :
        /\ i \in DOMAIN heap' /\ heap'[i].cls = heap[i].cls
        /\ Streaming(heap[i]) => heap'[i] = heap[i]
  BY <1>1, <1>3, <1>5 DEF Streaming
<1>7. \A i \in DOMAIN heap' : i \notin DOMAIN heap => ~Streaming(heap'[i])
  BY <1>1, <1>2, <1>5 DEF Streaming
<1> QED BY <1>1, <1>6, <1>7, QuietStream

\* Generating a pair and deselecting rewrite keys.
LEMMA RewriteStream ==
  ASSUME CryptoInv, RecordInv, StreamInv, (\E p : GenKeyPair(p)) \/ Deselect
  PROVE  StreamInv'
<1>1. Heard /\ UNCHANGED <<tx, flash>>
  BY DEF GenKeyPair, Deselect, InCall
<1>2. \A i \in DOMAIN heap : Shaped(heap[i])
  BY HeapShape
<1> SUFFICES /\ DOMAIN heap' = DOMAIN heap
             /\ \A i \in DOMAIN heap : heap'[i] = heap[i] \/ (heap[i].cls = "key" /\ heap'[i].cls = "key")
  BY <1>1, QuietStream DEF Streaming
<1>3. CASE \E p : GenKeyPair(p)
  <2>1. PICK p : GenKeyPair(p)
    BY <1>3
  <2>2. heap[p].mat \in Keys(heap) /\ heap[p].pend \in Keys(heap)
    BY <2>1, HeapShape DEF GenKeyPair, WellFormed, PairsJoined
  <2>3. /\ DOMAIN heap' = DOMAIN heap
        /\ \A i \in DOMAIN heap : i \in {heap[p].mat, heap[p].pend} => heap'[i] = Filled(heap[i], token + 1)
        /\ \A i \in DOMAIN heap : i \notin {heap[p].mat, heap[p].pend} => heap'[i] = heap[i]
    BY <2>1 DEF GenKeyPair
  <2>4. \A i \in DOMAIN heap : heap[i].cls = "key" => Filled(heap[i], token + 1).cls = "key"
    BY <1>2, FilledWords
  <2> QED BY <2>2, <2>3, <2>4 DEF Keys
<1>4. CASE Deselect
  <2>1. /\ DOMAIN heap' = DOMAIN heap
        /\ \A i \in DOMAIN heap :
             \/ heap'[i] = heap[i]
             \/ heap[i].cls = "key" /\ heap'[i] = [heap[i] EXCEPT !.buf = NoValue]
    BY <1>4 DEF Deselect
  <2>2. \A i \in DOMAIN heap : [heap[i] EXCEPT !.buf = NoValue].cls = heap[i].cls
    BY <1>2 DEF Shaped
  <2> QED BY <2>1, <2>2
<1> QED BY <1>3, <1>4

\* The temporary digest.
LEMMA OneShotStream ==
  ASSUME CryptoInv, RecordInv, StreamInv, (\E k : OpenOneShot(k)) \/ (\E i : CloseOneShot(i))
  PROVE  StreamInv'
<1>1. Heard /\ UNCHANGED <<tx, flash>>
  BY DEF OpenOneShot, CloseOneShot, OnlyHeap, InCall
<1>2. DOMAIN heap = 1 .. Len(heap) /\ Len(heap) \in Nat
  BY HeapShape
<1>3. ASSUME NEW i \in OneShots, NEW o, o.cls = "oneshot", Put(i, o)
      PROVE  StreamInv'
  BY <1>1, <1>3, PutQuiet DEF OneShots, Streaming
<1>4. CASE \E k : OpenOneShot(k)
  <2>1. PICK k : OpenOneShot(k)
    BY <1>4
  <2> DEFINE w == Fresh("oneshot", k, 0)
             o == [w EXCEPT !.ready = 1]
             reusable == {i \in OneShots : heap[i].size = 1}
             c == CHOOSE i \in reusable : \A j \in reusable : j <= i
  <2>2. IF reusable # {} THEN Put(c, o) ELSE heap' = Append(heap, o)
    BY <2>1 DEF OpenOneShot
  <2>3. Shaped(w) /\ w.cls = "oneshot"
    BY FreshWords
  <2> HIDE DEF w
  <2>4. o.cls = "oneshot"
    BY <2>3, EditReady
  <2> HIDE DEF o
  <2>5. CASE reusable # {}
    <3>1. reusable \subseteq 1 .. Len(heap) /\ reusable \subseteq OneShots
      BY <1>2 DEF OneShots
    <3>2. \E i \in reusable : \A j \in reusable : j <= i
      <4> HIDE DEF reusable
      <4> QED BY <1>2, <2>5, <3>1, GreatestIndex
    <3>3. c \in reusable
      BY <3>2
    <3> HIDE DEF c, reusable
    <3> QED BY <1>3, <2>2, <2>4, <2>5, <3>1, <3>3
  <2>6. CASE reusable = {}
    BY <1>1, <2>2, <2>4, <2>6, AppendQuiet DEF Streaming
  <2> QED BY <2>5, <2>6
<1>5. CASE \E i : CloseOneShot(i)
  <2>1. PICK i : CloseOneShot(i)
    BY <1>5
  <2> DEFINE o == [heap[i] EXCEPT !.ready = 0]
  <2>2. Put(i, o) /\ i \in OneShots /\ heap[i].cls = "oneshot" /\ Shaped(heap[i])
    BY <2>1, HeapShape DEF CloseOneShot, OneShots
  <2>3. o.cls = "oneshot"
    BY <2>2, EditReady
  <2> HIDE DEF o
  <2> QED BY <1>3, <2>2, <2>3
<1> QED BY <1>4, <1>5

-----------------------------------------------------------------------------
(* Calls on streams *)

\* How a call that feeds a stream edits its history.
Edited(i, x, y) == [hist EXCEPT ![i].last = <<>>, ![i].fed = x, ![i].out = y]
Collected(i, x) == [hist EXCEPT ![i].last = <<>>, ![i].fed = x]
Entered(i, g) == [hist EXCEPT ![i] = g]

\* Only the entry of that stream changes.
LEMMA HistEdit ==
  ASSUME StreamInv, NEW i \in 1 .. MaxObj, NEW n, NEW y
  PROVE  /\ Edited(i, hist[i].fed + n, y) = Entered(i, After(hist[i], n, y))
         /\ Collected(i, hist[i].fed + n) = Entered(i, After(hist[i], n, hist[i].out))
<1> DEFINE f == hist
           h == f[i]
           x == h.fed + n
           h1 == [h EXCEPT !.last = <<>>]
           h2 == [h1 EXCEPT !.fed = x]
           h3 == [h2 EXCEPT !.out = y]
           f1 == [f EXCEPT ![i].last = <<>>]
           f2 == [f1 EXCEPT ![i].fed = x]
           f3 == [f2 EXCEPT ![i].out = y]
<1>1. f = [j \in 1 .. MaxObj |-> f[j]] /\ Told(h) /\ i \in DOMAIN f
  BY DEF StreamInv
<1>2. /\ Edited(i, hist[i].fed + n, y) = f3 /\ Collected(i, hist[i].fed + n) = f2
      /\ After(h, n, y) = [fed |-> x, out |-> y, stale |-> h.stale, last |-> <<>>]
      /\ After(h, n, h.out) = [fed |-> x, out |-> h.out, stale |-> h.stale, last |-> <<>>]
  BY DEF Edited, Collected, After
<1> HIDE DEF f, x
<1>3. f1 = [f EXCEPT ![i] = h1]
  BY <1>1
<1>4. h1 = [fed |-> h.fed, out |-> h.out, stale |-> h.stale, last |-> <<>>]
  BY <1>1 DEF Told
<1>5. h2 = [fed |-> x, out |-> h.out, stale |-> h.stale, last |-> <<>>]
  <2> HIDE DEF h, h1
  <2> QED BY <1>4
<1>6. h3 = [fed |-> x, out |-> y, stale |-> h.stale, last |-> <<>>]
  <2> HIDE DEF h, h2
  <2> QED BY <1>5
<1> HIDE DEF h1, h2, h3, f1
<1>7. f2 = [f EXCEPT ![i] = h2]
  BY <1>1, <1>3 DEF h2
<1> HIDE DEF f2
<1>8. f3 = [f EXCEPT ![i] = h3]
  BY <1>1, <1>7 DEF h3
<1> HIDE DEF f3
<1> QED BY <1>2, <1>5, <1>6, <1>7, <1>8 DEF f, h, Entered

\* A stream of the heap.
LEMMA StreamObject ==
  ASSUME CryptoInv, RecordInv, StreamInv, NEW i \in DOMAIN heap, Streaming(heap[i])
  PROVE  /\ Shaped(heap[i]) /\ Told(hist[i]) /\ Tracks(heap[i], hist[i]) /\ Fixed(heap[i])
         /\ Stored(heap[i].buf) /\ i \in 1 .. MaxObj
<1>1. i \in 1 .. MaxObj /\ Shaped(heap[i])
  BY HeapShape, Listed
<1>2. Told(hist[i]) /\ Tracks(heap[i], hist[i]) /\ Fixed(heap[i])
  BY <1>1 DEF StreamInv
<1> QED BY <1>1, <1>2 DEF Tracks, Flows

\* Only the array of a stream is written.
LEMMA BufStream ==
  ASSUME NEW o, Shaped(o), NEW b
  PROVE  LET w == [o EXCEPT !.buf = b] IN
         /\ w.cls = o.cls /\ w.kind = o.kind /\ w.mode = o.mode /\ w.buf = b
         /\ w.mat = o.mat /\ w.pend = o.pend
BY DEF Shaped

\* A final operation: the array is cleared, what was covered is remembered.
LEMMA FinishStream ==
  ASSUME CryptoInv, RecordInv, StreamInv, UNCHANGED <<tx, flash>>,
         NEW i \in DOMAIN heap, Streaming(heap[i]), Put(i, [heap[i] EXCEPT !.buf = NoStream]),
         NEW w, NEW m, Finished(i, w, m), Covered(w, m)
  PROVE  StreamInv'
<1> DEFINE o == [heap[i] EXCEPT !.buf = NoStream]
           g == [Silent EXCEPT !.last = <<w, m>>]
<1>1. Shaped(heap[i]) /\ Fixed(heap[i])
  BY StreamObject
<1>2. /\ o.cls = heap[i].cls /\ o.kind = heap[i].kind /\ o.buf = NoStream
      /\ o.mat = heap[i].mat /\ o.pend = heap[i].pend
  BY <1>1, BufStream
<1>3. Put(i, o) /\ hist' = [hist EXCEPT ![i] = g]
  BY DEF Finished
<1> HIDE DEF o
<1>4. Told(g) /\ Tracks(o, g)
  BY <1>2, DoneTracks
<1> HIDE DEF g
<1>5. Fixed(o)
  BY <1>1, <1>2 DEF Fixed
<1> QED BY <1>2, <1>3, <1>4, <1>5, OneStream

\* An array is cleared and its history with it.
LEMMA ResetStream ==
  ASSUME CryptoInv, RecordInv, StreamInv, UNCHANGED <<tx, flash>>,
         NEW i \in DOMAIN heap, Streaming(heap[i]), NEW o, Put(i, o), Fixed(o),
         o.cls = heap[i].cls, o.kind = heap[i].kind,
         Stored(o.buf), o.buf.pend = <<>>, o.buf.blocks = 0, hist' = [hist EXCEPT ![i] = Silent]
  PROVE  StreamInv'
<1>1. Told(Silent) /\ Tracks(o, Silent)
  BY SilentTracks
<1> QED BY <1>1, OneStream

\* Initialisation, and operations that drop a stream.
LEMMA InitStream ==
  ASSUME CryptoInv, RecordInv, StreamInv, NEW i, NEW k, NEW mode, NEW iv,
         \/ SignInit(i, k, mode, iv) \/ CipherInit(i, k, mode, iv) \/ SignHash(i) \/ DigestReset(i, iv)
  PROVE  StreamInv'
<1>1. i \in DOMAIN heap /\ Streaming(heap[i]) /\ UNCHANGED <<tx, flash>>
  BY DEF SignInit, CipherInit, SignHash, DigestReset, Is, InCall, Streaming
<1>2. Shaped(heap[i]) /\ Fixed(heap[i])
  BY <1>1, StreamObject
<1>3. CASE SignInit(i, k, mode, iv) \/ CipherInit(i, k, mode, iv)
  <2>1. PICK b : /\ Started(i, k, mode, b) /\ Stored(b) /\ b.pend = <<>> /\ b.blocks = 0
                 /\ heap[i].cls \in {"sign", "cipher"}
    BY <1>3, NoStreamStored DEF SignInit, CipherInit, Is
  <2> DEFINE o == [heap[i] EXCEPT !.mat = k, !.mode = mode, !.ready = 1, !.pend = 1, !.buf = b]
  <2>2. Put(i, o) /\ hist' = [hist EXCEPT ![i] = Silent]
    BY <2>1 DEF Started
  <2>3. o.cls = heap[i].cls /\ o.kind = heap[i].kind /\ o.pend = 1 /\ o.buf = b
    BY <1>2, StartedWords
  <2> HIDE DEF o
  <2>4. Fixed(o)
    BY <2>1, <2>3 DEF Fixed
  <2> QED BY <1>1, <2>1, <2>2, <2>3, <2>4, ResetStream
<1>4. CASE SignHash(i)
  <2> DEFINE o == [heap[i] EXCEPT !.buf = NoStream]
  <2>1. Put(i, o) /\ hist' = [hist EXCEPT ![i] = Silent]
    BY <1>4 DEF SignHash
  <2>2. /\ o.cls = heap[i].cls /\ o.kind = heap[i].kind /\ o.buf = NoStream
        /\ o.mat = heap[i].mat /\ o.pend = heap[i].pend
    BY <1>2, BufStream
  <2> HIDE DEF o
  <2>3. Fixed(o)
    BY <1>2, <2>2 DEF Fixed
  <2> QED BY <1>1, <2>1, <2>2, <2>3, NoStreamStored, ResetStream
<1>5. CASE DigestReset(i, iv)
  <2> DEFINE b == [NoStream EXCEPT !.iv = iv]
             o == [heap[i] EXCEPT !.buf = b]
  <2>1. /\ Put(i, o) /\ hist' = [hist EXCEPT ![i] = Silent]
        /\ heap[i].cls \in {"digest", "sum"} /\ (iv # 0 => heap[i].cls = "sum")
    BY <1>5 DEF DigestReset, Is
  <2>2. Stored(b) /\ b.pend = <<>> /\ b.blocks = 0 /\ (iv = 0 => b = NoStream)
    <3>1. iv = 0 => b = NoStream
      BY DEF NoStream
    <3> QED BY <3>1, NoStreamStored
  <2> HIDE DEF b
  <2>3. /\ o.cls = heap[i].cls /\ o.kind = heap[i].kind /\ o.buf = b
        /\ o.mat = heap[i].mat /\ o.pend = heap[i].pend
    BY <1>2, BufStream
  <2> HIDE DEF o
  <2>4. Fixed(o)
    BY <1>2, <2>1, <2>2, <2>3 DEF Fixed
  <2> QED BY <1>1, <2>1, <2>2, <2>3, <2>4, ResetStream
<1> QED BY <1>3, <1>4, <1>5

\* getInstance.
LEMMA GetInstanceStream ==
  ASSUME CryptoInv, RecordInv, StreamInv, NEW cls, NEW k, GetInstance(cls, k)
  PROVE  StreamInv'
<1> DEFINE x == IF cls = "cipher" THEN 1 ELSE 0
           y == IF cls \in {"sum", "random"} THEN 1 ELSE 0
           w1 == Fresh(cls, k, 0)
           w2 == [w1 EXCEPT !.pend = x]
           o == [w2 EXCEPT !.mat = y]
           w4 == [o EXCEPT !.data = [seed |-> token + 1, n |-> 0]]
           chained == cls = "random" /\ k = 1
<1>1. /\ UNCHANGED <<tx, flash>> /\ Len(heap) + 1 <= MaxObj
      /\ hist' = [hist EXCEPT ![Len(heap) + 1] = Silent]
      /\ heap' = Append(heap, IF chained THEN w4 ELSE o)
  BY DEF GetInstance, InCall, Room
<1>2. Shaped(w1) /\ w1.cls = cls /\ w1.mat = 0 /\ (cls # "key" => w1.buf = NoStream)
  BY DEF Fresh, Shaped
<1>3. x \in {0, 1} /\ (cls = "cipher" => x = 1) /\ (cls = "sum" => y = 1)
  OBVIOUS
<1> HIDE DEF w1, x, y
<1>4. Shaped(w2) /\ w2.cls = cls /\ w2.pend = x /\ w2.buf = w1.buf
  BY <1>2 DEF Shaped
<1> HIDE DEF w2
<1>5. Shaped(o) /\ o.cls = cls /\ o.mat = y /\ o.pend = x /\ o.buf = w1.buf
  BY <1>4 DEF Shaped
<1> HIDE DEF o
<1>6. w4.cls = cls
  BY <1>5 DEF Shaped
<1> HIDE DEF w4
<1>7. CASE chained
  BY <1>1, <1>6, <1>7, AppendStream DEF Streaming
<1>8. CASE ~chained
  <2>1. Streaming(o) => Fixed(o) /\ o.buf = NoStream
    BY <1>2, <1>3, <1>5 DEF Streaming, Fixed
  <2> QED BY <1>1, <1>8, <2>1, AppendStream
<1> QED BY <1>7, <1>8

\* The bytes at hand in a call, and what they are if it is the last.
LEMMA AtHand ==
  ASSUME NEW b, NEW h, Flows(b, h), NEW n \in Nat
  PROVE  LET all == Fed(b.pend, h.fed, n) IN
         /\ Run(h.out, 0) /\ Run(all, Len(h.out)) /\ Len(all) \in Nat /\ Len(h.out) \in Nat
         /\ h.fed + n = Len(h.out) + Len(all)
<1> DEFINE out == h.out
           pend == b.pend
           fed == h.fed
<1>1. Run(out, 0) /\ Run(pend, Len(out)) /\ fed = Len(out) + Len(pend)
  BY DEF Flows
<1> HIDE DEF out, pend, fed
<1>2. Run(Fed(pend, fed, n), Len(out)) /\ Len(Fed(pend, fed, n)) = Len(pend) + n /\ Len(Fed(pend, fed, n)) \in Nat
  BY <1>1, RunFeed
<1>3. Len(out) \in Nat /\ Len(pend) \in Nat
  BY <1>1 DEF Run
<1>4. fed + n = Len(out) + Len(Fed(pend, fed, n))
  BY <1>1, <1>2, <1>3
<1> QED BY <1>1, <1>2, <1>3, <1>4 DEF out, pend, fed

\* A stream is fed.
LEMMA FeedStream ==
  ASSUME CryptoInv, RecordInv, StreamInv, UNCHANGED <<tx, flash>>,
         NEW i \in DOMAIN heap, Streaming(heap[i]), NEW n \in Nat,
         NEW all, all = Fed(heap[i].buf.pend, hist[i].fed, n),
         NEW d \in Nat, d <= Len(all), NEW w, Put(i, w),
         w.cls = heap[i].cls, w.kind = heap[i].kind, w.mode = heap[i].mode, Fixed(w), Stored(w.buf),
         w.buf.pend = Back(all, d), Releases(heap[i], w, d, all),
         hist' = Entered(i, After(hist[i], n, More(hist[i].out, all, d)))
  PROVE  StreamInv'
<1> DEFINE o == heap[i]
           h == hist[i]
           g == After(h, n, More(h.out, all, d))
<1>1. Told(h) /\ Tracks(o, h)
  BY StreamObject
<1>2. /\ all = Fed(o.buf.pend, h.fed, n) /\ w.cls = o.cls /\ w.kind = o.kind /\ w.mode = o.mode
      /\ Releases(o, w, d, all) /\ hist' = [hist EXCEPT ![i] = g]
  BY DEF Entered
<1> HIDE DEF o, h
<1>3. Told(g) /\ Tracks(w, g)
  BY <1>1, <1>2, FedTracks
<1> HIDE DEF g
<1> QED BY <1>2, <1>3, OneStream

\* What a MAC makes of its array.
LEMMA AbsorbedArray ==
  ASSUME NEW k, NEW b, Stored(b), NEW all, Len(all) \in Nat
  PROVE  LET d == Len(all) - Held(k, Len(all))
             c == Absorbed(k, b, all)
         IN /\ d \in Nat /\ d <= Len(all) /\ (d \div Block) * Block = d
            /\ k = 49 => d < Len(all) \/ Len(all) = 0
            /\ Stored(c) /\ c.pend = Back(all, d) /\ c.blocks = b.blocks + d \div Block
<1> DEFINE d == Len(all) - Held(k, Len(all))
           q == d \div Block
           x == b.blocks + q
           y == SubSeq(all, d + 1, Len(all))
           c1 == [b EXCEPT !.blocks = x]
           c == [c1 EXCEPT !.pend = y]
<1>1. /\ Held(k, Len(all)) \in Nat /\ d \in Nat /\ d <= Len(all) /\ q * Block = d
      /\ k = 49 /\ Len(all) > 0 => Held(k, Len(all)) > 0
  BY HeldBounds
<1>2. k = 49 => d < Len(all) \/ Len(all) = 0
  BY <1>1
<1>3. Absorbed(k, b, all) = c
  BY DEF Absorbed
<1> HIDE DEF d
<1>4. y = Back(all, d)
  BY DEF Back
<1>5. q \in Nat
  BY <1>1, DivMod, CryptoConstants
<1> HIDE DEF q
<1>6. x \in Nat
  BY <1>5 DEF Stored
<1> HIDE DEF x, y
<1>7. Stored(c1) /\ c1.blocks = x
  BY <1>6 DEF Stored
<1> HIDE DEF c1
<1>8. Stored(c) /\ c.blocks = x /\ c.pend = y
  BY <1>7 DEF Stored
<1> HIDE DEF c
<1> QED BY <1>1, <1>2, <1>3, <1>4, <1>8 DEF d, q, x

\* Signature.update.
LEMMA SignUpdateStream ==
  ASSUME CryptoInv, RecordInv, StreamInv, NEW i, NEW n \in Nat, SignUpdate(i, n)
  PROVE  StreamInv'
<1> DEFINE o == heap[i]
           h == hist[i]
           all == Fed(o.buf.pend, h.fed, n)
           d == Len(all) - Held(o.kind, Len(all))
           b == Absorbed(o.kind, o.buf, all)
           w == [o EXCEPT !.buf = b]
<1>1. i \in DOMAIN heap /\ o.cls = "sign" /\ Streaming(o) /\ UNCHANGED <<tx, flash>> /\ o.ready = 1
  BY DEF SignUpdate, Is, InCall, Streaming, Usable
<1>2. /\ Put(i, w)
      /\ hist' = [hist EXCEPT ![i].last = <<>>, ![i].fed = h.fed + n,
                    ![i].out = h.out \o SubSeq(all, 1, Len(all) - Len(b.pend))]
  BY DEF SignUpdate, Input, Fed
<1>3. Shaped(o) /\ Told(h) /\ Tracks(o, h) /\ Stored(o.buf) /\ i \in 1 .. MaxObj /\ Flows(o.buf, h)
  BY <1>1, StreamObject DEF Tracks
<1>4. o.pend = 1
  BY <1>1 DEF RecordInv, Loads, Good, ValidSignature
<1>5. Len(all) \in Nat /\ Run(h.out, 0) /\ Run(all, Len(h.out))
  BY <1>3, AtHand
<1> HIDE DEF all
<1>6. /\ d \in Nat /\ d <= Len(all) /\ (d \div Block) * Block = d
      /\ o.kind = 49 => d < Len(all) \/ Len(all) = 0
      /\ Stored(b) /\ b.pend = Back(all, d) /\ b.blocks = o.buf.blocks + d \div Block
  BY <1>3, <1>5, AbsorbedArray
<1> HIDE DEF d, b
<1>7. Len(b.pend) = Len(all) - d
  <2> DEFINE out == h.out
  <2>1. Run(out, 0) /\ Run(all, Len(out))
    BY <1>5
  <2> HIDE DEF out
  <2>2. Len(Back(all, d)) = Len(all) - d
    BY <1>6, <2>1, RunRelease
  <2> QED BY <1>6, <2>2
<1>8. h.out \o SubSeq(all, 1, Len(all) - Len(b.pend)) = More(h.out, all, d)
  <2>1. Len(all) - Len(b.pend) = d
    BY <1>5, <1>6, <1>7
  <2> QED BY <2>1 DEF More
<1>9. hist' = Entered(i, After(h, n, More(h.out, all, d)))
  <2>1. hist' = Edited(i, h.fed + n, More(h.out, all, d))
    BY <1>2, <1>8 DEF Edited
  <2> QED BY <1>3, <2>1, HistEdit
<1>10. /\ w.cls = o.cls /\ w.kind = o.kind /\ w.mode = o.mode /\ w.buf = b /\ w.pend = o.pend
  BY <1>3, BufStream
<1> HIDE DEF w
<1>11. Fixed(w)
  BY <1>1, <1>4, <1>10 DEF Fixed
<1>12. Releases(o, w, d, all)
  <2>1. ~Collects(o) /\ ~HoldsBack(o)
    BY <1>1 DEF Collects, HoldsBack
  <2> QED BY <1>6, <1>10, <2>1 DEF Releases
<1> QED BY <1>1, <1>2, <1>6, <1>9, <1>10, <1>11, <1>12, FeedStream DEF all

\* sign and verify.
LEMMA SignFinalStream ==
  ASSUME CryptoInv, RecordInv, StreamInv, NEW i, NEW n \in Nat, SignFinal(i, n)
  PROVE  StreamInv'
<1> DEFINE h == hist[i]
           all == Fed(heap[i].buf.pend, h.fed, n)
           w == h.out \o all
<1>1. i \in DOMAIN heap /\ Streaming(heap[i]) /\ UNCHANGED <<tx, flash>>
  BY DEF SignFinal, Is, InCall, Streaming
<1>2. Put(i, [heap[i] EXCEPT !.buf = NoStream]) /\ Finished(i, w, h.fed + n)
  BY DEF SignFinal, Input, Fed
<1>3. Flows(heap[i].buf, h)
  BY <1>1, StreamObject DEF Tracks
<1>4. /\ Run(h.out, 0) /\ Run(all, Len(h.out)) /\ Len(h.out) \in Nat /\ h.fed + n = Len(h.out) + Len(all)
  BY <1>3, AtHand
<1> HIDE DEF all
<1>5. Run(w, 0) /\ Len(w) = h.fed + n
  <2>1. 0 + Len(h.out) = Len(h.out)
    BY <1>4
  <2> QED BY <1>4, <2>1, RunJoin
<1> HIDE DEF w
<1>6. Covered(w, h.fed + n)
  BY <1>5, CoveredRun
<1> QED BY <1>1, <1>2, <1>6, FinishStream

\* What an update of a cipher makes of its array.
Refilled(o, x, y, z) == [o EXCEPT !.buf.blocks = x, !.buf.pend = y, !.buf.seen = z]
LEMMA UpdatedArray ==
  ASSUME NEW o, Shaped(o), Stored(o.buf), NEW x \in Nat, NEW y, NEW z
  PROVE  LET w == Refilled(o, x, y, z) IN
         /\ w.cls = o.cls /\ w.kind = o.kind /\ w.mode = o.mode /\ w.pend = o.pend
         /\ Stored(w.buf) /\ w.buf.blocks = x /\ w.buf.pend = y
<1> DEFINE b == o.buf
           b1 == [b EXCEPT !.blocks = x]
           b2 == [b1 EXCEPT !.pend = y]
           b3 == [b2 EXCEPT !.seen = z]
           w1 == [o EXCEPT !.buf.blocks = x]
           w2 == [w1 EXCEPT !.buf.pend = y]
           w3 == [w2 EXCEPT !.buf.seen = z]
<1>1. Refilled(o, x, y, z) = w3
  BY DEF Refilled
<1>2. w1 = [o EXCEPT !.buf = b1]
  BY DEF Shaped
<1>3. w2 = [o EXCEPT !.buf = b2]
  <2> HIDE DEF b1
  <2> QED BY <1>2 DEF Shaped
<1>4. w3 = [o EXCEPT !.buf = b3]
  <2> HIDE DEF b2
  <2> QED BY <1>3 DEF Shaped
<1>5. Stored(b)
  OBVIOUS
<1> HIDE DEF w1, w2, w3, b
<1>6. Stored(b1) /\ b1.blocks = x
  BY <1>5 DEF Stored
<1> HIDE DEF b1
<1>7. Stored(b2) /\ b2.blocks = x /\ b2.pend = y
  BY <1>6 DEF Stored
<1> HIDE DEF b2
<1>8. Stored(b3) /\ b3.blocks = x /\ b3.pend = y
  BY <1>7 DEF Stored
<1> HIDE DEF b3
<1>9. /\ w3.cls = o.cls /\ w3.kind = o.kind /\ w3.mode = o.mode /\ w3.buf = b3 /\ w3.pend = o.pend
  BY <1>4, BufStream
<1> QED BY <1>1, <1>8, <1>9

\* Cipher.update.
LEMMA CipherUpdateStream ==
  ASSUME CryptoInv, RecordInv, StreamInv, NEW i, NEW n \in Nat, CipherUpdate(i, n)
  PROVE  StreamInv'
<1> DEFINE o == heap[i]
           h == hist[i]
           all == Fed(o.buf.pend, h.fed, n)
           e == o.mode = 2
           d == UpdateLen(o.kind, e, Len(all))
           x == IF IsChained(o.kind) THEN o.buf.blocks + d \div Block ELSE o.buf.blocks
           y == SubSeq(all, d + 1, Len(all))
           z == o.buf.seen \/ all # <<>>
           w == Refilled(o, x, y, z)
<1>1. i \in DOMAIN heap /\ o.cls = "cipher" /\ Streaming(o) /\ UNCHANGED <<tx, flash>> /\ o.kind # 12
  BY DEF CipherUpdate, Is, InCall, Streaming
<1>2. Put(i, w) /\ hist' = Edited(i, h.fed + n, More(h.out, all, d))
  BY DEF CipherUpdate, Input, Fed, More, Edited, Refilled
<1>3. /\ Shaped(o) /\ Told(h) /\ Tracks(o, h) /\ Fixed(o) /\ Stored(o.buf) /\ i \in 1 .. MaxObj
      /\ Flows(o.buf, h)
  BY <1>1, StreamObject DEF Tracks
<1>4. Len(all) \in Nat
  BY <1>3, AtHand
<1>5. e \in BOOLEAN /\ (HoldsBack(o) => ~e /\ Padding(o.kind) >= 2)
  BY DEF HoldsBack
<1> HIDE DEF all, e
<1>6. /\ d \in Nat /\ d <= Len(all) /\ (d \div Block) * Block = d
      /\ ~e /\ Padding(o.kind) >= 2 /\ Len(all) > 0 => d < Len(all)
  BY <1>4, <1>5, UpdateBounds
<1> HIDE DEF d
<1>7. d \div Block \in Nat
  BY <1>6, DivMod, CryptoConstants
<1>8. x \in Nat /\ (IsChained(o.kind) => x = o.buf.blocks + d \div Block)
  <2> DEFINE q == d \div Block
  <2>1. q \in Nat /\ o.buf.blocks \in Nat
    BY <1>3, <1>7 DEF Stored
  <2> HIDE DEF q
  <2>2. o.buf.blocks + q \in Nat
    BY <2>1
  <2> QED BY <2>1, <2>2 DEF q
<1>9. y = Back(all, d)
  BY DEF Back
<1> HIDE DEF x, y, z, o
<1>10. /\ w.cls = o.cls /\ w.kind = o.kind /\ w.mode = o.mode /\ w.pend = o.pend
       /\ Stored(w.buf) /\ w.buf.blocks = x /\ w.buf.pend = y
  BY <1>3, <1>8, UpdatedArray
<1> HIDE DEF w
<1>11. Fixed(w)
  BY <1>1, <1>3, <1>10 DEF Fixed
<1>12. Releases(o, w, d, all)
  <2>1. ~Collects(o) /\ o.cls # "sign" /\ (Counts(o) => IsChained(o.kind))
    BY <1>1 DEF Collects, Counts
  <2>2. HoldsBack(o) => d < Len(all) \/ Len(all) = 0
    BY <1>4, <1>5, <1>6
  <2> QED BY <1>6, <1>8, <1>10, <2>1, <2>2 DEF Releases
<1>13. hist' = Entered(i, After(h, n, More(h.out, all, d)))
  BY <1>2, <1>3, HistEdit
<1> QED BY <1>1, <1>2, <1>6, <1>9, <1>10, <1>11, <1>12, <1>13, FeedStream DEF all, o

\* Cipher.doFinal.
LEMMA CipherFinalStream ==
  ASSUME CryptoInv, RecordInv, StreamInv, NEW i, NEW n \in Nat, NEW t \in 0 .. Block, CipherFinal(i, n, t)
  PROVE  StreamInv'
<1> DEFINE o == heap[i]
           h == hist[i]
           all == Fed(o.buf.pend, h.fed, n)
           e == o.mode = 2
           len == FinalLen(o.kind, e, Len(all))
           c == Len(all) - t
           w == More(h.out, all, c)
           p == len - Len(all)
<1>1. i \in DOMAIN heap /\ Streaming(o) /\ UNCHANGED <<tx, flash>>
  BY DEF CipherFinal, Is, InCall, Streaming
<1>2. /\ Put(i, [o EXCEPT !.buf = NoStream]) /\ Finished(i, w \o [j \in 1 .. p |-> 0], h.fed + n - t)
      /\ FinalAllowed(o.kind, e, Len(all), o.buf.seen) /\ (t # 0 => o.mode = 1 /\ Padding(o.kind) >= 2)
  BY DEF CipherFinal, Input, Fed, More
<1>3. Flows(o.buf, h)
  BY <1>1, StreamObject DEF Tracks
<1>4. /\ Run(h.out, 0) /\ Run(all, Len(h.out)) /\ Len(all) \in Nat /\ Len(h.out) \in Nat
      /\ h.fed + n = Len(h.out) + Len(all)
  BY <1>3, AtHand
<1>5. e \in BOOLEAN /\ (t # 0 => ~e /\ Padding(o.kind) >= 2)
  BY <1>2
<1> HIDE DEF all, e
<1>6. len \in Nat /\ Len(all) <= len /\ len - Len(all) <= Block /\ t <= Len(all)
  BY <1>2, <1>4, <1>5, FinalBounds
<1> HIDE DEF len
<1>7. c \in Nat /\ c <= Len(all) /\ p \in Nat /\ p <= Block /\ t \in Nat
  BY <1>4, <1>6, CryptoConstants
<1>8. h.fed + n - t = Len(h.out) + c
  <2> DEFINE f == h.fed
             l == Len(h.out)
             a == Len(all)
  <2>1. f \in Nat
    <3> DEFINE q == o.buf.pend
               r == Len(q)
    <3>1. q \in Seq(Nat)
      BY <1>3 DEF Flows, Run
    <3>2. f = l + r
      BY <1>3 DEF Flows
    <3> HIDE DEF q
    <3>3. r \in Nat /\ l \in Nat
      BY <1>4, <3>1
    <3> HIDE DEF r, l, f
    <3> QED BY <3>2, <3>3
  <2>2. f + n = l + a /\ l \in Nat /\ a \in Nat /\ c = a - t
    BY <1>4
  <2> HIDE DEF f, l, a, c
  <2>3. f + n - t = l + c
    BY <1>7, <2>1, <2>2
  <2> QED BY <2>3 DEF f, l
<1> HIDE DEF c, p
<1>9. Run(w, 0) /\ Len(w) = Len(h.out) + c
  <2> DEFINE out == h.out
             v == More(out, all, c)
  <2>1. Run(out, 0) /\ Run(all, Len(out)) /\ w = v /\ out = h.out
    BY <1>4
  <2> HIDE DEF out
  <2>2. Run(v, 0) /\ Len(v) = Len(out) + c
    BY <1>7, <2>1, RunRelease
  <2> HIDE DEF v, w
  <2> QED BY <2>1, <2>2
<1> HIDE DEF w
<1>10. Covered(w \o [j \in 1 .. p |-> 0], Len(w))
  BY <1>7, <1>9, CoveredPadded
<1> DEFINE u == w \o [j \in 1 .. p |-> 0]
           m == h.fed + n - t
<1>11. Covered(u, m) /\ Finished(i, u, m)
  BY <1>2, <1>8, <1>9, <1>10
<1> HIDE DEF u, m
<1> QED BY <1>1, <1>2, <1>11, FinishStream

\* Nothing released leaves the bytes at hand as they are.
LEMMA NothingReleased ==
  ASSUME NEW out, NEW all, Run(out, 0), Run(all, Len(out))
  PROVE  Back(all, 0) = all /\ More(out, all, 0) = out
<1>1. out \in Seq(Nat) /\ all \in Seq(Nat)
  BY DEF Run
<1>2. SubSeq(all, 1, 0) = <<>> /\ SubSeq(all, 1, Len(all)) = all
  BY <1>1
<1>3. out \o <<>> = out
  BY <1>1, NothingMore
<1>4. 0 + 1 = 1
  OBVIOUS
<1>5. Back(all, 0) = all
  BY <1>2, <1>4, Zenon DEF Back
<1>6. More(out, all, 0) = out
  BY <1>2, <1>3, Zenon DEF More
<1> QED BY <1>5, <1>6

\* Digests, checksums and raw RSA collect what they are fed.
LEMMA CollectStream ==
  ASSUME CryptoInv, RecordInv, StreamInv, NEW i, NEW n \in Nat, RsaUpdate(i, n) \/ DigestUpdate(i, n)
  PROVE  StreamInv'
<1> DEFINE o == heap[i]
           h == hist[i]
           all == Fed(o.buf.pend, h.fed, n)
           x == IF o.cls = "digest" THEN 1 ELSE o.pend
           b == [o.buf EXCEPT !.pend = all]
           w1 == [o EXCEPT !.pend = x]
           w == [w1 EXCEPT !.buf.pend = all]
<1>1. /\ i \in DOMAIN heap /\ Streaming(o) /\ UNCHANGED <<tx, flash>> /\ Collects(o)
      /\ o.cls \in {"digest", "sum"} \/ (o.cls = "cipher" /\ o.kind = 12)
  BY DEF RsaUpdate, DigestUpdate, Is, InCall, Streaming, Collects
<1>2. /\ Shaped(o) /\ Told(h) /\ Tracks(o, h) /\ Fixed(o) /\ Stored(o.buf) /\ i \in 1 .. MaxObj
      /\ Flows(o.buf, h)
  BY <1>1, StreamObject DEF Tracks
<1>3. Put(i, w) /\ hist' = Collected(i, h.fed + n)
  <2>1. CASE DigestUpdate(i, n)
    BY <2>1 DEF DigestUpdate, Input, Fed, Collected
  <2>2. CASE RsaUpdate(i, n)
    <3>1. Put(i, [o EXCEPT !.buf.pend = all]) /\ hist' = Collected(i, h.fed + n) /\ o.cls = "cipher"
      BY <2>2 DEF RsaUpdate, Is, Input, Fed, Collected
    <3>2. x = o.pend
      BY <3>1
    <3>3. w1 = o
      <4> HIDE DEF x, o
      <4> QED BY <1>2, <3>2 DEF Shaped
    <3> QED BY <3>1, <3>3
  <2> QED BY <2>1, <2>2
<1>4. Run(h.out, 0) /\ Run(all, Len(h.out)) /\ Len(all) \in Nat
  BY <1>2, AtHand
<1>5. Back(all, 0) = all /\ More(h.out, all, 0) = h.out
  <2> DEFINE out == h.out
  <2> HIDE DEF all, out
  <2>1. Run(out, 0) /\ Run(all, Len(out))
    BY <1>4 DEF out
  <2> QED BY <2>1, NothingReleased DEF out
<1>6. hist' = Entered(i, After(h, n, More(h.out, all, 0)))
  BY <1>2, <1>3, <1>5, HistEdit
<1>7. (o.cls = "digest" => x = 1) /\ (o.cls # "digest" => x = o.pend)
  OBVIOUS
<1> HIDE DEF all, o, x
<1>8. Shaped(w1) /\ w1.cls = o.cls /\ w1.kind = o.kind /\ w1.mode = o.mode /\ w1.mat = o.mat /\ w1.pend = x /\ w1.buf = o.buf
  BY <1>2 DEF Shaped
<1> HIDE DEF w1
<1>9. Stored(b) /\ b.pend = all
  BY <1>2 DEF Stored
<1>10. w = [w1 EXCEPT !.buf = b]
  BY <1>8 DEF Shaped
<1> HIDE DEF w, b
<1>11. /\ w.cls = o.cls /\ w.kind = o.kind /\ w.mode = o.mode /\ w.buf = b /\ w.pend = x /\ w.mat = o.mat
  BY <1>8, <1>10, BufStream
<1>12. Fixed(w)
  BY <1>1, <1>2, <1>7, <1>11 DEF Fixed
<1>13. Releases(o, w, 0, all)
  <2>1. ~Counts(o) /\ o.cls # "sign" /\ ~HoldsBack(o)
    BY <1>1 DEF Counts, HoldsBack, IsChained
  <2> QED BY <2>1 DEF Releases
<1> QED BY <1>1, <1>3, <1>4, <1>5, <1>6, <1>9, <1>11, <1>12, <1>13, FeedStream DEF all, o

\* They end with all of it.
LEMMA CollectedStream ==
  ASSUME CryptoInv, RecordInv, StreamInv, NEW i, NEW n \in Nat, RsaFinal(i, n) \/ DigestFinal(i, n)
  PROVE  StreamInv'
<1> DEFINE h == hist[i]
           all == Fed(heap[i].buf.pend, h.fed, n)
<1>1. i \in DOMAIN heap /\ Streaming(heap[i]) /\ UNCHANGED <<tx, flash>> /\ Collects(heap[i])
  BY DEF RsaFinal, DigestFinal, Is, InCall, Streaming, Collects
<1>2. Put(i, [heap[i] EXCEPT !.buf = NoStream]) /\ Finished(i, all, h.fed + n)
  BY DEF RsaFinal, DigestFinal, Input, Fed
<1>3. Flows(heap[i].buf, h) /\ h.out = <<>>
  BY <1>1, StreamObject DEF Tracks
<1>4. Run(all, Len(h.out)) /\ h.fed + n = Len(h.out) + Len(all) /\ Len(all) \in Nat
  BY <1>3, AtHand
<1> HIDE DEF all
<1>5. Run(all, 0) /\ h.fed + n = Len(all)
  <2>1. Len(h.out) = 0
    BY <1>3
  <2> QED BY <1>4, <2>1
<1>6. Covered(all, h.fed + n)
  BY <1>5, CoveredRun
<1> QED BY <1>1, <1>2, <1>6, FinishStream

-----------------------------------------------------------------------------
(* Saving, rolling back and restarting streams *)

Streams(h, f) == \A i \in DOMAIN h : Streaming(h[i]) => Tracks(h[i], f[i]) /\ Fixed(h[i])
Blank(h) == \A i \in DOMAIN h : Streaming(h[i]) => Fixed(h[i]) /\ h[i].buf = NoStream
Histories(f) == f = [i \in 1 .. MaxObj |-> f[i]] /\ \A i \in 1 .. MaxObj : Told(f[i])

\* A stream an abort may leave: the words of the snapshot's object o, and the
\* array of the heap's object n or, if o had none, no array.
Restored(n, o, w) ==
  /\ w.cls = o.cls /\ w.kind = o.kind /\ w.mat = o.mat /\ w.mode = o.mode /\ w.pend = o.pend
  /\ o.cls # "key" /\ HasStream(o) => w.buf = n.buf
  /\ o.cls # "key" /\ ~HasStream(o) => w.buf = o.buf

LEMMA RolledBackRestores ==
  ASSUME NEW now, NEW then, WellFormed(then), NEW i \in DOMAIN then
  PROVE  Restored(now[i], then[i], RolledBack(now, then)[i])
<1> DEFINE o == then[i]
           x == IF (o.cls = "key" /\ o.mat = 1) \/ HasStream(o) THEN now[i].buf ELSE o.buf
           y == IF Pseudo(o) THEN now[i].data ELSE o.data
           z == IF o.cls = "oneshot" /\ now[i].ready = 0 THEN 0 ELSE o.ready
           w1 == [o EXCEPT !.buf = x]
           w2 == [w1 EXCEPT !.data = y]
           w3 == [w2 EXCEPT !.ready = z]
<1>1. RolledBack(now, then)[i] = w3
  BY DEF RolledBack
<1>2. /\ Shaped(o) /\ (o.cls # "key" /\ HasStream(o) => x = now[i].buf)
      /\ (o.cls # "key" /\ ~HasStream(o) => x = o.buf)
  BY DEF WellFormed
<1> HIDE DEF o, x, y, z
<1>3. /\ Shaped(w1) /\ w1.cls = o.cls /\ w1.kind = o.kind
      /\ w1.mat = o.mat /\ w1.pend = o.pend /\ w1.mode = o.mode /\ w1.buf = x
  BY <1>2 DEF Shaped
<1> HIDE DEF w1
<1>4. /\ Shaped(w2) /\ w2.cls = o.cls /\ w2.kind = o.kind
      /\ w2.mat = o.mat /\ w2.pend = o.pend /\ w2.mode = o.mode /\ w2.buf = x
  BY <1>3 DEF Shaped
<1> HIDE DEF w2
<1>5. /\ w3.cls = o.cls /\ w3.kind = o.kind
      /\ w3.mat = o.mat /\ w3.pend = o.pend /\ w3.mode = o.mode /\ w3.buf = x
  BY <1>4 DEF Shaped
<1> HIDE DEF w3
<1>6. Restored(now[i], o, w3)
  BY <1>2, <1>5 DEF Restored
<1> QED BY <1>1, <1>6 DEF o

\* What Forget does to the history of a stream that keeps its array.
Aged(h, s) == [h EXCEPT !.stale = s, !.last = <<>>]
Undone(h, o, n) == h.stale \/ o.mat # n.mat \/ o.mode # n.mode

LEMMA AgedTold ==
  ASSUME NEW h, Told(h), NEW s \in BOOLEAN
  PROVE  LET g == Aged(h, s) IN
         Told(g) /\ g.fed = h.fed /\ g.out = h.out /\ g.stale = s /\ g.last = <<>>
<1> DEFINE g1 == [h EXCEPT !.stale = s]
           g2 == [g1 EXCEPT !.last = <<>>]
<1>1. Aged(h, s) = g2
  BY DEF Aged
<1>2. Told(g1) /\ g1.fed = h.fed /\ g1.out = h.out /\ g1.stale = s
  BY DEF Told
<1> HIDE DEF g1
<1>3. Told(g2) /\ g2.fed = h.fed /\ g2.out = h.out /\ g2.stale = s /\ g2.last = <<>>
  BY <1>2 DEF Told
<1> HIDE DEF g2
<1> QED BY <1>1, <1>3

\* The restored stream has that history, or none if an array was taken away.
LEMMA RestoredTracks ==
  ASSUME NEW n, NEW o, NEW w, NEW h, Streaming(n), Told(h), Tracks(n, h), Fixed(n), Fixed(o),
         o.cls = n.cls, o.kind = n.kind, Restored(n, o, w)
  PROVE  /\ Fixed(w) /\ Told(Aged(h, Undone(h, o, n)))
         /\ OwnArrays(o) = OwnArrays(n) => Tracks(w, Aged(h, Undone(h, o, n)))
         /\ OwnArrays(o) # OwnArrays(n) => Tracks(w, Silent)
<1> DEFINE s == Undone(h, o, n)
           g == Aged(h, s)
<1>1. s \in BOOLEAN /\ (~s => ~h.stale /\ o.mode = n.mode)
  BY DEF Undone, Told
<1> HIDE DEF s
<1>2. Told(g) /\ g.fed = h.fed /\ g.out = h.out /\ g.stale = s /\ g.last = <<>>
  BY <1>1, AgedTold
<1> HIDE DEF g
<1>3. Fixed(w)
  BY DEF Restored, Fixed, HasStream
<1>4. ASSUME OwnArrays(o) = OwnArrays(n)
      PROVE  Tracks(w, g)
  <2>1. w.buf = n.buf
    <3>1. CASE n.cls \in {"sign", "digest"}
      <4>1. o.pend = n.pend
        BY <1>4, <3>1 DEF OwnArrays
      <4> QED BY <3>1, <4>1 DEF Fixed, Restored, HasStream
    <3>2. CASE n.cls \in {"cipher", "sum"}
      BY <3>2 DEF Fixed, Restored, HasStream
    <3> QED BY <3>1, <3>2 DEF Streaming
  <2>2. w.cls = n.cls /\ w.kind = n.kind /\ w.mode = o.mode
    BY DEF Restored
  <2>3. Flows(w.buf, g)
    BY <1>2, <2>1 DEF Tracks, Flows
  <2>4. HoldsBack(w) /\ ~g.stale => HoldsBack(n) /\ ~h.stale
    BY <1>1, <1>2, <2>2 DEF HoldsBack
  <2>5. (Counts(w) => Counts(n)) /\ (Collects(w) => Collects(n))
    BY <2>2 DEF Counts, Collects
  <2> QED BY <1>2, <2>1, <2>2, <2>3, <2>4, <2>5 DEF Tracks
<1>5. ASSUME OwnArrays(o) # OwnArrays(n)
      PROVE  Tracks(w, Silent)
  <2>1. n.cls \in {"sign", "digest"} /\ o.pend # n.pend
    BY <1>5 DEF OwnArrays, Streaming
  <2>2. w.buf = NoStream
    BY <2>1 DEF Fixed, Restored, HasStream
  <2> QED BY <2>2, SilentTracks, NoStreamStored
<1> QED BY <1>2, <1>3, <1>4, <1>5 DEF g, s

\* An abort leaves streams with their histories.
LEMMA AbortedStreams ==
  ASSUME CryptoInv, RecordInv, StreamInv, tx # NoTx
  PROVE  Streams(RolledBack(heap, tx[1]), Forget(tx[1])) /\ Histories(Forget(tx[1]))
<1> DEFINE t == tx[1]
           g == RolledBack(heap, t)
           f == Forget(t)
           kept(i) == i \in DOMAIN t /\ OwnArrays(t[i]) = OwnArrays(heap[i])
<1>1. WellFormed(t) /\ DOMAIN g = DOMAIN t
  BY DEF CryptoInv, Covers, RolledBack
<1>2. /\ f = [i \in 1 .. MaxObj |-> f[i]]
      /\ \A i \in 1 .. MaxObj : (kept(i) => f[i] = Aged(hist[i], Undone(hist[i], t[i], heap[i])))
                                /\ (~kept(i) => f[i] = Silent)
  BY DEF Forget, Aged, Undone
<1>3. \A i \in 1 .. MaxObj : Told(hist[i])
  BY DEF StreamInv
<1>4. Told(Silent)
  BY DEF Told, Silent
<1>5. ASSUME NEW i \in 1 .. MaxObj
      PROVE  Told(f[i])
  <2> DEFINE s == Undone(hist[i], t[i], heap[i])
  <2>1. s \in BOOLEAN
    BY <1>3 DEF Undone, Told
  <2> HIDE DEF s
  <2>2. Told(Aged(hist[i], s))
    BY <1>3, <2>1, AgedTold
  <2> HIDE DEF f, kept
  <2> QED BY <1>2, <1>4, <2>2 DEF s
<1>6. ASSUME NEW i \in DOMAIN g, Streaming(g[i])
      PROVE  Tracks(g[i], f[i]) /\ Fixed(g[i])
  <2> DEFINE n == heap[i]
             o == t[i]
             h == hist[i]
             w == g[i]
  <2>1. i \in DOMAIN t /\ i \in DOMAIN heap /\ i \in 1 .. MaxObj
    BY <1>1, SnapshotListed, Listed
  <2>2. o.cls = n.cls /\ (Streaming(n) => o.kind = n.kind /\ Fixed(o))
    BY <2>1 DEF StreamInv
  <2>4. Restored(n, o, w)
    BY <1>1, <2>1, RolledBackRestores
  <2>5. Streaming(n)
    BY <1>6, <2>2, <2>4 DEF Restored, Streaming
  <2>6. Told(h) /\ Tracks(n, h) /\ Fixed(n)
    BY <2>1, <2>5, StreamObject
  <2>7. (kept(i) => f[i] = Aged(h, Undone(h, o, n))) /\ (~kept(i) => f[i] = Silent)
    BY <1>2, <2>1
  <2>8. kept(i) <=> OwnArrays(o) = OwnArrays(n)
    BY <2>1
  <2> HIDE DEF n, o, h, w, f, kept
  <2>9. /\ Fixed(w) /\ (OwnArrays(o) = OwnArrays(n) => Tracks(w, Aged(h, Undone(h, o, n))))
        /\ (OwnArrays(o) # OwnArrays(n) => Tracks(w, Silent))
    BY <2>2, <2>4, <2>5, <2>6, RestoredTracks
  <2>10. Tracks(w, f[i])
    <3>1. CASE kept(i)
      BY <2>7, <2>8, <2>9, <3>1
    <3>2. CASE ~kept(i)
      BY <2>7, <2>8, <2>9, <3>2
    <3> QED BY <3>1, <3>2
  <2> QED BY <2>9, <2>10 DEF w
<1> HIDE DEF g, f
<1>7. Streams(g, f) /\ Histories(f)
  BY <1>2, <1>5, <1>6 DEF Streams, Histories
<1> QED BY <1>7 DEF g, f

\* The record of a heap holds no stream.
LEMMA ProjectedBlank ==
  ASSUME NEW h, WellFormed(h), NEW f, Streams(h, f)
  PROVE  Blank(Projected(h))
<1> DEFINE g == Projected(h)
<1>1. DOMAIN g = DOMAIN h /\ \A i \in DOMAIN h : g[i] = Cleared(h[i])
  BY DEF Projected
<1> HIDE DEF g
<1>2. ASSUME NEW o, Shaped(o)
      PROVE  LET w == Cleared(o) IN
             /\ w.cls = o.cls /\ w.mat = o.mat /\ w.pend = o.pend
             /\ o.cls # "key" => w.buf = NoStream
  <2> DEFINE b == IF o.cls = "key" THEN NoValue ELSE NoStream
  <2>1. Cleared(o) = [o EXCEPT !.buf = b] /\ (o.cls # "key" => b = NoStream)
    BY DEF Cleared
  <2> HIDE DEF b
  <2> QED BY <1>2, <2>1, BufStream
<1>3. ASSUME NEW i \in DOMAIN g, Streaming(g[i])
      PROVE  Fixed(g[i]) /\ g[i].buf = NoStream
  <2>1. Shaped(h[i]) /\ g[i] = Cleared(h[i])
    BY <1>1 DEF WellFormed
  <2>2. /\ g[i].cls = h[i].cls /\ g[i].mat = h[i].mat /\ g[i].pend = h[i].pend
        /\ h[i].cls # "key" => g[i].buf = NoStream
    BY <1>2, <2>1
  <2>3. Streaming(h[i]) /\ h[i].cls # "key"
    BY <1>3, <2>2 DEF Streaming
  <2>4. Fixed(h[i])
    BY <1>1, <2>3 DEF Streams
  <2> QED BY <2>2, <2>3, <2>4 DEF Fixed
<1> QED BY <1>3 DEF Blank, g

\* Closing the temporary digests leaves streams alone.
LEMMA ReleasedStreams ==
  ASSUME NEW h, WellFormed(h)
  PROVE  LET g == Released(h) IN
         DOMAIN g = DOMAIN h /\ \A i \in DOMAIN h : Streaming(g[i]) => g[i] = h[i]
<1> DEFINE g == Released(h)
           new(o) == [o EXCEPT !.ready = 0, !.size = 1]
<1>1. /\ DOMAIN g = DOMAIN h
      /\ \A i \in DOMAIN h : g[i] = h[i] \/ (h[i].cls = "oneshot" /\ g[i] = new(h[i]))
  BY DEF Released
<1>2. ASSUME NEW o, Shaped(o)
      PROVE  new(o).cls = o.cls
  <2> DEFINE w == [o EXCEPT !.ready = 0]
             z == [w EXCEPT !.size = 1]
  <2>1. new(o) = z
    OBVIOUS
  <2>2. Shaped(w) /\ w.cls = o.cls
    BY <1>2, EditReady
  <2> HIDE DEF w, new
  <2>3. z.cls = o.cls
    BY <2>2 DEF Shaped
  <2> QED BY <2>1, <2>3
<1> HIDE DEF g, new
<1>3. \A i \in DOMAIN h : h[i].cls = "oneshot" /\ g[i] = new(h[i]) => ~Streaming(g[i])
  BY <1>2 DEF WellFormed, Streaming
<1> QED BY <1>1, <1>3 DEF g

\* What the invariant asks of the heap, the histories and the record.
LEMMA StreamParts ==
  StreamInv <=> /\ Histories(hist) /\ Streams(heap, hist) /\ Blank(flash)
                /\ tx # NoTx => \A i \in DOMAIN tx[1] :
                     /\ tx[1][i].cls = heap[i].cls
                     /\ Streaming(heap[i]) => tx[1][i].kind = heap[i].kind /\ Fixed(tx[1][i])
BY DEF StreamInv, Histories, Streams, Blank

\* What finished is forgotten.
LEMMA HeardStreams ==
  ASSUME CryptoInv, RecordInv, StreamInv, Heard
  PROVE  Histories(hist') /\ Streams(heap, hist')
<1>1. /\ hist' = [i \in 1 .. MaxObj |-> hist'[i]]
      /\ \A i \in 1 .. MaxObj : hist'[i] = [hist[i] EXCEPT !.last = <<>>]
  BY DEF Heard
<1>2. Histories(hist') /\ \A i \in 1 .. MaxObj : \A o : Tracks(o, hist[i]) => Tracks(o, hist'[i])
  BY <1>1, HeardTracks DEF StreamInv, Histories
<1> QED BY <1>2, Listed DEF StreamInv, Streams

\* What a rollback would leave.
LEMMA CommittedStreams ==
  ASSUME CryptoInv, RecordInv, StreamInv
  PROVE  \E f : Streams(Committed, f)
<1>1. CASE tx = NoTx
  BY <1>1, StreamParts DEF Committed
<1>2. CASE tx # NoTx
  BY <1>2, AbortedStreams DEF Committed
<1> QED BY <1>1, <1>2

\* Steps around a transaction and between two commands.
LEMMA TransactionStream ==
  ASSUME CryptoInv, RecordInv, StreamInv, Enter \/ Begin \/ Commit \/ Abort \/ CheckpointPin
  PROVE  StreamInv'
<1>1. /\ Histories(hist) /\ Streams(heap, hist) /\ Blank(flash) /\ WellFormed(heap)
  BY StreamParts, HeapShape
<1>2. ASSUME Histories(hist'), Streams(heap', hist'), Blank(flash'),
             tx' # NoTx => \A i \in DOMAIN tx'[1] :
               /\ tx'[1][i].cls = heap'[i].cls
               /\ Streaming(heap'[i]) => tx'[1][i].kind = heap'[i].kind /\ Fixed(tx'[1][i])
      PROVE  StreamInv'
  BY <1>2 DEF StreamInv, Histories, Streams, Blank
<1>3. CASE Enter
  <2>1. Heard /\ UNCHANGED <<heap, tx, flash>>
    BY <1>3 DEF Enter
  <2> QED BY <1>1, <1>2, <2>1, HeardStreams DEF StreamInv
<1>4. CASE Begin
  <2>1. Heard /\ UNCHANGED <<heap, flash>> /\ tx'[1] = heap
    BY <1>4 DEF Begin
  <2> QED BY <1>1, <1>2, <2>1, HeardStreams DEF Streams
<1>5. CASE Commit
  <2>1. Heard /\ heap' = heap /\ tx' = NoTx /\ flash' = Projected(heap)
    BY <1>5 DEF Commit
  <2> QED BY <1>1, <1>2, <2>1, HeardStreams, ProjectedBlank
<1>6. CASE Abort
  <2>1. tx # NoTx /\ tx' = NoTx /\ heap' = RolledBack(heap, tx[1]) /\ hist' = Forget(tx[1]) /\ flash' = flash
    BY <1>6 DEF Abort
  <2> QED BY <1>1, <1>2, <2>1, AbortedStreams
<1>7. CASE CheckpointPin
  <2>1. Heard /\ UNCHANGED <<heap, tx>> /\ flash' = Projected(Committed)
    BY <1>7 DEF CheckpointPin
  <2>2. Blank(flash')
    BY <2>1, CommittedStreams, CommittedLoads, ProjectedBlank
  <2> QED BY <1>1, <1>2, <2>1, <2>2, HeardStreams DEF StreamInv
<1> QED BY <1>3, <1>4, <1>5, <1>6, <1>7

\* The end of a command and a restart.
LEMMA RestartStream ==
  ASSUME CryptoInv, RecordInv, StreamInv, Return \/ Recover
  PROVE  StreamInv'
<1>1. ASSUME Histories(hist'), Streams(heap', hist'), Blank(flash'), tx' = NoTx
      PROVE  StreamInv'
  BY <1>1 DEF StreamInv, Histories, Streams, Blank
<1>2. ASSUME NEW h, WellFormed(h), NEW f, Streams(h, f)
      PROVE  Streams(Released(h), f)
  <2> DEFINE g == Released(h)
  <2>1. DOMAIN g = DOMAIN h /\ \A i \in DOMAIN h : Streaming(g[i]) => g[i] = h[i]
    BY <1>2, ReleasedStreams
  <2> HIDE DEF g
  <2>2. Streams(g, f)
    BY <1>2, <2>1 DEF Streams
  <2> QED BY <2>2 DEF g
<1>3. CASE Return
  <2> DEFINE h == Committed
             g == Released(h)
  <2>1. heap' = g /\ flash' = Projected(g) /\ tx' = NoTx /\ IF tx = NoTx THEN Heard ELSE hist' = Forget(tx[1])
    BY <1>3 DEF Return
  <2>2. WellFormed(h)
    BY CommittedLoads
  <2>3. Histories(hist') /\ Streams(h, hist')
    <3>1. CASE tx = NoTx
      BY <2>1, <3>1, HeardStreams DEF Committed
    <3>2. CASE tx # NoTx
      BY <2>1, <3>2, AbortedStreams DEF Committed
    <3> QED BY <3>1, <3>2
  <2> HIDE DEF h
  <2>4. Streams(g, hist')
    BY <1>2, <2>2, <2>3
  <2>5. WellFormed(g)
    BY <2>2, ReleasedKept DEF Kept
  <2> HIDE DEF g
  <2>6. Blank(flash')
    BY <2>1, <2>4, <2>5, ProjectedBlank
  <2> QED BY <1>1, <2>1, <2>3, <2>4, <2>6
<1>4. CASE Recover
  <2> DEFINE f == [i \in 1 .. MaxObj |-> Silent]
  <2>1. heap' = Released(flash) /\ flash' = flash /\ tx' = NoTx /\ hist' = f
    BY <1>4 DEF Recover
  <2>2. WellFormed(flash) /\ Blank(flash) /\ Len(flash) <= MaxObj
    BY StreamParts DEF CryptoInv, Sound, RecordInv
  <2>3. Histories(f)
    <3>1. Told(Silent)
      BY DEF Told, Silent
    <3> QED BY <3>1 DEF Histories
  <2>4. \A i \in DOMAIN flash : i \in 1 .. MaxObj
    <3>1. DOMAIN flash = 1 .. Len(flash) /\ Len(flash) \in Nat
      BY <2>2, SeqDomain DEF WellFormed
    <3> QED BY <2>2, <3>1, CryptoConstants
  <2>5. Streams(flash, f)
    <3>1. \A i \in DOMAIN flash : Streaming(flash[i]) => Tracks(flash[i], Silent) /\ Fixed(flash[i])
      BY <2>2, SilentTracks, NoStreamStored DEF Blank
    <3> QED BY <2>4, <3>1 DEF Streams
  <2> HIDE DEF f
  <2>6. Streams(heap', hist')
    BY <1>2, <2>1, <2>2, <2>5
  <2> QED BY <1>1, <2>1, <2>2, <2>3, <2>6
<1> QED BY <1>3, <1>4

-----------------------------------------------------------------------------
(* The theorem on streams *)

\* An applet begins with no object and silent histories.
LEMMA StreamInit == Init => StreamInv
<1> SUFFICES ASSUME Init PROVE StreamInv
  OBVIOUS
<1>1. heap = <<>> /\ flash = <<>> /\ tx = NoTx /\ hist = [i \in 1 .. MaxObj |-> Silent]
  BY DEF Init
<1>2. DOMAIN <<>> = {}
  OBVIOUS
<1>3. Told(Silent)
  BY DEF Told, Silent
<1>4. Streams(<<>>, hist) /\ Blank(<<>>)
  BY <1>2 DEF Streams, Blank
<1>5. Histories(hist)
  BY <1>1, <1>3 DEF Histories
<1> QED BY <1>1, <1>4, <1>5, StreamParts

\* Every step keeps the histories of the streams.
LEMMA StreamNext == CryptoInv /\ RecordInv /\ StreamInv /\ [Next]_vars => StreamInv'
<1> SUFFICES ASSUME CryptoInv, RecordInv, StreamInv, [Next]_vars PROVE StreamInv'
  OBVIOUS
<1>0. \A n \in Chunks : n \in Nat
  BY CryptoConstants DEF Chunks
<1>1. CASE Enter \/ Begin \/ Commit \/ Abort \/ CheckpointPin
  BY <1>1, TransactionStream
<1>2. CASE Return \/ Recover
  BY <1>2, RestartStream
<1>3. CASE Deselect
  BY <1>3, RewriteStream
<1>4. CASE KeyOps
  <2>1. CASE \E c \in Constructed : BuildKey(c[2], c[3])
    BY <2>1, ConstructStream
  <2>2. CASE ~ \E c \in Constructed : BuildKey(c[2], c[3])
    BY <1>4, <2>2, OtherStream DEF KeyOps
  <2> QED BY <2>1, <2>2
<1>5. CASE NewPair
  BY <1>5, ConstructStream
<1>6. CASE \E p \in DOMAIN heap : \E c \in Constructed : PairNew(p, c[2], c[3])
  BY <1>6, PairNewStream
<1>7. CASE \E p, i, j \in DOMAIN heap : PairOf(p, i, j)
  BY <1>7, OtherStream
<1>8. CASE \E p \in DOMAIN heap : GenKeyPair(p)
  BY <1>8, RewriteStream
<1>9. CASE \E c \in Constructed : GetInstance(c[1], c[2])
  BY <1>9, GetInstanceStream
<1>10. CASE \/ \E i, k \in DOMAIN heap : \E mode \in {1, 2}, iv \in {0, 1} : SignInit(i, k, mode, iv)
            \/ \E i, k \in DOMAIN heap : \E mode \in {1, 2}, iv \in {0, 1} : CipherInit(i, k, mode, iv)
            \/ \E i \in DOMAIN heap : SignHash(i)
            \/ \E i \in DOMAIN heap : \E iv \in {0, 1} : DigestReset(i, iv)
  BY <1>10, InitStream
<1>11. CASE \E i, k \in DOMAIN heap : AgreeInit(i, k)
  BY <1>11, OtherStream
<1>12. CASE \/ \E i \in DOMAIN heap : \E n \in Chunks : SignUpdate(i, n)
            \/ \E i \in DOMAIN heap : \E n \in Chunks : SignFinal(i, n)
  BY <1>0, <1>12, SignUpdateStream, SignFinalStream
<1>13. CASE \/ \E i \in DOMAIN heap : \E n \in Chunks : CipherUpdate(i, n)
            \/ \E i \in DOMAIN heap : \E n \in Chunks, t \in 0 .. Block : CipherFinal(i, n, t)
  BY <1>0, <1>13, CipherUpdateStream, CipherFinalStream
<1>14. CASE \/ \E i \in DOMAIN heap : \E n \in Chunks : RsaUpdate(i, n)
            \/ \E i \in DOMAIN heap : \E n \in Chunks : DigestUpdate(i, n)
  BY <1>0, <1>14, CollectStream
<1>15. CASE \/ \E i \in DOMAIN heap : \E n \in Chunks : RsaFinal(i, n)
            \/ \E i \in DOMAIN heap : \E n \in Chunks : DigestFinal(i, n)
  BY <1>0, <1>15, CollectedStream
<1>16. CASE (\E c \in Constructed : OpenOneShot(c[2])) \/ (\E i \in DOMAIN heap : CloseOneShot(i))
  BY <1>16, OneShotStream
<1>17. CASE \/ \E i \in DOMAIN heap : PseudoGenerate(i)
            \/ \E i \in DOMAIN heap : SetSeed(i)
            \/ \E i \in DOMAIN heap : SecureGenerate(i)
  BY <1>17, OtherStream
<1>18. CASE UNCHANGED vars
  <2>1. UNCHANGED <<heap, tx, flash, hist>>
    BY <1>18 DEF vars
  <2> QED BY <2>1 DEF StreamInv
<1> QED BY <1>1, <1>2, <1>3, <1>4, <1>5, <1>6, <1>7, <1>8, <1>9, <1>10, <1>11, <1>12, <1>13, <1>14,
           <1>15, <1>16, <1>17, <1>18 DEF Next

\* Streaming keeps the message (cipher.rs, signature.rs, digest.rs): for any
\* block size, chunking, algorithm and number of objects, the bytes a cipher or
\* MAC has processed and those it holds back are the bytes it was given, once
\* each and in order; the chaining value has advanced by the blocks processed;
\* a padded decryption and a CMAC have kept their last block; and a finished
\* operation covered its message and at most one block of padding, whatever
\* transactions were aborted under it and whenever power was cut.
THEOREM CryptoStreamKeepsBytes == Spec => []StreamKeepsBytes
<1>1. Init => RecordInv /\ StreamInv
  BY RecordInit, StreamInit
<1>2. CryptoInv /\ RecordInv /\ StreamInv /\ [Next]_vars => RecordInv' /\ StreamInv'
  BY RecordNext, StreamNext
<1>3. StreamInv => StreamKeepsBytes
  BY StreamInvKeeps
<1> QED BY <1>1, <1>2, <1>3, CryptoInvariantHolds, PTL DEF Spec

=============================================================================
