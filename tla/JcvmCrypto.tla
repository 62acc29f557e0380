----------------------------- MODULE JcvmCrypto -----------------------------
(***************************************************************************)
(* The native security objects of one JCVM applet: keys, key pairs, MACs,  *)
(* signatures, ciphers, digests, checksums, random sources and the one-    *)
(* shot digest.  Their words live on the applet's heap and follow its      *)
(* transactions; the streaming state lives in reset-scoped arrays, which   *)
(* an abort leaves alone and a restart clears; the pseudo-random chain is  *)
(* persistent but outside rollback.  The model asks what those three       *)
(* lifetimes do to one object, and whether the streaming arithmetic of the *)
(* ciphers and MACs keeps every byte of the message exactly once.          *)
(*                                                                         *)
(* A message byte is its position in the message; a block has Block bytes. *)
(* Key values and pseudo-random chains are tokens.  One object is a record *)
(* of its native words (cls .. pend) and of what its arrays hold: data,    *)
(* the persistent one, and buf, the reset- or deselect-scoped one.         *)
(***************************************************************************)
EXTENDS Integers, Sequences, SequencesExt, FiniteSets

CONSTANTS
  Block,     \* bytes of a cipher block, 16 or 8 in the code
  MaxMsg,    \* longest message between two resets of a stream
  MaxObj,    \* native objects the heap has room for
  Copies,    \* objects of one kind the applet keeps
  MaxToken,  \* key pairs generated, and entropy drawn, at most this often
  MaxCtr,    \* last value of the CTR block counter, 2^128 - 1 in the code
  RsaRaw,    \* supports_cipher(12): the build has raw RSA
  Des,       \* feature des-legacy
  Programs   \* the applets: sets of the calls they make, see Uses

ASSUME CryptoConstants ==
  /\ Block \in Nat \ {0} /\ MaxMsg \in Nat /\ MaxObj \in Nat /\ Copies \in Nat
  /\ MaxToken \in Nat \ {0} /\ MaxCtr \in Nat /\ RsaRaw \in BOOLEAN /\ Des \in BOOLEAN

VARIABLES
  heap,     \* sequence of native objects; a handle is an index, 0 is null
  tx,       \* NoTx, or <<the heap when the transaction began>>
  flash,    \* heap of the newest authenticated record
  running,  \* an applet entry point runs
  locked,   \* aborted_allocations: no allocation until the session recovers
  token,    \* tokens drawn from the entropy source so far
  hist,     \* history, per handle: bytes accepted and released since the stream
            \* began, and what the operation that just finished covered
  prng,     \* history: pseudo-random values drawn and not yet sent, and sent
  code      \* what the applet constructs

vars == <<heap, tx, flash, running, locked, token, hist, prng, code>>

NoTx == <<>>
Chunks == 0 .. Block + 1
Positions(a, b) == [i \in 1 .. b - a |-> a + i]

\* Key contents: parameter flags (0 and 1 stand for the five curve constants,
\* 5 for the cofactor, 6 for the value) and the value, 0 when cleared.
NoValue == [flags |-> {}, val |-> 0]
\* A cleared stream array.  sched is the key schedule inside a DES context.
NoStream == [seen |-> FALSE, iv |-> 0, blocks |-> 0, pend |-> <<>>, sched |-> 0]
Silent == [fed |-> 0, out |-> <<>>, stale |-> FALSE, last |-> <<>>]

-----------------------------------------------------------------------------
\* Kinds.
AesKinds == {13, 14, 15}
DesKinds == {1, 2, 3}
EcKinds == {11, 12, 30, 31}
RsaKinds == {4, 6}
EcPrivate == {12, 30, 31}

ClearEvent(k) ==
  CASE k \in {1, 13, 30} -> "reset" [] k \in {2, 14, 31} -> "deselect" [] OTHER -> "none"

\* KeyBuilder.buildKey admits these types and lengths.
Buildable(k, bits) ==
  \/ k \in DesKinds /\ Des /\ bits \in {64, 128, 192}
  \/ k \in AesKinds /\ bits = 128
  \/ k = 4 /\ bits \in {1024, 2048}
  \/ k \in EcKinds /\ bits \in {256, 384}

\* Signature algorithms: ISO 9797 DES MACs, by chaining and padding.
RetailMac == {19, 20, 47, 48}
DesMac == {2, 3, 4, 5, 6, 7, 8} \cup RetailMac
MacPads(k) == k # 2    \* any padding: the message may end inside a block
AesMac == {18, 49}
HashSign == {33, 34, 40}

IsDesCipher(k) == k \in 1 .. 8
IsChained(k) == k \in 1 .. 4 \cup {13, 22, 23, 24, 240}
Padding(k) ==
  CASE k \in {2, 6, 22, 25} -> 1 [] k \in {3, 7, 23, 26} -> 2
    [] k \in {4, 8, 24, 27} -> 3 [] OTHER -> 0
AesCipher == {13, 14, 240} \cup 22 .. 27
\* Bytes of the pending area: a held-back block needs one more.
HeadBytes(k) == IF Padding(k) = 0 THEN Block ELSE Block + 1

\* factory::get_instance, and the combined factory of Signature.
Available(cls, k) ==
  CASE cls = "cipher" -> (k = 12 /\ RsaRaw) \/ k \in AesCipher \/ (Des /\ IsDesCipher(k))
    [] cls = "sign" -> k \in AesMac \cup HashSign \/ (Des /\ k \in DesMac)
    [] cls = "agree" -> k = 3
    [] cls \in {"digest", "oneshot"} -> k \in {1, 4, 5, 6, 7}
    [] cls \in {"random", "sum"} -> k \in {1, 2}
    [] OTHER -> FALSE

-----------------------------------------------------------------------------
\* Objects.
Fresh(cls, k, bits) ==
  [cls |-> cls, kind |-> k, size |-> bits, mat |-> 0, ready |-> 0, mode |-> 0, pend |-> 0,
   data |-> NoValue, buf |-> IF cls = "key" THEN NoValue ELSE NoStream]

Keys(h) == {i \in DOMAIN h : h[i].cls = "key"}

\* Where the bytes of a key live, and replacing them.
Contents(o) == IF ClearEvent(o.kind) = "none" THEN o.data ELSE o.buf
WithContents(o, c) ==
  IF ClearEvent(o.kind) = "none" THEN [o EXCEPT !.mat = 1, !.data = c]
  ELSE [o EXCEPT !.mat = 1, !.buf = c]

\* key_initialized.
Initialized(o) ==
  CASE o.kind = 4 /\ o.size \in {1024, 2048} -> o.ready = 3
    [] o.kind = 6 -> o.ready = 1
    [] o.kind \in EcKinds -> {0, 1, 6} \subseteq Contents(o).flags
    [] ClearEvent(o.kind) = "none" -> o.ready # 0
    [] OTHER -> o.mat = 1 /\ 6 \in Contents(o).flags

\* What a stream array of a restored object holds, and what an abort keeps:
\* the words of the snapshot, the arrays outside rollback as they are now.
HasStream(o) == o.pend = 1 \/ (o.cls \in {"sum", "random"} /\ o.mat = 1)
Pseudo(o) == o.cls = "random" /\ o.kind = 1
\* Mutant: the pseudo-random chain is undone with the rest.
RolledBack_Chain(now, then) ==
  [i \in DOMAIN then |->
     [then[i] EXCEPT !.buf = IF (then[i].cls = "key" /\ then[i].mat = 1) \/ HasStream(then[i])
                             THEN now[i].buf ELSE @]]

RolledBack(now, then) ==
  [i \in DOMAIN then |->
     LET o == then[i] IN
     [o EXCEPT !.buf = IF (o.cls = "key" /\ o.mat = 1) \/ HasStream(o) THEN now[i].buf ELSE @,
               !.data = IF Pseudo(o) THEN now[i].data ELSE @,
               \* close() writes READY unconditionally
               !.ready = IF o.cls = "oneshot" /\ now[i].ready = 0 THEN 0 ELSE @]]

Committed == IF tx = NoTx THEN heap ELSE RolledBack(heap, tx[1])

\* The persistence projection omits transient contents.
Cleared(o) == [o EXCEPT !.buf = IF o.cls = "key" THEN NoValue ELSE NoStream]
Projected(h) == [i \in DOMAIN h |-> Cleared(h[i])]

\* release_one_shot_digests: closed, and reusable from the next entry on.
Released(h) ==
  [i \in DOMAIN h |-> IF h[i].cls = "oneshot" THEN [h[i] EXCEPT !.ready = 0, !.size = 1] ELSE h[i]]

-----------------------------------------------------------------------------
\* saved_state: the checks a restored record must pass.
ValidKey(o) ==
  /\ o.kind \in EcKinds => o.size \in {256, 384} /\ o.ready = 0
  /\ o.kind \in RsaKinds /\ o.size \in {1024, 2048} =>
       IF o.kind = 4
       THEN /\ o.ready \in 0 .. 3
            /\ o.ready \in {1, 3} => o.mat = 1 /\ o.data.val # 0
            /\ o.ready \in {2, 3} => o.pend = 1
       ELSE o.ready \in 0 .. 1 /\ (o.ready = 1 => o.mat = 1 /\ o.data.val # 0)
  /\ ClearEvent(o.kind) # "none" /\ o.mat = 1 => o.ready = 0

\* Which key an algorithm object may name.
KeyFits(o, k) ==
  CASE o.cls = "sign" /\ o.kind \in AesMac -> k.kind \in AesKinds /\ k.size = 128
    [] o.cls = "sign" /\ o.kind = 40 ->
         k.kind = (IF o.mode = 1 THEN 6 ELSE 4) /\ k.size \in {1024, 2048}
    [] o.cls = "sign" /\ o.kind \in {33, 34} ->
         /\ k.kind \in (IF o.mode = 1 THEN EcPrivate ELSE {11})
         /\ k.size = (IF o.kind = 34 THEN 384 ELSE 256)
    [] o.cls = "sign" ->
         k.kind \in DesKinds /\ k.size \in {64, 128, 192} /\ ~(o.kind \in RetailMac /\ k.size = 64)
    [] o.cls = "cipher" /\ IsDesCipher(o.kind) -> k.kind \in DesKinds /\ k.size \in {64, 128, 192}
    [] o.cls = "cipher" -> k.kind \in AesKinds /\ k.size = 128
    [] OTHER -> k.kind \in EcPrivate /\ k.size \in {256, 384}

ValidSignature(h, o) ==
  /\ Available("sign", o.kind)
  /\ o.ready = 1 => o.mat # 0 /\ o.pend = 1 /\ o.mode \in {1, 2}
  /\ o.mat # 0 => o.mat \in Keys(h) /\ KeyFits(o, h[o.mat])

ValidCipher(h, o) ==
  /\ o.kind \in AesCipher \/ (Des /\ IsDesCipher(o.kind))
  /\ o.pend = 1
  /\ o.ready = 1 => o.mat # 0 /\ o.mode \in {1, 2}
  /\ o.mat # 0 => o.mat \in Keys(h) /\ KeyFits(o, h[o.mat])

ValidAgreement(h, o) ==
  /\ o.kind = 3 /\ (o.ready = 1 => o.mat # 0)
  /\ o.mat # 0 => o.mat \in Keys(h) /\ KeyFits(o, h[o.mat])

\* An all-zero pair is one whose constructor has not run.
ValidPair(h, o) ==
  \/ o.kind = 0 /\ o.size = 0 /\ o.mat = 0 /\ o.pend = 0
  \/ /\ (o.kind = 2 /\ o.size \in {1024, 2048}) \/ (o.kind = 5 /\ o.size \in {256, 384})
     /\ {o.mat, o.pend} \subseteq Keys(h)
     /\ h[o.mat].kind = (IF o.kind = 2 THEN 4 ELSE 11)
     /\ h[o.pend].kind \in (IF o.kind = 2 THEN {6} ELSE EcPrivate)
     /\ h[o.mat].size = o.size /\ h[o.pend].size = o.size

\* validate_saved_security.
ValidSaved(h, o) ==
  CASE o.cls = "key" -> ValidKey(o)
    [] o.cls = "sign" -> ValidSignature(h, o)
    [] o.cls = "cipher" -> ValidCipher(h, o)
    [] o.cls = "agree" -> ValidAgreement(h, o)
    [] o.cls = "pair" -> ValidPair(h, o)
    [] OTHER -> TRUE

-----------------------------------------------------------------------------
Init ==
  /\ code \in Programs
  /\ heap = <<>> /\ flash = <<>> /\ tx = NoTx
  /\ running = FALSE /\ locked = FALSE /\ token = 1
  /\ hist = [i \in 1 .. MaxObj |-> Silent]
  /\ prng = [drawn |-> <<>>, sent |-> <<>>]

\* What finished is kept for one step.
Heard == hist' = [i \in 1 .. MaxObj |-> [hist[i] EXCEPT !.last = <<>>]]
\* Does the applet's code hold this call: a construction <<class, kind, bits>>,
\* or <<"tx">>, <<"pin">>, <<"clear">>, <<"ec">>.
Uses(c) == c \in code
Constructed == {c \in code : Len(c) = 3}
Room(n) == ~locked /\ Len(heap) + n <= MaxObj
\* An applet keeps at most Copies objects of one kind.
Wanted(cls, k) == Cardinality({i \in DOMAIN heap : heap[i].cls = cls /\ heap[i].kind = k}) < Copies
Put(i, o) == heap' = [heap EXCEPT ![i] = o]
\* Nothing but the heap, the stream history and the tokens changes in a call.
InCall == running /\ UNCHANGED <<tx, flash, running, locked, code>>
OnlyHeap == InCall /\ Heard /\ UNCHANGED <<token, prng>>

-----------------------------------------------------------------------------
\* Entry points, transactions and durability.
Enter ==
  /\ ~running /\ running' = TRUE
  /\ Heard /\ UNCHANGED <<heap, tx, flash, locked, token, prng, code>>

Begin ==
  /\ running /\ Uses(<<"tx">>) /\ tx = NoTx /\ tx' = <<heap>>
  /\ Heard /\ UNCHANGED <<heap, flash, running, locked, token, prng, code>>

\* commitTransaction checkpoints before it returns.
Commit ==
  /\ running /\ tx # NoTx /\ tx' = NoTx /\ flash' = Projected(heap)
  /\ Heard /\ UNCHANGED <<heap, running, locked, token, prng, code>>

\* Arrays an object allocated after its constructor.
OwnArrays(o) ==
  CASE o.cls = "key" -> o.mat + o.pend [] o.cls \in {"sign", "digest"} -> o.pend [] OTHER -> 0

\* Everything allocated above the mark is wiped, and nothing is allocated in
\* its place before the session recovers.
Grown(now, then) ==
  Len(now) # Len(then) \/ \E i \in DOMAIN then : OwnArrays(now[i]) # OwnArrays(then[i])
\* A stream whose init was undone outlives it: stale marks that in the history.
Forget(h) ==
  [i \in 1 .. MaxObj |->
     IF i \in DOMAIN h /\ OwnArrays(h[i]) = OwnArrays(heap[i])
     THEN [hist[i] EXCEPT !.stale = @ \/ h[i].mat # heap[i].mat \/ h[i].mode # heap[i].mode,
                          !.last = <<>>]
     ELSE Silent]
Abort ==
  /\ running /\ tx # NoTx /\ tx' = NoTx
  /\ heap' = RolledBack(heap, tx[1])
  /\ locked' = (locked \/ Grown(heap, tx[1]))
  /\ hist' = Forget(tx[1])
  /\ UNCHANGED <<flash, running, token, prng, code>>

\* checkpoint_committed for a PIN: committed state only, in mid-transaction.
CheckpointPin ==
  /\ running /\ Uses(<<"pin">>) /\ flash' = Projected(Committed)
  /\ Heard /\ UNCHANGED <<heap, tx, running, locked, token, prng, code>>

\* The callback returns: an open transaction is aborted, temporary digests are
\* closed, the record is saved and then the response leaves the card.
Return ==
  /\ running /\ ~locked /\ (tx # NoTx => ~Grown(heap, tx[1]))
  /\ LET h == Released(Committed) IN heap' = h /\ flash' = Projected(h)
  /\ tx' = NoTx /\ running' = FALSE
  /\ prng' = [drawn |-> <<>>, sent |-> prng.sent \o prng.drawn]
  /\ IF tx = NoTx THEN Heard ELSE hist' = Forget(tx[1])
  /\ UNCHANGED <<locked, token, code>>

Deselect ==
  /\ ~running
  /\ heap' = [i \in DOMAIN heap |->
                IF heap[i].cls = "key" /\ ClearEvent(heap[i].kind) = "deselect"
                THEN [heap[i] EXCEPT !.buf = NoValue] ELSE heap[i]]
  /\ Heard /\ UNCHANGED <<tx, flash, running, locked, token, prng, code>>

\* A cut, or any error of the session: the applet is rebuilt from its record,
\* reset_native_volatile included.
Recover ==
  /\ heap' = Released(flash) /\ tx' = NoTx
  /\ running' = FALSE /\ locked' = FALSE
  /\ hist' = [i \in 1 .. MaxObj |-> Silent]
  /\ prng' = [prng EXCEPT !.drawn = <<>>]
  /\ UNCHANGED <<flash, token, code>>

-----------------------------------------------------------------------------
\* Keys.
BuildKey(k, bits) ==
  /\ InCall /\ Uses(<<"key", k, bits>>) /\ Buildable(k, bits) /\ Room(1) /\ Wanted("key", k)
  /\ heap' = Append(heap, Fresh("key", k, bits))
  /\ Heard /\ UNCHANGED <<token, prng>>

\* AESKey.setKey, DESKey.setKey: bytes and readiness together.
SetKey(i) ==
  /\ OnlyHeap /\ i \in Keys(heap) /\ heap[i].kind \in AesKinds \cup DesKinds
  /\ heap[i].mat = 0 => ~locked
  /\ LET o == heap[i]
         t == ClearEvent(o.kind) # "none"
     IN Put(i, [WithContents(o, [flags |-> IF t THEN {6} ELSE {}, val |-> 1])
                  EXCEPT !.ready = IF t THEN @ ELSE 1])

IsEc(i) == i \in Keys(heap) /\ heap[i].kind \in EcKinds
SetFlags(i, f) == Put(i, WithContents(heap[i], [Contents(heap[i]) EXCEPT !.flags = f]))

\* setFieldFP .. setR, setK with the constants of the fixed curve.
SetParameter(i, p) ==
  /\ OnlyHeap /\ Uses(<<"ec">>) /\ IsEc(i) /\ (heap[i].mat = 0 => ~locked)
  /\ SetFlags(i, Contents(heap[i]).flags \cup {p})

CopyDomainParameters(i, from) ==
  /\ OnlyHeap /\ Uses(<<"ec">>) /\ IsEc(i) /\ IsEc(from) /\ heap[i].size = heap[from].size
  /\ heap[i].mat = 0 => ~locked
  /\ {0, 1} \subseteq Contents(heap[from]).flags
  /\ SetFlags(i, (Contents(heap[i]).flags \cap {6}) \cup (Contents(heap[from]).flags \ {6}))

\* setS and setW.
SetEcValue(i) ==
  /\ OnlyHeap /\ Uses(<<"ec">>) /\ IsEc(i) /\ (heap[i].mat = 0 => ~locked)
  /\ Put(i, WithContents(heap[i], [flags |-> Contents(heap[i]).flags \cup {6}, val |-> 1]))

Or(ready, bit) == IF (ready \div bit) % 2 = 1 THEN ready ELSE ready + bit
SetRsaPart(i, modulus) ==
  /\ OnlyHeap /\ i \in Keys(heap) /\ heap[i].kind = 4
  /\ (IF modulus THEN heap[i].mat ELSE heap[i].pend) = 0 => ~locked
  /\ Put(i, IF modulus
            THEN [WithContents(heap[i], [flags |-> {}, val |-> 1]) EXCEPT !.ready = Or(@, 1)]
            ELSE [heap[i] EXCEPT !.pend = 1, !.ready = Or(@, 2)])

\* Mutant: the material is wiped and the flag word forgotten.
ClearKey_KeepsReady(i) ==
  /\ OnlyHeap /\ Uses(<<"clear">>) /\ i \in Keys(heap)
  /\ Put(i, IF heap[i].mat = 0 THEN heap[i] ELSE WithContents(heap[i], NoValue))

ClearKey(i) ==
  /\ OnlyHeap /\ Uses(<<"clear">>) /\ i \in Keys(heap)
  /\ Put(i, [IF heap[i].mat = 0 THEN heap[i] ELSE WithContents(heap[i], NoValue)
               EXCEPT !.ready = 0])

-----------------------------------------------------------------------------
\* Key pairs.  NEW makes a zero object, a constructor fills it, once.
NewPair ==
  /\ InCall /\ (\E c \in Constructed : c[1] = "pair") /\ Room(1)
  /\ Cardinality({i \in DOMAIN heap : heap[i].cls = "pair"}) < Copies
  /\ heap' = Append(heap, Fresh("pair", 0, 0))
  /\ Heard /\ UNCHANGED <<token, prng>>

Joined(p, k, bits, pub, priv) ==
  [p EXCEPT !.kind = k, !.size = bits, !.mat = pub, !.pend = priv]

\* KeyPair(algorithm, bits) allocates both keys, of a size the algorithm has.
PairNew(p, k, bits) ==
  /\ (k = 2 /\ bits \in {1024, 2048}) \/ (k = 5 /\ bits \in {256, 384})
  /\ InCall /\ p \in DOMAIN heap /\ heap[p].cls = "pair" /\ heap[p].kind = 0
  /\ Uses(<<"pair", k, bits>>) /\ Room(2)
  /\ heap' = [heap EXCEPT ![p] = Joined(heap[p], k, bits, Len(heap) + 1, Len(heap) + 2)]
               \o <<Fresh("key", IF k = 2 THEN 4 ELSE 11, bits),
                    Fresh("key", IF k = 2 THEN 6 ELSE 12, bits)>>
  /\ Heard /\ UNCHANGED <<token, prng>>

\* KeyPair(public, private) around existing keys.
PairOf(p, pub, priv) ==
  /\ OnlyHeap /\ p \in DOMAIN heap /\ heap[p].cls = "pair" /\ heap[p].kind = 0
  /\ {pub, priv} \subseteq Keys(heap) /\ heap[pub].size = heap[priv].size
  /\ \/ /\ heap[pub].kind = 11 /\ heap[priv].kind \in EcPrivate
        /\ Put(p, Joined(heap[p], 5, heap[pub].size, pub, priv))
     \/ /\ heap[pub].kind = 4 /\ heap[priv].kind = 6 /\ heap[pub].size \in {1024, 2048}
        /\ Put(p, Joined(heap[p], 2, heap[pub].size, pub, priv))

Filled(o, val) ==
  [WithContents(o, [flags |-> IF o.kind \in EcKinds THEN {0, 1, 5, 6} ELSE {}, val |-> val])
     EXCEPT !.ready = CASE o.kind = 4 -> 3 [] o.kind = 6 -> 1 [] OTHER -> @,
            !.pend = IF o.kind = 4 THEN 1 ELSE @]

\* genKeyPair stages both values: a provider failure changes nothing.
GenKeyPair(p) ==
  /\ InCall /\ p \in DOMAIN heap /\ heap[p].cls = "pair" /\ heap[p].kind # 0 /\ token < MaxToken
  /\ (\E i \in {heap[p].mat, heap[p].pend} : heap[i].mat = 0) => ~locked
  /\ token' = token + 1
  /\ heap' = [i \in DOMAIN heap |->
                IF i \in {heap[p].mat, heap[p].pend} THEN Filled(heap[i], token + 1)
                ELSE heap[i]]
  /\ Heard /\ UNCHANGED prng

-----------------------------------------------------------------------------
\* Algorithm objects.
GetInstance(cls, k) ==
  /\ InCall /\ Uses(<<cls, k, 0>>) /\ cls # "oneshot" /\ Available(cls, k) /\ Room(1)
  /\ Wanted(cls, k)
  /\ LET o == [Fresh(cls, k, 0) EXCEPT
                 !.pend = IF cls = "cipher" THEN 1 ELSE 0,
                 !.mat = IF cls \in {"sum", "random"} THEN 1 ELSE 0]
         chained == cls = "random" /\ k = 1
     IN /\ chained => token < MaxToken
        /\ token' = IF chained THEN token + 1 ELSE token
        /\ heap' = Append(heap, IF chained THEN [o EXCEPT !.data = [seed |-> token + 1, n |-> 0]]
                                ELSE o)
  /\ hist' = [hist EXCEPT ![Len(heap) + 1] = Silent]
  /\ UNCHANGED prng

Is(i, cls) == i \in DOMAIN heap /\ heap[i].cls = cls
Usable(i) == heap[i].ready = 1 /\ Initialized(heap[heap[i].mat])

\* The words and the cleared stream array an init leaves.
Started(i, k, mode, buf) ==
  /\ Put(i, [heap[i] EXCEPT !.mat = k, !.mode = mode, !.ready = 1, !.pend = 1, !.buf = buf])
  /\ hist' = [hist EXCEPT ![i] = Silent]

\* An active ISO 9797 context names the key schedule it was made from.
DesContext(k, iv) == [NoStream EXCEPT !.iv = iv, !.seen = TRUE, !.sched = Contents(heap[k]).val]

\* Signature.init: mode 1 signs, mode 2 verifies; iv 0 is no vector.
SignInit(i, k, mode, iv) ==
  /\ InCall /\ Is(i, "sign") /\ k \in Keys(heap)
  /\ KeyFits([heap[i] EXCEPT !.mode = mode], heap[k]) /\ Initialized(heap[k])
  /\ iv # 0 => heap[i].kind \in {18} \cup DesMac
  /\ heap[i].pend = 0 => ~locked
  /\ Started(i, k, mode, IF heap[i].kind \in DesMac THEN DesContext(k, iv)
                         ELSE [NoStream EXCEPT !.iv = iv])
  /\ UNCHANGED <<token, prng>>

\* How many bytes a MAC or hash keeps unprocessed: CMAC keeps the last block
\* whole, a hash context is the provider's.
Held(k, total) ==
  CASE k = 49 -> IF total = 0 THEN 0 ELSE ((total - 1) % Block) + 1
    [] k \in {18} \cup DesMac -> total % Block
    [] OTHER -> total

Absorbed(k, b, all) ==
  LET done == Len(all) - Held(k, Len(all)) IN
  [b EXCEPT !.blocks = @ + done \div Block, !.pend = SubSeq(all, done + 1, Len(all))]

\* A DES context resumes only if it is active and its schedule is the key's.
Resumes(i) ==
  heap[i].kind \in DesMac =>
    heap[i].buf.seen /\ heap[i].buf.sched = Contents(heap[heap[i].mat]).val

Input(i, n) == Positions(hist[i].fed, hist[i].fed + n)
Feed(i, n) == hist[i].fed + n <= MaxMsg
\* A final operation: the bytes it covered, and the bytes accepted for it.
Finished(i, covers, fed) == hist' = [hist EXCEPT ![i] = [Silent EXCEPT !.last = <<covers, fed>>]]

SignUpdate(i, n) ==
  /\ InCall /\ Is(i, "sign") /\ Usable(i) /\ Resumes(i) /\ Feed(i, n)
  /\ LET all == heap[i].buf.pend \o Input(i, n)
         b == Absorbed(heap[i].kind, heap[i].buf, all)
     IN /\ Put(i, [heap[i] EXCEPT !.buf = b])
        /\ hist' = [hist EXCEPT ![i].last = <<>>, ![i].fed = @ + n,
                      ![i].out = @ \o SubSeq(all, 1, Len(all) - Len(b.pend))]
  /\ UNCHANGED <<token, prng>>

\* sign and verify: NOPAD needs whole blocks, at least one for AES.
SignFinal(i, n) ==
  /\ InCall /\ Is(i, "sign") /\ Usable(i) /\ Resumes(i) /\ Feed(i, n)
  /\ LET all == heap[i].buf.pend \o Input(i, n)
         b == Absorbed(heap[i].kind, heap[i].buf, all)
     IN /\ heap[i].kind = 18 => b.pend = <<>> /\ b.blocks > 0
        /\ heap[i].kind \in DesMac /\ ~MacPads(heap[i].kind) => b.pend = <<>>
        /\ Put(i, [heap[i] EXCEPT !.buf = NoStream])
        /\ Finished(i, hist[i].out \o all, hist[i].fed + n)
  /\ UNCHANGED <<token, prng>>

\* signPreComputedHash and verifyPreComputedHash drop the stream.
SignHash(i) ==
  /\ InCall /\ Is(i, "sign") /\ heap[i].kind \in HashSign /\ Usable(i)
  /\ Put(i, [heap[i] EXCEPT !.buf = NoStream])
  /\ hist' = [hist EXCEPT ![i] = Silent]
  /\ UNCHANGED <<token, prng>>

AgreeInit(i, k) ==
  /\ OnlyHeap /\ Is(i, "agree") /\ k \in Keys(heap)
  /\ KeyFits(heap[i], heap[k]) /\ Initialized(heap[k])
  /\ Put(i, [heap[i] EXCEPT !.mat = k, !.ready = 1])

-----------------------------------------------------------------------------
\* Ciphers: mode 1 decrypts, mode 2 encrypts; iv 0 is no vector.
CipherInit(i, k, mode, iv) ==
  /\ InCall /\ Is(i, "cipher") /\ k \in Keys(heap) /\ Initialized(heap[k])
  /\ IF heap[i].kind = 12 THEN heap[k].kind \in RsaKinds ELSE KeyFits(heap[i], heap[k])
  /\ iv # 0 => heap[i].kind # 12 /\ IsChained(heap[i].kind)
  /\ Started(i, k, mode, [NoStream EXCEPT !.iv = iv])
  /\ UNCHANGED <<token, prng>>

Whole(total) == total - (total % Block)

\* Mutant: an update releases every whole block, the last one included.
UpdateLen_Greedy(k, encrypt, total) == Whole(total)

\* Bytes an update releases: unpadding needs the last block at doFinal.
UpdateLen(k, encrypt, total) ==
  IF ~encrypt /\ Padding(k) >= 2 /\ total > 0 /\ Whole(total) = total
  THEN total - Block ELSE Whole(total)

\* Bytes doFinal runs through the cipher, padding included.
FinalLen(k, encrypt, total) ==
  IF k = 240 THEN total
  ELSE IF encrypt /\ Padding(k) # 0 /\ (Padding(k) # 1 \/ total % Block # 0)
  THEN total + Block - (total % Block)
  ELSE Whole(total)

\* doFinal refuses a partial block it may not pad, and no data at all.
FinalAllowed(k, encrypt, total, seen) ==
  \/ k = 240
  \/ Padding(k) # 0 /\ encrypt
  \/ Padding(k) # 0 /\ total % Block = 0 /\ total # 0
  \/ Padding(k) = 0 /\ total % Block = 0 /\ (total # 0 \/ seen)

\* checked_add of the CTR block counter.
CounterFits(k, b, len) == k = 240 => b.blocks + (len + Block - 1) \div Block <= MaxCtr

CipherUpdate(i, n) ==
  /\ InCall /\ Is(i, "cipher") /\ heap[i].kind # 12 /\ Usable(i) /\ Feed(i, n)
  /\ LET o == heap[i]
         all == o.buf.pend \o Input(i, n)
         len == UpdateLen(o.kind, o.mode = 2, Len(all))
     IN /\ Len(o.buf.pend) < HeadBytes(o.kind) /\ CounterFits(o.kind, o.buf, len)
        /\ Put(i, [o EXCEPT !.buf.blocks = IF IsChained(o.kind) THEN @ + len \div Block ELSE @,
                            !.buf.pend = SubSeq(all, len + 1, Len(all)),
                            !.buf.seen = @ \/ all # <<>>])
        /\ hist' = [hist EXCEPT ![i].last = <<>>, ![i].fed = @ + n, ![i].out = @ \o SubSeq(all, 1, len)]
  /\ UNCHANGED <<token, prng>>

\* Decryption with padding 2 or 3 finds trim bytes of padding, or refuses.
CipherFinal(i, n, trim) ==
  /\ InCall /\ Is(i, "cipher") /\ heap[i].kind # 12 /\ Usable(i) /\ Feed(i, n)
  /\ LET o == heap[i]
         all == o.buf.pend \o Input(i, n)
         len == FinalLen(o.kind, o.mode = 2, Len(all))
         unpad == o.mode = 1 /\ Padding(o.kind) >= 2
     IN /\ Len(o.buf.pend) < HeadBytes(o.kind)
        /\ FinalAllowed(o.kind, o.mode = 2, Len(all), o.buf.seen)
        /\ CounterFits(o.kind, o.buf, len)
        /\ unpad \/ trim = 0
        /\ unpad => trim \in 1 .. Block
        /\ Put(i, [o EXCEPT !.buf = NoStream])
        /\ Finished(i, hist[i].out \o SubSeq(all, 1, Len(all) - trim)
                         \o [j \in 1 .. len - Len(all) |-> 0],
                    hist[i].fed + n - trim)
  /\ UNCHANGED <<token, prng>>

\* Raw RSA collects exactly one modulus width, two blocks here.
Width == 2 * Block
RsaUpdate(i, n) ==
  /\ InCall /\ Is(i, "cipher") /\ heap[i].kind = 12 /\ Usable(i) /\ Feed(i, n)
  /\ Len(heap[i].buf.pend) + n <= Width
  /\ Put(i, [heap[i] EXCEPT !.buf.pend = @ \o Input(i, n)])
  /\ hist' = [hist EXCEPT ![i].last = <<>>, ![i].fed = @ + n]
  /\ UNCHANGED <<token, prng>>

RsaFinal(i, n) ==
  /\ InCall /\ Is(i, "cipher") /\ heap[i].kind = 12 /\ Usable(i) /\ Feed(i, n)
  /\ Len(heap[i].buf.pend) + n = Width
  /\ Put(i, [heap[i] EXCEPT !.buf = NoStream])
  /\ Finished(i, heap[i].buf.pend \o Input(i, n), hist[i].fed + n)
  /\ UNCHANGED <<token, prng>>

-----------------------------------------------------------------------------
\* Digests and checksums.  A digest allocates its context at the first byte.
DigestUpdate(i, n) ==
  /\ InCall /\ (Is(i, "digest") \/ Is(i, "sum")) /\ n > 0 /\ Feed(i, n)
  /\ heap[i].cls = "digest" /\ heap[i].pend = 0 => ~locked
  /\ Put(i, [heap[i] EXCEPT !.pend = IF heap[i].cls = "digest" THEN 1 ELSE @,
                            !.buf.pend = @ \o Input(i, n)])
  /\ hist' = [hist EXCEPT ![i].last = <<>>, ![i].fed = @ + n]
  /\ UNCHANGED <<token, prng>>

DigestFinal(i, n) ==
  /\ InCall /\ (Is(i, "digest") \/ Is(i, "sum")) /\ Feed(i, n)
  /\ Put(i, [heap[i] EXCEPT !.buf = NoStream])
  /\ Finished(i, heap[i].buf.pend \o Input(i, n), hist[i].fed + n)
  /\ UNCHANGED <<token, prng>>

\* MessageDigest.reset and Checksum.init.
DigestReset(i, iv) ==
  /\ InCall /\ (Is(i, "digest") \/ Is(i, "sum")) /\ (iv # 0 => Is(i, "sum"))
  /\ Put(i, [heap[i] EXCEPT !.buf = [NoStream EXCEPT !.iv = iv]])
  /\ hist' = [hist EXCEPT ![i] = Silent]
  /\ UNCHANGED <<token, prng>>

OneShots == {i \in DOMAIN heap : heap[i].cls = "oneshot"}

\* one_shot_slot: one open digest at a time, a released object is reused.
OpenOneShot(k) ==
  /\ OnlyHeap /\ Uses(<<"oneshot", k, 0>>) /\ Available("oneshot", k)
  /\ \A i \in OneShots : heap[i].ready = 0
  /\ LET reusable == {i \in OneShots : heap[i].size = 1} IN
     IF reusable # {}
     THEN Put(CHOOSE i \in reusable : \A j \in reusable : j <= i,
              [Fresh("oneshot", k, 0) EXCEPT !.ready = 1])
     ELSE Room(1) /\ heap' = Append(heap, [Fresh("oneshot", k, 0) EXCEPT !.ready = 1])

CloseOneShot(i) ==
  /\ OnlyHeap /\ i \in OneShots /\ Put(i, [heap[i] EXCEPT !.ready = 0])

-----------------------------------------------------------------------------
\* Random data.  The pseudo chain is written outside rollback.
PseudoGenerate(i) ==
  /\ InCall /\ i \in DOMAIN heap /\ Pseudo(heap[i]) /\ heap[i].data.n < MaxToken
  /\ LET next == [heap[i].data EXCEPT !.n = @ + 1] IN
       /\ Put(i, [heap[i] EXCEPT !.data = next])
       /\ prng' = [prng EXCEPT !.drawn = Append(@, next)]
  /\ Heard /\ UNCHANGED token

\* setSeed: an applet that uses a seed twice wants the same values twice, so
\* every seed is a new token.
SetSeed(i) ==
  /\ InCall /\ Is(i, "random") /\ token < MaxToken /\ token' = token + 1
  /\ Put(i, IF Pseudo(heap[i]) THEN [heap[i] EXCEPT !.data = [seed |-> token + 1, n |-> 0]]
            ELSE [heap[i] EXCEPT !.buf.seen = TRUE, !.buf.iv = token + 1])
  /\ Heard /\ UNCHANGED prng

\* A seeded secure source masks the entropy with its own chain.
SecureGenerate(i) ==
  /\ OnlyHeap /\ Is(i, "random") /\ heap[i].kind = 2 /\ heap[i].buf.blocks < MaxToken
  /\ Put(i, IF heap[i].buf.seen THEN [heap[i] EXCEPT !.buf.blocks = @ + 1] ELSE heap[i])

-----------------------------------------------------------------------------
KeyOps ==
  \/ \E c \in Constructed : BuildKey(c[2], c[3])
  \/ \E i \in DOMAIN heap : SetKey(i) \/ SetEcValue(i) \/ ClearKey(i)
  \/ \E i \in DOMAIN heap : \E p \in {0, 1, 5} : SetParameter(i, p)
  \/ \E i, j \in DOMAIN heap : CopyDomainParameters(i, j)
  \/ \E i \in DOMAIN heap : \E m \in BOOLEAN : SetRsaPart(i, m)

Next ==
  \/ Enter
  \/ Begin
  \/ Commit
  \/ Abort
  \/ CheckpointPin
  \/ Return
  \/ Deselect
  \/ Recover
  \/ KeyOps
  \/ NewPair
  \/ \E p \in DOMAIN heap : \E c \in Constructed : PairNew(p, c[2], c[3])
  \/ \E p, i, j \in DOMAIN heap : PairOf(p, i, j)
  \/ \E p \in DOMAIN heap : GenKeyPair(p)
  \/ \E c \in Constructed : GetInstance(c[1], c[2])
  \/ \E i, k \in DOMAIN heap : \E mode \in {1, 2}, iv \in {0, 1} : SignInit(i, k, mode, iv)
  \/ \E i \in DOMAIN heap : \E n \in Chunks : SignUpdate(i, n)
  \/ \E i \in DOMAIN heap : \E n \in Chunks : SignFinal(i, n)
  \/ \E i \in DOMAIN heap : SignHash(i)
  \/ \E i, k \in DOMAIN heap : AgreeInit(i, k)
  \/ \E i, k \in DOMAIN heap : \E mode \in {1, 2}, iv \in {0, 1} : CipherInit(i, k, mode, iv)
  \/ \E i \in DOMAIN heap : \E n \in Chunks : CipherUpdate(i, n)
  \/ \E i \in DOMAIN heap : \E n \in Chunks, t \in 0 .. Block : CipherFinal(i, n, t)
  \/ \E i \in DOMAIN heap : \E n \in Chunks : RsaUpdate(i, n)
  \/ \E i \in DOMAIN heap : \E n \in Chunks : RsaFinal(i, n)
  \/ \E i \in DOMAIN heap : \E n \in Chunks : DigestUpdate(i, n)
  \/ \E i \in DOMAIN heap : \E n \in Chunks : DigestFinal(i, n)
  \/ \E i \in DOMAIN heap : \E iv \in {0, 1} : DigestReset(i, iv)
  \/ \E c \in Constructed : OpenOneShot(c[2])
  \/ \E i \in DOMAIN heap : CloseOneShot(i)
  \/ \E i \in DOMAIN heap : PseudoGenerate(i)
  \/ \E i \in DOMAIN heap : SetSeed(i)
  \/ \E i \in DOMAIN heap : SecureGenerate(i)

Spec == Init /\ [][Next]_vars

-----------------------------------------------------------------------------
\* Shapes of the state, and at most one temporary digest open (the platform
\* offers one: security.rs, MessageDigest.OneShot.open).
TypeOK ==
  /\ Len(heap) <= MaxObj /\ Len(flash) <= MaxObj
  /\ token \in 1 .. MaxToken /\ running \in BOOLEAN /\ locked \in BOOLEAN
  /\ tx # NoTx => running /\ Len(tx[1]) <= Len(heap)
  /\ Cardinality({i \in OneShots : heap[i].ready = 1}) <= 1
  /\ \A i \in DOMAIN heap : heap[i].mat \in 0 .. Len(heap) /\ heap[i].pend \in 0 .. Len(heap)

\* Whatever was saved, at a commit, a PIN checkpoint or the end of a command,
\* passes validate_saved_security when the applet is loaded again: the native
\* objects never reach a state in which their own recovery refuses the record.
\* No more than the one temporary digest of the platform is open (TypeOK).
\* Raw RSA ciphers are left out: factory.rs constructs them in a build with
\* rsa-raw and validate_saved_security does not know them.
RecordLoads ==
  /\ TypeOK
  /\ \A i \in DOMAIN flash :
       ~(flash[i].cls = "cipher" /\ flash[i].kind = 12) => ValidSaved(flash, flash[i])

\* Streaming keeps the message: bytes released and bytes held back are the
\* bytes accepted, once each and in order; the chaining value has advanced by
\* the blocks released; a padded decryption has not released its last block;
\* and a finished operation covered exactly its message, with at most a block
\* of padding.
StreamKeepsBytes ==
  \A i \in DOMAIN heap :
    LET o == heap[i]
        h == hist[i]
        w == IF h.last = <<>> THEN <<>> ELSE h.last[1]
    IN o.cls \in {"sign", "cipher", "digest", "sum"} =>
         /\ h.out \o o.buf.pend = Positions(0, h.fed)
         /\ (o.cls = "sign" /\ o.kind \notin HashSign) \/ (o.cls = "cipher" /\ IsChained(o.kind)) =>
              o.buf.blocks * Block = Len(h.out)
         /\ o.cls = "sign" /\ o.kind = 49 /\ h.fed > 0 => o.buf.pend # <<>>
         /\ o.cls = "cipher" /\ ~h.stale /\ o.kind # 12 /\ o.mode = 1 /\ Padding(o.kind) >= 2 /\ h.fed > 0 =>
              o.buf.pend # <<>>
         /\ h.last # <<>> =>
              /\ SubSeq(w, 1, h.last[2]) = Positions(0, h.last[2])
              /\ \A j \in h.last[2] + 1 .. Len(w) : w[j] = 0
              /\ Len(w) - h.last[2] <= Block

\* A pseudo-random value that left the card, or was drawn in this command, is
\* never drawn again: not after an aborted transaction, a PIN checkpoint in
\* the middle of one, or a cut.
PseudoNeverRepeats == IsInjective(prng.sent \o prng.drawn)

=============================================================================
