--------------------------- MODULE HashingProofs ---------------------------
(***************************************************************************)
(* Proofs about Hashing.tla, for any number of handlers, addresses, bodies *)
(* and hashes.  All but the counter's properties hold whatever fails; the  *)
(* latter hold until a write of stats.json is cut short.                   *)
(***************************************************************************)
EXTENDS Hashing, TLAPS

-----------------------------------------------------------------------------
(* Words *)

\* A positive multiple of a number is not below it.
LEMMA Multiple ==
  ASSUME NEW n \in Nat \ {0}, NEW q \in Int, q > 0
  PROVE  n <= n * q
<1>1. PICK p \in Nat : q = p + 1
  <2>1. q - 1 \in Nat
    OBVIOUS
  <2> QED BY <2>1
<1>2. n * q = n * p + n /\ n * p \in Nat
  BY <1>1
<1> QED BY <1>2

\* q and r are what dividing x by n leaves.
Divided(x, n, q, r) == q \in Int /\ r \in 0..(n - 1) /\ x = n * q + r

LEMMA Division ==
  ASSUME NEW n \in Nat \ {0}, NEW x \in Int
  PROVE  Divided(x, n, x \div n, x % n)
BY DEF Divided

\* Two divisions that differ by less than n are the same.
LEMMA Remainder ==
  ASSUME NEW n \in Nat \ {0}, NEW x \in Int, NEW q, NEW r, Divided(x, n, q, r)
  PROVE  x % n = r
<1>1. PICK p \in Int, s \in 0..(n - 1) : x = n * p + s /\ x % n = s
  BY Division DEF Divided
<1>2. q \in Int /\ r \in 0..(n - 1) /\ x = n * q + r
  BY DEF Divided
<1>3. n * (p - q) = r - s /\ n * (q - p) = s - r
  <2>1. /\ n * (p - q) = n * p - n * q /\ n * (q - p) = n * q - n * p
        /\ n * p \in Int /\ n * q \in Int
    BY <1>2
  <2> QED BY <1>1, <1>2, <2>1
<1>4. ~(p - q > 0)
  <2> SUFFICES ASSUME p - q > 0 PROVE FALSE
    OBVIOUS
  <2>1. n <= n * (p - q)
    BY <1>2, Multiple
  <2> QED BY <1>2, <1>3, <2>1
<1>5. ~(q - p > 0)
  <2> SUFFICES ASSUME q - p > 0 PROVE FALSE
    OBVIOUS
  <2>1. n <= n * (q - p)
    BY <1>2, Multiple
  <2> QED BY <1>2, <1>3, <2>1
<1>6. p = q
  BY <1>2, <1>4, <1>5
<1> QED BY <1>1, <1>2, <1>3, <1>6

\* A number and its remainder differ by a multiple.
LEMMA RemainderSame ==
  ASSUME NEW n \in Nat \ {0}, NEW x \in Int
  PROVE  x % n \in 0..(n - 1) /\ ((x % n) - x) % n = 0
<1>1. PICK q \in Int, r \in 0..(n - 1) : x = n * q + r /\ r = x % n
  BY Division DEF Divided
<1>2. n * q \in Int /\ n * (0 - q) = 0 - n * q
  OBVIOUS
<1>3. r - x \in Int /\ Divided(r - x, n, 0 - q, 0)
  BY <1>1, <1>2 DEF Divided
<1>4. (r - x) % n = 0
  BY <1>3, Remainder
<1> QED BY <1>1, <1>4

\* `>>> 0` makes of any integer the word that differs by a multiple of 2^32.
LEMMA Uint32IsWord ==
  ASSUME NEW n \in Int
  PROVE  Uint32(n) \in Words /\ SameWord(Uint32(n), n)
<1>1. NonceMod \in Nat \ {0}
  BY ConstantsOK
<1> QED BY <1>1, RemainderSame DEF Uint32, Words, SameWord

-----------------------------------------------------------------------------
(* Types *)

Typed == TypeOK /\ HandlersReady

\* The counter that a start reads is a number.
LEMMA LoadedIsNat == TypeOK => Loaded \in Nat
BY ConstantsOK DEF TypeOK, Loaded

\* The handlers after a build settled are typed, and nobody saves.
LEMMA SettleTyped ==
  ASSUME Typed, Quiet, NEW outcome \in {"resumed", "failed"}, Settle(outcome),
         candidate' \in Header \cup {Null},
         candidate' = candidate \/ candidate' # Null,
         outcome = "resumed" => candidate' # Null
  PROVE  /\ reqs' \in [Requests -> ReqType]
         /\ HandlersReady'
         /\ ~Busy /\ ~Busy'
         /\ \A r \in Requests : reqs'[r].pc = "submitting" => reqs'[r] = reqs[r]
<1>1. ASSUME NEW r \in Requests
      PROVE  /\ reqs'[r] \in ReqType
             /\ reqs'[r].pc # "saving"
             /\ reqs'[r].pc # "idle" => reqs'[r].client \in Addresses
             /\ reqs'[r].pc = "resumed" => candidate' # Null
             /\ reqs'[r].pc = "submitting" => reqs'[r] = reqs[r] /\ reqs'[r].result # Null
  <2>1. reqs[r] \in ReqType /\ reqs[r].pc \notin {"resumed", "saving"}
    BY DEF Typed, TypeOK, Quiet
  <2>2. /\ reqs[r].pc # "idle" => reqs[r].client \in Addresses
        /\ reqs[r].pc = "submitting" => reqs[r].result # Null
    BY DEF Typed, HandlersReady
  <2>3. CASE reqs[r].pc # "awaiting"
    BY <2>1, <2>2, <2>3 DEF Settle
  <2>4. CASE reqs[r].pc = "awaiting" /\ outcome = "failed"
    BY <2>4 DEF Settle, IdleReq, ReqType, NoBody, Body
  <2>5. CASE reqs[r].pc = "awaiting" /\ outcome = "resumed"
    <3>1. reqs'[r] = [reqs[r] EXCEPT !.pc = "resumed"]
      BY <2>5 DEF Settle
    <3> QED BY <2>1, <2>2, <2>5, <3>1 DEF ReqType
  <2> QED BY <2>3, <2>4, <2>5
<1> QED BY <1>1 DEF Settle, HandlersReady, Busy, Quiet

\* A step that replaces one handler keeps the rest.
LEMMA OneHandlerTyped ==
  ASSUME Typed, NEW r \in Requests, NEW s \in ReqType,
         reqs' = [reqs EXCEPT ![r] = s],
         candidate' = candidate \/ candidate' # Null,
         cache' = cache \/ (cache' # Null /\ cache' # 0),
         s.pc # "idle" => s.client \in Addresses,
         s.pc = "resumed" => candidate' # Null,
         s.pc = "saving" => ~Busy /\ candidate' # Null /\ cache' # Null /\ cache' # 0,
         s.pc = "submitting" => s.result # Null
  PROVE  reqs' \in [Requests -> ReqType] /\ HandlersReady'
BY DEF Typed, TypeOK, HandlersReady, Busy

\* The header that a handler hashes next.
LEMMA NextHeaderTyped ==
  ASSUME NEW body \in Body, candidate \in Header, Loaded \in Nat
  PROVE  NextHeader(body) \in Header
<1>1. /\ candidate.gen \in Nat /\ candidate.since \in Nat
      /\ candidate.nonce \in Words /\ candidate.time \in Words
  BY DEF Header
<1>2. /\ (IF body.nonce # Null THEN body.nonce ELSE candidate.nonce + 1) \in Int
      /\ body.time # Null => body.time \in Int
  <2>1. body.nonce \in Int \cup {Null} /\ body.time \in Int \cup {Null}
    BY ConstantsOK DEF Body, NoBody
  <2>2. candidate.nonce + 1 \in Int
    BY <1>1, ConstantsOK DEF Words
  <2> QED BY <2>1, <2>2
<1>3. NextHeader(body).nonce \in Words
  BY <1>2, Uint32IsWord DEF NextHeader
<1>4. NextHeader(body).time \in Words
  BY <1>1, <1>2, Uint32IsWord DEF NextHeader
<1>5. NextHeader(body).since \in Nat
  BY <1>1 DEF NextHeader
<1> QED BY <1>1, <1>3, <1>4, <1>5 DEF NextHeader, Header

\* What taking a nonce leaves.
LEMMA TakeNonceTyped ==
  ASSUME Typed, NEW r \in Requests, TakeNonce(r)
  PROVE  /\ recent' \subseteq Addresses
         /\ candidate' \in Header
         /\ cache' = Loaded + 1 /\ cache' \in Nat \ {0} /\ cache' # Null
         /\ ~Busy
<1>1. reqs[r] \in ReqType /\ reqs[r].client \in Addresses /\ candidate \in Header
  BY DEF Typed, TypeOK, HandlersReady, TakeNonce
<1>2. reqs[r].body \in Body
  BY <1>1 DEF ReqType
<1>3. candidate' \in Header
  BY <1>1, <1>2, LoadedIsNat, NextHeaderTyped DEF TakeNonce, Typed
<1>4. cache' = Loaded + 1 /\ cache' \in Nat \ {0} /\ cache' # Null
  BY LoadedIsNat, ConstantsOK DEF TakeNonce, Typed
<1>5. recent' \subseteq Addresses
  BY <1>1 DEF TakeNonce, Key, Typed, TypeOK
<1> QED BY <1>3, <1>4, <1>5 DEF TakeNonce

\* A broadcast keeps the type of the wire.
LEMMA BroadcastTyped ==
  ASSUME wire \in Seq(Message), NEW type \in {"candidate", "hash"}, NEW h \in Header,
         NEW n \in Nat, NEW won \in BOOLEAN, Broadcast(type, h, n, won)
  PROVE  wire' \in Seq(Message)
BY DEF Broadcast, Message

\* The types hold at first.
LEMMA InitTyped == Init => Typed
<1> SUFFICES ASSUME Init PROVE Typed
  OBVIOUS
<1>1. IdleReq \in ReqType
  BY DEF IdleReq, ReqType, NoBody, Body
<1>2. reqs \in [Requests -> ReqType] /\ recent \subseteq Addresses
  BY <1>1 DEF Init
<1>3. TypeOK
  <2>1. torn \in BOOLEAN
    BY DEF Init
  <2>2. wire \in Seq(Message) /\ results \in Seq(Result)
    BY DEF Init
  <2>3. disk \in Nat \cup {Torn} /\ cache \in Nat \cup {Null} /\ candidate \in Header \cup {Null} /\ builds \in Nat
    BY DEF Init
  <2> QED BY <1>2, <2>1, <2>2, <2>3 DEF TypeOK
<1>4. HandlersReady
  BY DEF Init, HandlersReady, IdleReq
<1> QED BY <1>3, <1>4 DEF Typed

\* Every step keeps the types.
LEMMA ReqStepTyped ==
  ASSUME Typed, NEW r \in Requests, ReqStep(r)
  PROVE  Typed'
<1> USE ConstantsOK
<1>1. /\ reqs[r] \in ReqType
      /\ IdleReq \in ReqType /\ IdleReq.pc = "idle"
      /\ reqs[r].pc # "idle" => reqs[r].client \in Addresses
  BY DEF Typed, TypeOK, HandlersReady, IdleReq, ReqType, NoBody, Body
<1>2. ASSUME NEW a \in Addresses, NEW body \in Bodies, HashRequested(r, a, body)
      PROVE  Typed'
  <2> DEFINE s == [pc |-> IF candidate = Null THEN "awaiting" ELSE "resumed",
                   client |-> a, body |-> body, result |-> Null]
  <2>1. s \in ReqType
    BY DEF ReqType, Body
  <2>2. reqs' \in [Requests -> ReqType] /\ HandlersReady'
    BY <1>2, <2>1, OneHandlerTyped DEF HashRequested
  <2> QED BY <1>2, <2>2 DEF HashRequested, Typed, TypeOK
<1>3. CASE TooFast(r) \/ SaveTorn(r)
  <2>1. reqs' \in [Requests -> ReqType] /\ HandlersReady'
    BY <1>1, <1>3, OneHandlerTyped DEF TooFast, SaveTorn
  <2> QED BY <1>3, <2>1 DEF TooFast, SaveTorn, Typed, TypeOK
<1>5. CASE SaveThrows(r)
  <2>1. TakeNonce(r) /\ reqs' = [reqs EXCEPT ![r] = IdleReq] /\ UNCHANGED disk
    BY <1>5 DEF SaveThrows
  <2>2. /\ recent' \subseteq Addresses
        /\ candidate' \in Header /\ candidate' # Null
        /\ cache' \in Nat \ {0} /\ cache' # Null
    BY <2>1, TakeNonceTyped DEF Header, Words
  <2>3. reqs' \in [Requests -> ReqType] /\ HandlersReady'
    BY <1>1, <2>1, <2>2, OneHandlerTyped
  <2> QED BY <2>1, <2>2, <2>3 DEF TakeNonce, Typed, TypeOK
<1>6. CASE SaveStarts(r)
  <2> DEFINE s == [reqs[r] EXCEPT !.pc = "saving"]
  <2>1. TakeNonce(r) /\ reqs' = [reqs EXCEPT ![r] = s] /\ disk' = Torn
    BY <1>6 DEF SaveStarts
  <2>2. /\ recent' \subseteq Addresses
        /\ candidate' \in Header /\ candidate' # Null
        /\ cache' \in Nat \ {0} /\ cache' # Null
        /\ ~Busy
    BY <2>1, TakeNonceTyped DEF Header, Words
  <2>3. s \in ReqType /\ s.client = reqs[r].client /\ s.pc = "saving" /\ s.client \in Addresses
    BY <1>1, <2>1 DEF ReqType, TakeNonce
  <2>4. reqs' \in [Requests -> ReqType] /\ HandlersReady'
    BY <2>1, <2>2, <2>3, OneHandlerTyped
  <2> QED BY <2>1, <2>2, <2>4 DEF TakeNonce, Typed, TypeOK
<1>7. ASSUME Hashed(r)
      PROVE  /\ disk' \in Nat /\ candidate \in Header /\ cache \in Nat /\ cache # Null
             /\ results' \in Seq(Result)
             /\ [header |-> candidate, attempts |-> cache] \in Result
  <2>1. candidate \in Header /\ cache \in Nat /\ results \in Seq(Result)
    BY <1>7 DEF Hashed, Typed, TypeOK, HandlersReady
  <2>2. [header |-> candidate, attempts |-> cache] \in Result
    BY <2>1 DEF Result
  <2> QED BY <1>7, <2>1, <2>2 DEF Hashed
<1>8. CASE Miss(r)
  <2>1. wire' \in Seq(Message)
    BY <1>7, <1>8, BroadcastTyped DEF Miss, Typed, TypeOK
  <2>2. reqs' \in [Requests -> ReqType] /\ HandlersReady'
    BY <1>1, <1>8, OneHandlerTyped DEF Miss, Hashed
  <2> QED BY <1>7, <1>8, <2>1, <2>2 DEF Miss, Hashed, Typed, TypeOK
<1>9. CASE Hit(r)
  <2> DEFINE s == [pc |-> "submitting", client |-> Key(r), body |-> NoBody,
                   result |-> [header |-> candidate, attempts |-> cache]]
  <2>1. s \in ReqType /\ s.client \in Addresses /\ s.result # Null
    <3>1. Key(r) \in Addresses
      BY <1>1, <1>9 DEF Hit, Hashed, Key
    <3>2. s.result \in Result /\ s.result # Null
      BY <1>7, <1>9 DEF Hit, Result, Header, Words
    <3> QED BY <3>1, <3>2 DEF ReqType, NoBody, Body
  <2>2. reqs' \in [Requests -> ReqType] /\ HandlersReady'
    BY <1>9, <2>1, OneHandlerTyped DEF Hit, Hashed
  <2> QED BY <1>7, <1>9, <2>2 DEF Hit, Hashed, Typed, TypeOK
<1>10. CASE SubmitEnds(r)
  <2>1. reqs[r].result \in Result
    BY <1>1, <1>10 DEF SubmitEnds, Typed, HandlersReady, ReqType
  <2>2. wire' \in Seq(Message)
    BY <1>10, <2>1, BroadcastTyped DEF SubmitEnds, Typed, TypeOK, Result
  <2>3. reqs' \in [Requests -> ReqType] /\ HandlersReady'
    BY <1>1, <1>10, OneHandlerTyped DEF SubmitEnds
  <2> QED BY <1>10, <2>2, <2>3 DEF SubmitEnds, Typed, TypeOK
<1> QED BY <1>2, <1>3, <1>5, <1>6, <1>8, <1>9, <1>10 DEF ReqStep

\* No step breaks them.
LEMMA NextTyped == Typed /\ [Next]_vars => Typed'
<1> SUFFICES ASSUME Typed, [Next]_vars PROVE Typed'
  OBVIOUS
<1> USE ConstantsOK
<1>1. CASE NewCandidate
  <2>1. candidate' \in Header /\ candidate' # Null
    BY <1>1 DEF NewCandidate, Typed, TypeOK, Header, Words
  <2>2. wire' \in Seq(Message)
    BY <1>1, <2>1, LoadedIsNat, BroadcastTyped DEF NewCandidate, Typed, TypeOK
  <2>3. reqs' \in [Requests -> ReqType] /\ HandlersReady'
    BY <1>1, <2>1, SettleTyped DEF NewCandidate
  <2> QED BY <1>1, <2>1, <2>2, <2>3, LoadedIsNat DEF NewCandidate, Typed, TypeOK
<1>2. CASE NoCandidate
  <2>1. reqs' \in [Requests -> ReqType] /\ HandlersReady'
    BY <1>2, SettleTyped DEF NoCandidate, Typed, TypeOK
  <2> QED BY <1>2, <2>1 DEF NoCandidate, Typed, TypeOK
<1>3. ASSUME NEW a \in Addresses, IntervalElapses(a)
      PROVE  Typed'
  BY <1>3 DEF IntervalElapses, Typed, TypeOK, HandlersReady
<1>4. CASE Restart
  <2>1. IdleReq \in ReqType /\ IdleReq.pc = "idle"
    BY DEF IdleReq, ReqType, NoBody, Body
  <2> QED BY <1>4, <2>1 DEF Restart, Typed, TypeOK, HandlersReady
<1>5. CASE UNCHANGED vars
  BY <1>5 DEF vars, Typed, TypeOK, HandlersReady
<1> QED BY <1>1, <1>2, <1>3, <1>4, <1>5, ReqStepTyped DEF Next

\* Every state has its types.
LEMMA SpecTyped == Spec => []Typed
BY InitTyped, NextTyped, PTL DEF Spec

\* Every variable keeps its type: in particular the nonce and the time stay
\* 32-bit words, whatever integer is typed and however often the nonce wraps,
\* and what is broadcast always carries a header and a count.
THEOREM TypeCorrect == Spec => []TypeOK
BY SpecTyped, PTL DEF Typed

-----------------------------------------------------------------------------
(* What a click hashes *)

\* The live candidate is the last one built.
LastBuilt == candidate # Null => candidate.gen = builds

OwnBody == LastBuilt /\ HashesOwnBody

\* What the header that a handler takes has of its body.
LEMMA NextHeaderIs ==
  ASSUME Typed, LastBuilt, NEW r \in Requests, TakeNonce(r)
  PROVE  /\ candidate'.gen = builds'
         /\ reqs[r].body.nonce # Null => SameWord(candidate'.nonce, reqs[r].body.nonce)
         /\ reqs[r].body.time # Null => SameWord(candidate'.time, reqs[r].body.time)
<1>1. reqs[r].body \in Body /\ candidate # Null
  BY DEF TakeNonce, Typed, TypeOK, HandlersReady, ReqType
<1>2. reqs[r].body.nonce \in Int \cup {Null} /\ reqs[r].body.time \in Int \cup {Null}
  BY <1>1, ConstantsOK DEF Body, NoBody
<1>3. candidate' = NextHeader(reqs[r].body) /\ builds' = builds
  BY DEF TakeNonce
<1>4. ASSUME reqs[r].body.nonce # Null
      PROVE  SameWord(candidate'.nonce, reqs[r].body.nonce)
  <2>1. candidate'.nonce = Uint32(reqs[r].body.nonce) /\ reqs[r].body.nonce \in Int
    BY <1>2, <1>3, <1>4 DEF NextHeader
  <2> QED BY <2>1, Uint32IsWord
<1>5. ASSUME reqs[r].body.time # Null
      PROVE  SameWord(candidate'.time, reqs[r].body.time)
  <2>1. candidate'.time = Uint32(reqs[r].body.time) /\ reqs[r].body.time \in Int
    BY <1>2, <1>3, <1>5 DEF NextHeader
  <2> QED BY <2>1, Uint32IsWord
<1> QED BY <1>1, <1>3, <1>4, <1>5 DEF NextHeader, LastBuilt

\* Only the handler that took the header saves, and nobody takes another.
LEMMA NextOwnBody == Typed /\ OwnBody /\ [Next]_vars => OwnBody'
<1> SUFFICES ASSUME Typed, OwnBody, [Next]_vars PROVE OwnBody'
  OBVIOUS
<1>1. reqs \in [Requests -> ReqType] /\ IdleReq.pc = "idle"
  BY DEF Typed, TypeOK, IdleReq
<1>2. ASSUME UNCHANGED <<candidate, builds>>,
             \A r \in Requests : reqs'[r].pc = "saving" => reqs'[r] = reqs[r]
      PROVE  OwnBody'
  BY <1>2 DEF OwnBody, LastBuilt, HashesOwnBody, SameWord
<1>3. ASSUME NEW r \in Requests, TakeNonce(r),
             SaveThrows(r) \/ SaveStarts(r)
      PROVE  OwnBody'
  <2>1. \A q \in Requests \ {r} : reqs'[q].pc # "saving"
    BY <1>1, <1>3 DEF TakeNonce, Busy, SaveThrows, SaveStarts
  <2>2. reqs'[r].pc = "saving" => reqs'[r].body = reqs[r].body
    BY <1>1, <1>3 DEF SaveThrows, SaveStarts, ReqType
  <2>3. /\ candidate'.gen = builds'
        /\ reqs[r].body.nonce # Null => SameWord(candidate'.nonce, reqs[r].body.nonce)
        /\ reqs[r].body.time # Null => SameWord(candidate'.time, reqs[r].body.time)
    BY <1>3, NextHeaderIs DEF OwnBody
  <2> QED BY <2>1, <2>2, <2>3 DEF OwnBody, LastBuilt, HashesOwnBody, SameWord
<1>4. ASSUME NEW r \in Requests, ReqStep(r), ~TakeNonce(r)
      PROVE  OwnBody'
  <2>1. UNCHANGED <<candidate, builds>>
    BY <1>4 DEF ReqStep, HashRequested, TooFast, SaveThrows, SaveStarts, SaveTorn,
                Miss, Hit, Hashed, SubmitEnds
  <2>2. \A q \in Requests : q # r => reqs'[q] = reqs[q]
    BY <1>1, <1>4 DEF ReqStep, HashRequested, TooFast, SaveThrows, SaveStarts, SaveTorn,
                Miss, Hit, Hashed, SubmitEnds
  <2>3. reqs'[r].pc # "saving"
    <3>1. CASE \E a \in Addresses, body \in Bodies : HashRequested(r, a, body)
      BY <1>1, <3>1 DEF HashRequested
    <3>2. CASE TooFast(r) \/ SaveTorn(r) \/ Miss(r) \/ SubmitEnds(r)
      BY <1>1, <3>2 DEF TooFast, SaveTorn, Miss, SubmitEnds
    <3>3. CASE Hit(r)
      BY <1>1, <3>3 DEF Hit
    <3> QED BY <1>4, <3>1, <3>2, <3>3 DEF ReqStep, SaveThrows, SaveStarts
  <2> QED BY <1>2, <2>1, <2>2, <2>3
<1>5. CASE NewCandidate
  <2>1. candidate' \in Header /\ candidate' # Null /\ candidate'.gen = builds'
    BY <1>5, ConstantsOK DEF NewCandidate, Typed, TypeOK, Header, Words
  <2>2. ~Busy'
    BY <1>5, <2>1, SettleTyped DEF NewCandidate
  <2> QED BY <2>1, <2>2 DEF OwnBody, LastBuilt, HashesOwnBody, Busy
<1>6. CASE NoCandidate
  <2>1. ~Busy' /\ UNCHANGED <<candidate, builds>>
    BY <1>6, SettleTyped DEF NoCandidate, Typed, TypeOK
  <2> QED BY <1>2, <2>1 DEF Busy
<1>7. CASE \E a \in Addresses : IntervalElapses(a)
  BY <1>2, <1>7 DEF IntervalElapses
<1>8. CASE Restart
  BY <1>1, <1>8 DEF Restart, OwnBody, LastBuilt, HashesOwnBody
<1>9. CASE UNCHANGED vars
  BY <1>2, <1>9 DEF vars
<1>10. ASSUME NEW r \in Requests, ReqStep(r), TakeNonce(r)
       PROVE  SaveThrows(r) \/ SaveStarts(r)
  BY <1>10 DEF ReqStep, TakeNonce, HashRequested, TooFast, SaveTorn,
               Miss, Hit, Hashed, SubmitEnds
<1> QED BY <1>3, <1>4, <1>5, <1>6, <1>7, <1>8, <1>9, <1>10 DEF Next

\* A click hashes the nonce and the time of its own body, as words, on the live
\* candidate, whatever the other handlers, the builds and restarts do.
THEOREM OwnBodyHashed == Spec => []HashesOwnBody
<1>1. Init => OwnBody
  BY DEF Init, OwnBody, LastBuilt, HashesOwnBody, IdleReq
<1>2. OwnBody => HashesOwnBody
  BY DEF OwnBody
<1> QED BY <1>1, <1>2, NextOwnBody, SpecTyped, PTL DEF Spec

-----------------------------------------------------------------------------
(* The counter *)

\* The elements of a sequence that was appended to.
LEMMA AppendIs ==
  ASSUME NEW S, NEW s \in Seq(S), NEW e \in S
  PROVE  /\ Len(s) \in Nat
         /\ Len(Append(s, e)) = Len(s) + 1
         /\ \A i \in 1..Len(s) : Append(s, e)[i] = s[i] /\ s[i] \in S
         /\ Append(s, e)[Len(s) + 1] = e
OBVIOUS

\* What the counts in the two sequences are.
LEMMA CountsAreNat ==
  ASSUME Typed
  PROVE  /\ \A i \in 1..Len(results) : results[i] \in Result /\ results[i].attempts \in Nat
         /\ \A i \in 1..Len(wire) : wire[i] \in Message /\ wire[i].attempts \in Nat
<1>1. results \in Seq(Result) /\ wire \in Seq(Message)
  BY DEF Typed, TypeOK
<1>2. \A i \in 1..Len(results) : results[i] \in Result
  BY <1>1
<1>3. \A i \in 1..Len(wire) : wire[i] \in Message
  BY <1>1
<1>4. \A x \in Result : x.attempts \in Nat
  BY DEF Result
<1>5. \A x \in Message : x.attempts \in Nat
  BY DEF Message
<1> QED BY <1>2, <1>3, <1>4, <1>5

\* The counter that is or will be in the file is a number.
LEMMA SavedIsNat == Typed /\ CountSafe => Saved \in Nat
BY DEF Typed, TypeOK, HandlersReady, CountSafe, Saved, Busy

\* A step that announces nothing and loses nothing of the count.
LEMMA KeepCount ==
  ASSUME Typed, Typed', CountSafe, UNCHANGED <<results, wire>>,
         Saved' \in Nat, Saved' >= Saved,
         ~Busy' => disk' \in Nat /\ (cache' # Null => cache' >= disk'),
         \A r \in Requests : reqs'[r].pc = "submitting" => reqs'[r] = reqs[r]
  PROVE  CountSafe'
<1>1. Saved \in Nat
  BY SavedIsNat
<1>2. \A i \in 1..Len(results) : results[i].attempts \in Nat
  BY CountsAreNat
<1>3. \A i \in 1..Len(wire) : wire[i].attempts \in Nat
  BY CountsAreNat
<1>4. \A i \in 1..Len(results) : results[i].attempts <= Saved'
  BY <1>1, <1>2 DEF CountSafe
<1>5. \A i \in 1..Len(wire) : wire[i].type = "hash" => wire[i].attempts <= Saved'
  BY <1>1, <1>3 DEF CountSafe
<1>6. ASSUME NEW r \in Requests, reqs'[r].pc = "submitting"
      PROVE  reqs'[r].result.attempts <= Saved'
  <2>1. reqs[r].result \in Result
    BY <1>6 DEF Typed, TypeOK, HandlersReady, ReqType
  <2>2. reqs[r].result.attempts \in Nat /\ reqs[r].result.attempts <= Saved
    BY <1>6, <2>1 DEF CountSafe, Result
  <2> QED BY <1>1, <1>6, <2>2
<1>7. InOrder' /\ CountNeverFalls'
  BY DEF CountSafe, InOrder, CountNeverFalls
<1> QED BY <1>4, <1>5, <1>6, <1>7 DEF CountSafe

\* The invariant of the counter holds at first.
LEMMA InitCount == Init => CountSafe
<1> SUFFICES ASSUME Init PROVE CountSafe
  OBVIOUS
<1>1. \A r \in Requests : reqs[r].pc = "idle"
  BY DEF Init, IdleReq
<1>2. ~Busy
  BY <1>1 DEF Busy
<1> QED BY <1>1, <1>2 DEF Init, CountSafe, InOrder, CountNeverFalls

\* The steps that save: the number being saved is above all others.
LEMMA TakeNonceCount ==
  ASSUME Typed, Typed', CountSafe, NEW r \in Requests, SaveThrows(r) \/ SaveStarts(r)
  PROVE  CountSafe'
<1> USE ConstantsOK
<1>1. /\ TakeNonce(r) /\ ~Busy
      /\ cache' = Loaded + 1 /\ cache' \in Nat /\ cache' # Null
      /\ UNCHANGED <<results, wire>>
  BY TakeNonceTyped DEF SaveThrows, SaveStarts, TakeNonce
<1>2. disk \in Nat /\ Saved = disk /\ Loaded \in Nat /\ Loaded >= disk
  BY <1>1, LoadedIsNat DEF CountSafe, Saved, Loaded, Typed, TypeOK
<1>3. CASE SaveThrows(r)
  <2>1. ~Busy' /\ disk' = disk
    BY <1>1, <1>3 DEF SaveThrows, Busy, IdleReq, Typed, TypeOK
  <2>2. \A q \in Requests : reqs'[q].pc = "submitting" => reqs'[q] = reqs[q]
    BY <1>3 DEF SaveThrows, IdleReq, Typed, TypeOK
  <2>3. Saved' = disk
    BY <2>1 DEF Saved
  <2> QED BY <1>1, <1>2, <2>1, <2>2, <2>3, KeepCount
<1>4. CASE SaveStarts(r)
  <2>1. reqs[r] \in ReqType /\ reqs' = [reqs EXCEPT ![r].pc = "saving"]
    BY <1>4 DEF SaveStarts, Typed, TypeOK
  <2>2. Busy'
    BY <2>1 DEF Busy, ReqType, Typed, TypeOK
  <2>3. \A q \in Requests : reqs'[q].pc = "submitting" => reqs'[q] = reqs[q]
    BY <2>1 DEF ReqType, Typed, TypeOK
  <2>4. Saved' = Loaded
    BY <1>1, <1>2, <2>2 DEF Saved
  <2> QED BY <1>1, <1>2, <2>2, <2>3, <2>4, KeepCount
<1> QED BY <1>3, <1>4

\* The step that numbers a hash: the number is above all others and the file
\* holds it.
LEMMA HashedCount ==
  ASSUME Typed, Typed', CountSafe, NEW r \in Requests, Hashed(r), reqs'[r].pc # "saving",
         \A q \in Requests \ {r} : reqs'[q] = reqs[q]
  PROVE  /\ ~Busy'
         /\ Saved' = cache /\ Saved' \in Nat /\ disk' \in Nat /\ Saved <= Saved'
         /\ (cache' # Null => cache' >= disk')
         /\ \A i \in 1..Len(results)' : results'[i].attempts <= Saved'
         /\ InOrder'
<1>1. /\ reqs[r].pc = "saving" /\ disk' = cache /\ cache' = cache
      /\ results' = Append(results, [header |-> candidate, attempts |-> cache])
      /\ candidate \in Header /\ cache \in Nat /\ results \in Seq(Result)
      /\ [header |-> candidate, attempts |-> cache] \in Result
  BY DEF Hashed, Typed, TypeOK, HandlersReady, Result
<1>2. Busy /\ Saved = cache - 1
  BY <1>1 DEF Busy, Saved
<1>3. ~Busy'
  BY <1>1 DEF Busy, Typed, HandlersReady
<1>4. Saved' = cache
  BY <1>1, <1>3 DEF Saved
<1>5. \A i \in 1..Len(results) : results[i].attempts \in Nat /\ results[i].attempts <= cache - 1
  BY <1>1, <1>2, CountsAreNat DEF CountSafe
<1>6. /\ Len(results) \in Nat
      /\ Len(results') = Len(results) + 1
      /\ \A i \in 1..Len(results) : results'[i] = results[i]
      /\ results'[Len(results) + 1].attempts = cache
  BY <1>1, AppendIs
<1>7. \A i \in 1..Len(results') : results'[i].attempts <= cache
  BY <1>1, <1>5, <1>6
<1>8. ASSUME NEW i \in 1..Len(results'), NEW j \in 1..Len(results'), i < j
      PROVE  results'[i].attempts < results'[j].attempts
  <2>1. i \in 1..Len(results)
    BY <1>6, <1>8
  <2>2. CASE j \in 1..Len(results)
    BY <1>6, <1>8, <2>1, <2>2 DEF CountSafe, InOrder
  <2>3. CASE j = Len(results) + 1
    BY <1>1, <1>5, <1>6, <2>1, <2>3
  <2> QED BY <1>6, <2>2, <2>3
<1> QED BY <1>1, <1>2, <1>3, <1>4, <1>7, <1>8 DEF InOrder

\* What a broadcast adds to the wire, and what that may break.
LEMMA BroadcastCount ==
  ASSUME Typed, CountSafe, NEW m \in Message, wire' = Append(wire, m),
         Saved' \in Nat, Saved <= Saved',
         m.type = "hash" => m.attempts <= Saved',
         m.type = "candidate" => m.attempts >= Saved
  PROVE  /\ \A i \in 1..Len(wire') : wire'[i].type = "hash" => wire'[i].attempts <= Saved'
         /\ CountNeverFalls'
<1>1. wire \in Seq(Message) /\ m.attempts \in Nat
  BY DEF Message, Typed, TypeOK
<1>2. /\ Len(wire) \in Nat
      /\ Len(wire') = Len(wire) + 1
      /\ \A i \in 1..Len(wire) : wire'[i] = wire[i] /\ wire[i].attempts \in Nat
      /\ wire'[Len(wire) + 1] = m
  BY <1>1, AppendIs, CountsAreNat
<1>3. Saved \in Nat
  BY SavedIsNat
<1>4. \A i \in 1..Len(wire) : wire[i].type = "hash" => wire[i].attempts <= Saved
  BY DEF CountSafe
<1>5. \A i \in 1..Len(wire') : wire'[i].type = "hash" => wire'[i].attempts <= Saved'
  BY <1>2, <1>3, <1>4
<1>6. ASSUME NEW i \in 1..Len(wire'), NEW j \in 1..Len(wire'), i < j,
             wire'[i].type = "hash", wire'[j].type = "candidate"
      PROVE  wire'[i].attempts <= wire'[j].attempts
  <2>1. i \in 1..Len(wire)
    BY <1>2, <1>6
  <2>2. CASE j \in 1..Len(wire)
    BY <1>2, <1>6, <2>1, <2>2 DEF CountSafe, CountNeverFalls
  <2>3. CASE j = Len(wire) + 1
    <3>1. wire'[j] = m /\ wire'[i] = wire[i] /\ wire[i].attempts \in Nat
      BY <1>2, <2>1, <2>3
    <3>2. wire[i].attempts <= Saved
      BY <1>4, <1>6, <2>1, <3>1
    <3>3. m.attempts >= Saved
      BY <1>6, <3>1
    <3>4. wire[i].attempts <= m.attempts
      BY <1>1, <1>3, <3>1, <3>2, <3>3
    <3> QED BY <3>1, <3>4
  <2> QED BY <1>2, <2>2, <2>3
<1> QED BY <1>5, <1>6 DEF CountNeverFalls

\* Every step keeps CountSafe until a write is cut short.
LEMMA ReqStepCount ==
  ASSUME ~torn', Typed, Typed', CountSafe, NEW r \in Requests, ReqStep(r)
  PROVE  CountSafe'
<1>1. reqs \in [Requests -> ReqType] /\ IdleReq.pc = "idle" /\ Saved \in Nat
  BY SavedIsNat DEF Typed, TypeOK, IdleReq
\* A handler that starts, is refused or answers leaves the counter alone.
<1>2. ASSUME NEW s, s.pc \notin {"saving", "submitting"}, reqs' = [reqs EXCEPT ![r] = s],
             reqs[r].pc # "saving",
             UNCHANGED <<disk, cache, wire, results>>
      PROVE  CountSafe'
  <2>1. Busy' <=> Busy
    BY <1>1, <1>2 DEF Busy
  <2>2. Saved' = Saved
    BY <1>2, <2>1 DEF Saved
  <2>3. \A q \in Requests : reqs'[q].pc = "submitting" => reqs'[q] = reqs[q]
    BY <1>1, <1>2
  <2>4. ~Busy' => disk' \in Nat /\ (cache' # Null => cache' >= disk')
    BY <1>2, <2>1 DEF CountSafe
  <2> QED BY <1>1, <1>2, <2>2, <2>3, <2>4, KeepCount
<1>3. ASSUME NEW a \in Addresses, NEW body \in Bodies, HashRequested(r, a, body)
      PROVE  CountSafe'
  <2> DEFINE s == [pc |-> IF candidate = Null THEN "awaiting" ELSE "resumed",
                   client |-> a, body |-> body, result |-> Null]
  <2>1. s.pc \notin {"saving", "submitting"} /\ reqs' = [reqs EXCEPT ![r] = s]
    BY <1>3 DEF HashRequested
  <2> QED BY <1>2, <1>3, <2>1 DEF HashRequested
<1>4. CASE TooFast(r)
  BY <1>1, <1>2, <1>4 DEF TooFast
<1>6. CASE SaveThrows(r) \/ SaveStarts(r)
  BY <1>6, TakeNonceCount
<1>7. CASE SaveTorn(r)
  BY <1>7 DEF SaveTorn
<1>8. CASE Miss(r)
  <2>1. Hashed(r) /\ Broadcast("hash", candidate, cache, FALSE) /\ reqs' = [reqs EXCEPT ![r] = IdleReq]
    BY <1>8 DEF Miss
  <2>2. reqs'[r].pc = "idle" /\ \A q \in Requests \ {r} : reqs'[q] = reqs[q]
    BY <1>1, <2>1
  <2>3. /\ ~Busy'
        /\ Saved' = cache /\ Saved' \in Nat /\ disk' \in Nat /\ Saved <= Saved'
        /\ (cache' # Null => cache' >= disk')
        /\ \A i \in 1..Len(results)' : results'[i].attempts <= Saved'
        /\ InOrder'
    BY <2>1, <2>2, HashedCount
  <2>4. candidate \in Header /\ cache \in Nat
    BY <2>1 DEF Hashed, Typed, TypeOK, HandlersReady
  <2>5. /\ \A i \in 1..Len(wire') : wire'[i].type = "hash" => wire'[i].attempts <= Saved'
        /\ CountNeverFalls'
    <3> DEFINE m == [type |-> "hash", header |-> candidate, attempts |-> cache, meetsTarget |-> FALSE]
    <3>1. m \in Message /\ m.type = "hash" /\ m.attempts = cache /\ wire' = Append(wire, m)
      BY <2>1, <2>3, <2>4 DEF Broadcast, Message
    <3> HIDE DEF m
    <3> QED BY <2>1, <2>3, <2>4, <3>1, BroadcastCount
  <2>6. ASSUME NEW q \in Requests, reqs'[q].pc = "submitting"
        PROVE  reqs'[q].result.attempts <= Saved'
    <3>1. reqs'[q] = reqs[q]
      BY <2>2, <2>6
    <3>2. reqs[q].result \in Result
      BY <2>6, <3>1 DEF Typed, TypeOK, HandlersReady, ReqType
    <3>3. reqs[q].result.attempts \in Nat /\ reqs[q].result.attempts <= Saved
      BY <2>6, <3>1, <3>2 DEF CountSafe, Result
    <3> QED BY <1>1, <2>3, <3>1, <3>3
  <2> QED BY <2>3, <2>5, <2>6 DEF CountSafe
<1>9. CASE Hit(r)
  <2> DEFINE s == [pc |-> "submitting", client |-> Key(r), body |-> NoBody,
                   result |-> [header |-> candidate, attempts |-> cache]]
  <2>1. Hashed(r) /\ reqs' = [reqs EXCEPT ![r] = s] /\ wire' = wire
    BY <1>9 DEF Hit
  <2>2. reqs'[r] = s /\ \A q \in Requests \ {r} : reqs'[q] = reqs[q]
    BY <1>1, <2>1
  <2>3. /\ ~Busy'
        /\ Saved' = cache /\ Saved' \in Nat /\ disk' \in Nat /\ Saved <= Saved'
        /\ (cache' # Null => cache' >= disk')
        /\ \A i \in 1..Len(results)' : results'[i].attempts <= Saved'
        /\ InOrder'
    BY <2>1, <2>2, HashedCount
  <2>4. \A i \in 1..Len(wire) : wire[i].type = "hash" => wire[i].attempts <= Saved'
    BY <1>1, <2>3, CountsAreNat DEF CountSafe
  <2>5. ASSUME NEW q \in Requests, reqs'[q].pc = "submitting"
        PROVE  reqs'[q].result.attempts <= Saved'
    <3>1. CASE q = r
      BY <2>2, <2>3, <3>1
    <3>2. CASE q # r
      <4>1. reqs'[q] = reqs[q]
        BY <2>2, <3>2
      <4>2. reqs[q].result \in Result
        BY <2>5, <4>1 DEF Typed, TypeOK, HandlersReady, ReqType
      <4>3. reqs[q].result.attempts \in Nat /\ reqs[q].result.attempts <= Saved
        BY <2>5, <4>1, <4>2 DEF CountSafe, Result
      <4> QED BY <1>1, <2>3, <4>1, <4>3
    <3> QED BY <3>1, <3>2
  <2>6. CountNeverFalls'
    BY <2>1 DEF CountSafe, CountNeverFalls
  <2> QED BY <2>1, <2>3, <2>4, <2>5, <2>6 DEF CountSafe
<1>10. CASE SubmitEnds(r)
  <2> DEFINE n == reqs[r].result.attempts
  <2>1. /\ Broadcast("hash", reqs[r].result.header, n, TRUE)
        /\ reqs' = [reqs EXCEPT ![r] = IdleReq]
        /\ reqs[r].pc = "submitting"
        /\ UNCHANGED <<disk, cache, results>>
    BY <1>10 DEF SubmitEnds
  <2>2. ~Busy /\ ~Busy'
    BY <1>1, <1>10, <2>1 DEF SubmitEnds, Quiet, Busy
  <2>3. Saved' = Saved /\ Saved = disk
    BY <2>1, <2>2 DEF Saved
  <2>4. reqs[r].result.header \in Header /\ n \in Nat /\ n <= Saved
    BY <2>1 DEF Typed, TypeOK, HandlersReady, ReqType, Result, CountSafe
  <2>5. /\ \A i \in 1..Len(wire') : wire'[i].type = "hash" => wire'[i].attempts <= Saved'
        /\ CountNeverFalls'
    <3> DEFINE m == [type |-> "hash", header |-> reqs[r].result.header, attempts |-> n, meetsTarget |-> TRUE]
    <3>1. m \in Message /\ m.type = "hash" /\ m.attempts = n /\ wire' = Append(wire, m)
      BY <1>1, <2>1, <2>3, <2>4 DEF Broadcast, Message
    <3> HIDE DEF m
    <3> QED BY <1>1, <2>1, <2>3, <2>4, <3>1, BroadcastCount
  <2>6. \A q \in Requests : reqs'[q].pc = "submitting" => reqs'[q] = reqs[q]
    BY <1>1, <2>1
  <2>7. InOrder'
    BY <2>1 DEF CountSafe, InOrder
  <2> QED BY <2>1, <2>2, <2>3, <2>5, <2>6, <2>7 DEF CountSafe
<1> QED BY <1>3, <1>4, <1>6, <1>7, <1>8, <1>9, <1>10 DEF ReqStep

\* No step that leaves the file whole breaks it.
LEMMA NextCount ==
  ASSUME ~torn', Typed, Typed', CountSafe, [Next]_vars
  PROVE  CountSafe'
<1>1. Saved \in Nat /\ reqs \in [Requests -> ReqType]
  BY SavedIsNat DEF Typed, TypeOK
<1>2. CASE NewCandidate
  <2>1. candidate' \in Header
    BY <1>2, ConstantsOK DEF NewCandidate, Typed, TypeOK, Header, Words
  <2>2. /\ ~Busy /\ ~Busy'
        /\ \A r \in Requests : reqs'[r].pc = "submitting" => reqs'[r] = reqs[r]
    BY <1>2, <2>1, SettleTyped, ConstantsOK DEF NewCandidate, Header, Words
  <2>3. /\ cache' = Loaded /\ disk' = disk /\ results' = results
        /\ Broadcast("candidate", candidate', Loaded, FALSE)
    BY <1>2 DEF NewCandidate
  <2>4. disk \in Nat /\ Saved' = Saved /\ Saved = disk /\ Loaded \in Nat /\ Loaded >= disk
    BY <2>2, <2>3, LoadedIsNat, ConstantsOK DEF CountSafe, Saved, Loaded, Typed, TypeOK
  <2>5. /\ \A i \in 1..Len(wire') : wire'[i].type = "hash" => wire'[i].attempts <= Saved'
        /\ CountNeverFalls'
    <3> DEFINE m == [type |-> "candidate", header |-> candidate', attempts |-> Loaded, meetsTarget |-> FALSE]
    <3>1. m \in Message /\ m.type = "candidate" /\ m.attempts = Loaded /\ wire' = Append(wire, m)
      BY <1>1, <2>1, <2>3, <2>4 DEF Broadcast, Message
    <3> HIDE DEF m
    <3> QED BY <1>1, <2>1, <2>3, <2>4, <3>1, BroadcastCount
  <2>6. InOrder'
    BY <2>3 DEF CountSafe, InOrder
  <2> QED BY <2>2, <2>3, <2>4, <2>5, <2>6 DEF CountSafe
<1>3. CASE NoCandidate
  <2>1. /\ ~Busy /\ ~Busy'
        /\ \A r \in Requests : reqs'[r].pc = "submitting" => reqs'[r] = reqs[r]
    BY <1>3, SettleTyped DEF NoCandidate, Typed, TypeOK
  <2>2. Saved' = Saved /\ disk' = disk /\ cache' = cache
    BY <1>3, <2>1 DEF NoCandidate, Saved
  <2> QED BY <1>1, <1>3, <2>1, <2>2, KeepCount DEF NoCandidate, CountSafe
<1>4. ASSUME NEW a \in Addresses, IntervalElapses(a)
      PROVE  CountSafe'
  BY <1>4 DEF IntervalElapses, CountSafe, Saved, Busy, InOrder, CountNeverFalls
<1>5. CASE Restart
  <2>1. ~Busy
    BY <1>5 DEF Restart
  <2>2. \A r \in Requests : reqs'[r].pc = "idle"
    BY <1>5 DEF Restart, IdleReq
  <2>3. ~Busy' /\ disk' = disk /\ cache' = Null
    BY <1>5, <2>2 DEF Restart, Busy
  <2>4. Saved' = Saved
    BY <2>1, <2>3 DEF Saved
  <2> QED BY <1>1, <1>5, <2>1, <2>2, <2>3, <2>4, KeepCount DEF Restart, CountSafe
<1>6. CASE UNCHANGED vars
  BY <1>6 DEF vars, CountSafe, Saved, Busy, InOrder, CountNeverFalls
<1> QED BY <1>2, <1>3, <1>4, <1>5, <1>6, ReqStepCount DEF Next

\* Once a write has been cut short, the counter promises nothing.
LEMMA SpecCount == Spec => [](~torn => CountSafe)
<1>1. Typed /\ Typed' /\ (~torn => CountSafe) /\ [Next]_vars => (~torn' => CountSafe')
  <2> SUFFICES ASSUME Typed, Typed', ~torn => CountSafe, [Next]_vars, ~torn' PROVE CountSafe'
    OBVIOUS
  <2>1. ~torn
    BY DEF Next, ReqStep, vars, NewCandidate, NoCandidate, IntervalElapses, Restart,
           HashRequested, TooFast, SaveThrows, SaveStarts, TakeNonce, SaveTorn,
           Miss, Hit, Hashed, SubmitEnds
  <2> QED BY <2>1, NextCount
<1> QED BY <1>1, InitCount, SpecTyped, PTL DEF Spec

\* Unless a write is cut short, no number is announced twice, over any number
\* of restarts and failed saves.
THEOREM NumbersUnique == Spec => []NumbersIncrease
BY SpecCount, PTL DEF CountSafe, NumbersIncrease

\* Unless a write is cut short, the lifetime count survives restarts.
THEOREM CountIsDurable == Spec => []CountSurvives
BY SpecCount, PTL DEF CountSafe, CountSurvives

-----------------------------------------------------------------------------
(* The headers *)

\* The nonce after the next wraps as the next does.
LEMMA NextRemainder ==
  ASSUME NEW n \in Nat \ {0}, NEW k \in Nat
  PROVE  ((k % n) + 1) % n = (k + 1) % n
<1>1. PICK q \in Int, r \in 0..(n - 1) : k = n * q + r /\ r = k % n
  <2>1. k \in Int
    OBVIOUS
  <2> QED BY <2>1, Division DEF Divided
<1>2. n * q \in Int /\ n * (q + 1) = n * q + n /\ n * 0 = 0 /\ n * 1 = n
  OBVIOUS
<1>3. k + 1 \in Nat /\ r + 1 \in Nat
  OBVIOUS
<1>4. CASE r + 1 < n
  <2>1. Divided(k + 1, n, q, r + 1) /\ Divided(r + 1, n, 0, r + 1)
    BY <1>1, <1>2, <1>4 DEF Divided
  <2>2. (k + 1) % n = r + 1
    BY <1>3, <2>1, Remainder
  <2>3. (r + 1) % n = r + 1
    BY <1>3, <2>1, Remainder
  <2> QED BY <1>1, <2>2, <2>3
<1>5. CASE r + 1 = n
  <2>1. Divided(k + 1, n, q + 1, 0) /\ Divided(r + 1, n, 1, 0)
    BY <1>1, <1>2, <1>5 DEF Divided
  <2>2. (k + 1) % n = 0
    BY <1>3, <2>1, Remainder
  <2>3. (r + 1) % n = 0
    BY <1>3, <2>1, Remainder
  <2> QED BY <1>1, <2>2, <2>3
<1> QED BY <1>4, <1>5

\* Two numbers with one remainder are at least n apart.
LEMMA SameRemainder ==
  ASSUME NEW n \in Nat \ {0}, NEW x \in Nat, NEW y \in Nat, x < y, x % n = y % n
  PROVE  x + n <= y
<1>1. PICK p \in Int, q \in Int, r \in 0..(n - 1) : x = n * p + r /\ y = n * q + r
  <2>1. x \in Int /\ y \in Int
    OBVIOUS
  <2>2. Divided(x, n, x \div n, x % n) /\ Divided(y, n, y \div n, y % n)
    BY <2>1, Division
  <2> QED BY <2>2 DEF Divided
<1>2. y - x = n * (q - p)
  <2>1. n * p \in Int /\ n * q \in Int /\ n * (q - p) = n * q - n * p
    OBVIOUS
  <2> QED BY <1>1, <2>1
<1>3. q - p > 0
  <2> SUFFICES ASSUME p - q >= 0 PROVE FALSE
    OBVIOUS
  <2>1. n * (p - q) >= 0 /\ n * (q - p) = 0 - n * (p - q)
    OBVIOUS
  <2> QED BY <1>2, <2>1
<1>4. n <= n * (q - p)
  BY <1>3, Multiple
<1> QED BY <1>2, <1>4

\* What the headers hashed so far are.
LEMMA HeadersTyped ==
  ASSUME Typed
  PROVE  \A i \in 1..Len(results) :
           /\ results[i].header.gen \in Nat /\ results[i].header.since \in Nat
           /\ results[i].header.nonce \in Nat /\ results[i].attempts \in Nat
<1>1. \A i \in 1..Len(results) : results[i] \in Result
  BY CountsAreNat
<1>2. \A x \in Result : x.header \in Header /\ x.attempts \in Nat
  BY DEF Result
<1>3. \A h \in Header : h.gen \in Nat /\ h.since \in Nat /\ h.nonce \in Nat
  BY DEF Header, Words
<1> QED BY <1>1, <1>2, <1>3

\* No header has been announced at first.
LEMMA InitFresh == Init => HeadersFresh
BY DEF Init, HeadersFresh, NoHeaderTwice

\* A step that hashes nothing and leaves the candidate and the count alone.
LEMMA KeepFresh ==
  ASSUME Typed, HeadersFresh, UNCHANGED <<results, builds, candidate, cache>>, Busy' => Busy
  PROVE  HeadersFresh'
<1>1. (\A i \in 1..Len(results) : results[i].header.gen <= builds)' /\ NoHeaderTwice'
  BY DEF HeadersFresh, NoHeaderTwice
<1>2. ASSUME candidate # Null
      PROVE  /\ (candidate.gen = builds /\ cache # Null /\ candidate.since <= cache)'
             /\ (\A i \in 1..Len(results) :
                   results[i].header.gen = builds =>
                     results[i].header.since <= cache /\ results[i].attempts <= Finished)'
             /\ (\E base \in Int : base <= cache /\ NoncesFrom(base))'
  <2>1. PICK base \in Int : base <= cache /\ NoncesFrom(base)
    BY <1>2 DEF HeadersFresh
  <2>2. candidate.gen = builds /\ cache # Null /\ cache \in Nat /\ candidate.since <= cache
    BY <1>2 DEF HeadersFresh, Typed, TypeOK
  <2>3. \A n \in Nat : n <= Finished => n <= Finished'
    BY <2>2 DEF Finished
  <2>4. (base <= cache /\ NoncesFrom(base))'
    BY <2>1 DEF NoncesFrom
  <2>5. ASSUME NEW i \in 1..Len(results), results[i].header.gen = builds
        PROVE  results[i].header.since <= cache /\ results[i].attempts <= Finished'
    BY <1>2, <2>3, <2>5, HeadersTyped DEF HeadersFresh
  <2> QED BY <2>2, <2>4, <2>5
<1> QED BY <1>1, <1>2 DEF HeadersFresh

\* The candidate takes the nonce of the next click, or the one that is posted.
LEMMA TakeNonceFresh ==
  ASSUME Typed, HeadersFresh, NEW r \in Requests, TakeNonce(r)
  PROVE  HeadersFresh'
<1> USE ConstantsOK
<1>1. /\ candidate \in Header /\ candidate # Null /\ reqs[r].body \in Body
      /\ candidate.gen \in Nat /\ candidate.since \in Nat /\ candidate.nonce \in Nat
  BY DEF TakeNonce, Typed, TypeOK, HandlersReady, ReqType, Header, Words
<1>2. reqs[r].body.nonce \in Int \cup {Null}
  BY <1>1 DEF Body, NoBody
<1>3. cache \in Nat /\ cache # Null /\ Loaded = cache /\ candidate.since <= cache
  BY <1>1 DEF HeadersFresh, Typed, TypeOK, Loaded
<1>4. /\ cache' = cache + 1 /\ UNCHANGED <<results, builds>>
      /\ cache' # Null /\ ~Busy
  BY <1>3 DEF TakeNonce
<1>5. /\ candidate'.gen = builds'
      /\ candidate'.since = IF reqs[r].body.nonce # Null THEN cache + 1 ELSE candidate.since
      /\ candidate'.nonce = Uint32(IF reqs[r].body.nonce # Null THEN reqs[r].body.nonce
                                   ELSE candidate.nonce + 1)
  BY <1>1, <1>3, <1>4 DEF HeadersFresh, TakeNonce, NextHeader
<1>6. Finished = cache /\ Finished' \in Nat /\ cache <= Finished'
  BY <1>3, <1>4 DEF Finished
<1>7. ASSUME NEW i \in 1..Len(results), results[i].header.gen = builds
      PROVE  /\ results[i].header.since \in Nat /\ results[i].header.since <= cache
             /\ results[i].attempts \in Nat /\ results[i].attempts <= cache
  BY <1>1, <1>6, <1>7, HeadersTyped DEF HeadersFresh
<1>8. candidate'.since <= cache'
  BY <1>1, <1>3, <1>4, <1>5
<1>9. ASSUME NEW i \in 1..Len(results), results[i].header.gen = builds
      PROVE  results[i].header.since <= cache' /\ results[i].attempts <= Finished'
  BY <1>3, <1>4, <1>6, <1>7, <1>9
<1>10. \E base \in Int : base <= cache' /\ NoncesFrom(base)'
  <2>1. CASE reqs[r].body.nonce = Null
    <3>1. PICK base \in Int : base <= cache /\ NoncesFrom(base)
      BY <1>1 DEF HeadersFresh
    <3>2. PICK k \in Nat : k = cache - base
      BY <1>3, <3>1
    <3>3. cache' - base = k + 1 /\ base <= cache'
      BY <1>3, <1>4, <3>1, <3>2
    <3>4. candidate.nonce = k % NonceMod
      BY <3>1, <3>2 DEF NoncesFrom
    <3>5. candidate'.nonce = (candidate.nonce + 1) % NonceMod /\ candidate'.since = candidate.since
      BY <1>5, <2>1 DEF Uint32
    <3>6. candidate'.nonce = (cache' - base) % NonceMod
      BY <3>2, <3>3, <3>4, <3>5, NextRemainder
    <3>7. NoncesFrom(base)'
      BY <1>4, <3>1, <3>5, <3>6 DEF NoncesFrom
    <3> QED BY <3>3, <3>7
  <2>2. CASE reqs[r].body.nonce # Null
    <3>1. PICK w : w = candidate'.nonce
      OBVIOUS
    <3>2. w \in Words /\ w \in Nat /\ candidate'.since = cache + 1
      BY <1>2, <1>5, <2>2, <3>1, Uint32IsWord DEF Words
    <3>3. PICK base \in Int : base = cache + 1 - w
      BY <1>3, <3>2
    <3>4. cache' - base = w /\ base <= cache'
      BY <1>3, <1>4, <3>2, <3>3
    <3>5. w % NonceMod = w
      BY <3>2 DEF Words
    <3>6. \A i \in 1..Len(results) :
            results[i].header.gen = builds => results[i].header.since # candidate'.since
      BY <1>3, <1>7, <3>2
    <3>7. NoncesFrom(base)'
      BY <1>4, <3>1, <3>4, <3>5, <3>6 DEF NoncesFrom
    <3> QED BY <3>4, <3>7
  <2> QED BY <2>1, <2>2
<1>11. (\A i \in 1..Len(results) : results[i].header.gen <= builds)' /\ NoHeaderTwice'
  BY <1>4 DEF HeadersFresh, NoHeaderTwice
<1> QED BY <1>4, <1>5, <1>8, <1>9, <1>10, <1>11 DEF HeadersFresh

\* The live header is hashed: where its nonce was hashed before on the same
\* candidate and none was posted in between, it has wrapped.
LEMMA HashedFresh ==
  ASSUME Typed, HeadersFresh, NEW r \in Requests, Hashed(r), ~Busy'
  PROVE  HeadersFresh'
<1> DEFINE e == [header |-> candidate, attempts |-> cache]
<1>1. /\ Busy /\ candidate \in Header /\ candidate # Null /\ results \in Seq(Result)
      /\ candidate.gen \in Nat /\ candidate.since \in Nat /\ candidate.nonce \in Nat
      /\ cache \in Nat /\ e \in Result
  <2>1. /\ Busy /\ candidate \in Header /\ candidate # Null /\ results \in Seq(Result)
        /\ cache \in Nat
    BY DEF Hashed, Busy, Typed, TypeOK, HandlersReady
  <2>2. candidate.gen \in Nat /\ candidate.since \in Nat /\ candidate.nonce \in Nat
    BY <2>1 DEF Header, Words
  <2> QED BY <2>1, <2>2 DEF Result
<1>2. results' = Append(results, e) /\ UNCHANGED <<cache, candidate, builds>>
  BY DEF Hashed
<1>3. /\ candidate.gen = builds /\ cache # Null /\ candidate.since <= cache
      /\ \A i \in 1..Len(results) : results[i].header.gen <= builds
      /\ NoHeaderTwice
  BY <1>1 DEF HeadersFresh
<1>4. e.header = candidate /\ e.attempts = cache
  OBVIOUS
<1> HIDE DEF e
<1>5. /\ Len(results) \in Nat
      /\ Len(results') = Len(results) + 1
      /\ \A i \in 1..Len(results) : results'[i] = results[i]
      /\ results'[Len(results) + 1] = e
  BY <1>1, <1>2, AppendIs
<1>6. Finished = cache - 1 /\ Finished' = cache
  BY <1>1, <1>2 DEF Finished
<1>7. PICK base \in Int : base <= cache /\ NoncesFrom(base)
  BY <1>1 DEF HeadersFresh
<1>8. ASSUME NEW i \in 1..Len(results), results[i].header.gen = builds
      PROVE  /\ results[i].header.since <= cache
             /\ results[i].attempts \in Nat /\ results[i].attempts < cache
             /\ results[i].header.since = candidate.since =>
                  /\ results[i].header.nonce = (results[i].attempts - base) % NonceMod
                  /\ base <= results[i].attempts
  <2>1. results[i].attempts \in Nat
    BY HeadersTyped
  <2>2. results[i].header.since <= cache /\ results[i].attempts <= cache - 1
    BY <1>1, <1>6, <1>8 DEF HeadersFresh
  <2> QED BY <1>1, <1>7, <1>8, <2>1, <2>2 DEF NoncesFrom
<1>9. candidate.nonce = (cache - base) % NonceMod
  BY <1>7 DEF NoncesFrom
<1>10. ASSUME NEW i \in 1..Len(results')
       PROVE  /\ results'[i].header.gen <= builds
              /\ results'[i].header.gen = builds =>
                   results'[i].header.since <= cache /\ results'[i].attempts <= cache
              /\ results'[i].header.gen = builds /\ results'[i].header.since = candidate.since =>
                   /\ results'[i].header.nonce = (results'[i].attempts - base) % NonceMod
                   /\ base <= results'[i].attempts
  <2>1. CASE i \in 1..Len(results)
    <3>1. results'[i] = results[i] /\ results[i].header.gen <= builds
      BY <1>3, <1>5, <2>1
    <3>2. CASE results[i].header.gen = builds
      BY <1>1, <1>8, <2>1, <3>1, <3>2
    <3> QED BY <3>1, <3>2
  <2>2. CASE i = Len(results) + 1
    <3>1. results'[i].header = candidate /\ results'[i].attempts = cache
      BY <1>4, <1>5, <2>2
    <3> QED BY <1>1, <1>3, <1>7, <1>9, <3>1
  <2> QED BY <1>5, <2>1, <2>2
<1>11. (base <= cache /\ NoncesFrom(base))'
  BY <1>2, <1>7, <1>9, <1>10 DEF NoncesFrom
<1>12. ASSUME NEW i \in 1..Len(results), results[i].header = candidate
       PROVE  results[i].attempts + NonceMod <= cache
  <2>1. /\ results[i].header.nonce = (results[i].attempts - base) % NonceMod
        /\ results[i].attempts \in Nat
        /\ base <= results[i].attempts /\ results[i].attempts < cache
    BY <1>3, <1>8, <1>12
  <2>2. PICK a \in Nat : a = results[i].attempts
    BY <2>1
  <2>3. PICK x \in Nat, y \in Nat : x = a - base /\ y = cache - base
    BY <1>1, <1>7, <2>1, <2>2
  <2>4. x < y
    BY <1>1, <2>1, <2>2, <2>3
  <2>5. x % NonceMod = y % NonceMod
    BY <1>9, <1>12, <2>1, <2>2, <2>3
  <2>6. x + NonceMod <= y /\ NonceMod \in Nat
    <3>1. NonceMod \in Nat \ {0}
      BY ConstantsOK
    <3> QED BY <2>4, <2>5, <3>1, SameRemainder
  <2>7. a = x + base /\ cache = y + base
    BY <1>1, <2>3
  <2>8. a + NonceMod <= cache
    BY <2>6, <2>7
  <2> QED BY <2>2, <2>8
<1>13. ASSUME NEW i \in 1..Len(results'), NEW j \in 1..Len(results'), i < j,
              results'[i].header = results'[j].header
       PROVE  results'[i].attempts + NonceMod <= results'[j].attempts
  <2>1. i \in 1..Len(results) /\ (j \in 1..Len(results) \/ j = Len(results) + 1)
    BY <1>5, <1>13
  <2>2. CASE j \in 1..Len(results)
    BY <1>3, <1>5, <1>13, <2>1, <2>2 DEF NoHeaderTwice
  <2>3. CASE j = Len(results) + 1
    BY <1>4, <1>5, <1>12, <1>13, <2>1, <2>3
  <2> QED BY <2>1, <2>2, <2>3
<1>14. NoHeaderTwice'
  BY <1>13 DEF NoHeaderTwice
<1>15. /\ (\A i \in 1..Len(results) : results[i].header.gen <= builds)'
       /\ (\A i \in 1..Len(results) :
             results[i].header.gen = builds =>
               results[i].header.since <= cache /\ results[i].attempts <= Finished)'
  BY <1>2, <1>6, <1>10
<1>16. (\E b \in Int : b <= cache /\ NoncesFrom(b))'
  BY <1>11
<1> QED BY <1>2, <1>3, <1>14, <1>15, <1>16 DEF HeadersFresh

\* Every step keeps HeadersFresh.
LEMMA NextFresh ==
  ASSUME Typed, Typed', HeadersFresh, [Next]_vars
  PROVE  HeadersFresh'
<1>1. reqs \in [Requests -> ReqType] /\ IdleReq.pc = "idle"
  BY DEF Typed, TypeOK, IdleReq
<1>2. ASSUME NEW r \in Requests, ReqStep(r)
      PROVE  HeadersFresh'
  <2>1. ASSUME NEW s, s.pc # "saving", reqs' = [reqs EXCEPT ![r] = s],
               UNCHANGED <<cache, candidate, builds, results>>
        PROVE  HeadersFresh'
    <3>1. Busy' => Busy
      BY <1>1, <2>1 DEF Busy
    <3> QED BY <2>1, <3>1, KeepFresh
  <2>2. ASSUME NEW a \in Addresses, NEW body \in Bodies, HashRequested(r, a, body)
        PROVE  HeadersFresh'
    <3> DEFINE s == [pc |-> IF candidate = Null THEN "awaiting" ELSE "resumed",
                     client |-> a, body |-> body, result |-> Null]
    <3>1. s.pc # "saving" /\ reqs' = [reqs EXCEPT ![r] = s]
      BY <2>2 DEF HashRequested
    <3> QED BY <2>1, <2>2, <3>1 DEF HashRequested
  <2>3. CASE TooFast(r) \/ SaveTorn(r) \/ SubmitEnds(r)
    BY <1>1, <2>1, <2>3 DEF TooFast, SaveTorn, SubmitEnds
  <2>5. CASE SaveThrows(r) \/ SaveStarts(r)
    BY <2>5, TakeNonceFresh DEF SaveThrows, SaveStarts
  <2>6. CASE Miss(r) \/ Hit(r)
    <3>1. PICK s : reqs' = [reqs EXCEPT ![r] = s] /\ s.pc # "saving"
      <4>1. CASE Miss(r)
        BY <1>1, <4>1 DEF Miss
      <4>2. CASE Hit(r)
        <5> DEFINE t == [pc |-> "submitting", client |-> Key(r), body |-> NoBody,
                         result |-> [header |-> candidate, attempts |-> cache]]
        <5>1. reqs' = [reqs EXCEPT ![r] = t] /\ t.pc # "saving"
          BY <4>2 DEF Hit
        <5> QED BY <5>1
      <4> QED BY <2>6, <4>1, <4>2
    <3>2. /\ Hashed(r) /\ reqs[r].pc = "saving"
          /\ reqs'[r].pc # "saving" /\ \A q \in Requests \ {r} : reqs'[q] = reqs[q]
      BY <1>1, <2>6, <3>1 DEF Miss, Hit, Hashed
    <3>3. ~Busy'
      BY <3>2 DEF Busy, Typed, HandlersReady
    <3> QED BY <3>2, <3>3, HashedFresh
  <2> QED BY <1>2, <2>2, <2>3, <2>5, <2>6 DEF ReqStep
<1>3. CASE NewCandidate
  <2>1. /\ builds' = builds + 1 /\ results' = results
        /\ candidate' = [gen |-> builds + 1, since |-> 0, nonce |-> 0, time |-> 0]
        /\ cache' = Loaded /\ cache' \in Nat /\ cache' # Null /\ builds \in Nat
    BY <1>3, LoadedIsNat, ConstantsOK DEF NewCandidate, Typed, TypeOK
  <2>2. \A i \in 1..Len(results) : results[i].header.gen \in Nat /\ results[i].header.gen <= builds
    BY HeadersTyped DEF HeadersFresh
  <2>3. NoHeaderTwice'
    BY <2>1 DEF HeadersFresh, NoHeaderTwice
  <2>4. ~Busy'
    <3>1. candidate' \in Header /\ candidate' # Null
      BY <1>3, ConstantsOK DEF NewCandidate, Typed, TypeOK, Header, Words
    <3> QED BY <1>3, <3>1, SettleTyped DEF NewCandidate
  <2>5. (cache' - cache') % NonceMod = 0 /\ 0 <= cache'
    BY <2>1, ConstantsOK
  <2>6. ASSUME NEW i \in 1..Len(results')
        PROVE  results'[i].header.gen < builds'
    BY <2>1, <2>2
  <2>7. candidate'.nonce = 0 /\ candidate'.gen = builds' /\ candidate'.since = 0
    BY <2>1
  <2>8. \E base \in Int : base <= cache' /\ NoncesFrom(base)'
    <3>1. PICK base \in Int : base = cache'
      BY <2>1
    <3>2. NoncesFrom(base)' /\ base <= cache'
      BY <2>1, <2>5, <2>6, <2>7, <3>1 DEF NoncesFrom
    <3> QED BY <3>2
  <2>9. /\ (\A i \in 1..Len(results) : results[i].header.gen <= builds)'
        /\ (\A i \in 1..Len(results) : results[i].header.gen # builds)'
    BY <2>1, <2>2
  <2> QED BY <2>1, <2>3, <2>5, <2>7, <2>8, <2>9 DEF HeadersFresh
<1>4. CASE NoCandidate
  <2>1. ~Busy'
    BY <1>4, SettleTyped DEF NoCandidate, Typed, TypeOK
  <2> QED BY <1>4, <2>1, KeepFresh DEF NoCandidate
<1>5. ASSUME NEW a \in Addresses, IntervalElapses(a)
      PROVE  HeadersFresh'
  BY <1>5, KeepFresh DEF IntervalElapses, Busy
<1>6. CASE Restart
  BY <1>6 DEF Restart, HeadersFresh, NoHeaderTwice
<1>7. CASE UNCHANGED vars
  BY <1>7, KeepFresh DEF vars, Busy
<1> QED BY <1>2, <1>3, <1>4, <1>5, <1>6, <1>7 DEF Next

\* Unless a nonce was posted in between, two clicks hash the same header only when
\* 2^32 others lie between them, whatever is posted before, whatever fails and
\* however often the server restarts.
THEOREM HeadersUnique == Spec => []NoHeaderTwice
<1>1. Typed /\ Typed' /\ HeadersFresh /\ [Next]_vars => HeadersFresh'
  BY NextFresh
<1>2. HeadersFresh => NoHeaderTwice
  BY DEF HeadersFresh
<1> QED BY <1>1, <1>2, InitFresh, SpecTyped, PTL DEF Spec

=============================================================================
