------------------------------ MODULE Hashing ------------------------------
(***************************************************************************)
(* POST /api/hash: handleHash() and checkHashRate() of server/index.js on  *)
(* the shared candidate, and the lifetime counter of server/stats.js with  *)
(* its cache in memory and its file on disk.                               *)
(*                                                                         *)
(* A step is the code between two awaits, with one exception:              *)
(* writeFileSync() truncates stats.json before it writes it, and the       *)
(* process may end in between, so the save takes two steps.  No other code *)
(* runs between them: Busy says that the thread is inside the write.       *)
(* Builds are seen as Candidate.tla shows them to a handler: a new         *)
(* candidate resumes everyone who waits, a failure fails them.             *)
(***************************************************************************)
EXTENDS Integers, Sequences

CONSTANTS
  Requests,     \* slots of concurrent handlers of POST /api/hash
  Addresses,    \* req.socket.remoteAddress, of one tab or of many
  NonceMod,     \* 2^32: what `>>> 0` reduces the nonce and the time by
  Bodies,       \* what may be posted: a nonce and a time, each any integer
  Null,         \* JavaScript null; in a body, also whatever Number.isInteger()
                \* refuses: a field that is absent, a fraction or a string
  Torn,         \* stats.json is not valid JSON
  MaxHashes,    \* bound: the highest value of the counter
  MaxGen        \* bound: how many candidates are built

ASSUME ConstantsOK ==
  /\ NonceMod \in Nat \ {0}
  /\ Bodies \subseteq [nonce : Int \cup {Null}, time : Int \cup {Null}]
  /\ MaxHashes \in Nat
  /\ MaxGen \in Nat
  /\ Null \notin Int /\ Null \notin Addresses
  /\ LET word   == 0..(NonceMod - 1)
         header == [gen : Nat, since : Nat, nonce : word, time : word]
     IN  Null \notin header /\ Null \notin [header : header, attempts : Nat]
  /\ Torn \notin Nat

VARIABLES
  disk,       \* what stats.json holds: a count, or Torn
  torn,       \* history: a write has ended, by an error or by the end of the
              \* process, after the file was truncated
  cache,      \* cache.totalHashes, or Null before the first load()
  candidate,  \* the header fields of the live candidate, or Null
  builds,     \* how many candidates were built; the last one's number
  recent,     \* lastHashByClient: the addresses whose last hash is less than
              \* MIN_HASH_INTERVAL_MS old
  reqs,       \* the handlers
  wire,       \* everything broadcast() has sent, in order
  results     \* history: the hashes computed, in order, across restarts

vars == <<disk, torn, cache, candidate, builds, recent, reqs, wire, results>>

-----------------------------------------------------------------------------

\* Unsigned 32-bit words.
Words == 0..(NonceMod - 1)

\* The fields of the header a handler can tell apart: gen stands for the
\* template, the coinbase and the merkle root of one build.  History: since is
\* the number of the last click that posted a nonce for it, or 0.
Header == [gen : Nat, since : Nat, nonce : Words, time : Words]

\* What a hash is announced with.
Result == [header : Header, attempts : Nat]

Message == [type : {"candidate", "hash"}, header : Header, attempts : Nat, meetsTarget : BOOLEAN]

NoBody == [nonce |-> Null, time |-> Null]

Body == Bodies \cup {NoBody}

\* "saving" is inside writeFileSync(); "submitting" awaits submitBlock() with
\* the result and the block already assembled.
ReqType == [pc     : {"idle", "awaiting", "resumed", "saving", "submitting"},
            client : Addresses \cup {Null},
            body   : Body,
            result : Result \cup {Null}]

TypeOK ==
  /\ disk \in Nat \cup {Torn}
  /\ torn \in BOOLEAN
  /\ cache \in Nat \cup {Null}
  /\ candidate \in Header \cup {Null}
  /\ builds \in Nat
  /\ recent \subseteq Addresses
  /\ reqs \in [Requests -> ReqType]
  /\ wire \in Seq(Message)
  /\ results \in Seq(Result)

IdleReq == [pc |-> "idle", client |-> Null, body |-> NoBody, result |-> Null]

\* An absent stats.json counts as zero.
Init ==
  /\ disk = 0
  /\ torn = FALSE
  /\ cache = Null
  /\ candidate = Null
  /\ builds = 0
  /\ recent = {}
  /\ reqs = [r \in Requests |-> IdleReq]
  /\ wire = <<>>
  /\ results = <<>>

-----------------------------------------------------------------------------
(* server/stats.js *)

\* Mutant of Loaded: the file is not read after a restart.
LoadedFromCache == IF cache # Null THEN cache ELSE 0

\* load(): the cache, or what the file holds; an unreadable file is a zero.
Loaded ==
  IF cache # Null THEN cache ELSE IF disk = Torn THEN 0 ELSE disk

\* The thread is inside writeFileSync().
Busy == \E r \in Requests : reqs[r].pc = "saving"

\* The microtask queue is empty and no code runs: the event loop may go on.
Quiet == \A r \in Requests : reqs[r].pc \notin {"resumed", "saving"}

Broadcast(type, header, attempts, won) ==
  wire' = Append(wire, [type |-> type, header |-> header,
                        attempts |-> attempts, meetsTarget |-> won])

-----------------------------------------------------------------------------
(* The shared candidate *)

\* What an awaiting handler becomes when the build settles.
Settle(outcome) ==
  reqs' = [r \in Requests |->
             IF reqs[r].pc # "awaiting" THEN reqs[r]
             ELSE IF outcome = "failed" THEN IdleReq
             ELSE [reqs[r] EXCEPT !.pc = "resumed"]]

\* buildCandidate() publishes: nonce 0, the template's curtime, and a
\* broadcast with the lifetime count, which formatCandidate() loads.
NewCandidate ==
  /\ Quiet
  /\ builds < MaxGen
  /\ builds' = builds + 1
  /\ candidate' = [gen |-> builds + 1, since |-> 0, nonce |-> 0, time |-> 0]
  /\ cache' = Loaded
  /\ Broadcast("candidate", candidate', Loaded, FALSE)
  /\ Settle("resumed")
  /\ UNCHANGED <<disk, torn, recent, results>>

\* The build fails: every handler that waits answers with the error.
NoCandidate ==
  /\ Quiet
  /\ \E r \in Requests : reqs[r].pc = "awaiting"
  /\ Settle("failed")
  /\ UNCHANGED <<disk, torn, cache, candidate, builds, recent, wire, results>>

-----------------------------------------------------------------------------
(* handleHash() *)

\* The request arrives; `await getOrCreateCandidate()` suspends the handler.
HashRequested(r, a, body) ==
  /\ Quiet
  /\ reqs[r].pc = "idle"
  /\ reqs' = [reqs EXCEPT ![r] =
                [pc |-> IF candidate = Null THEN "awaiting" ELSE "resumed",
                 client |-> a, body |-> body, result |-> Null]]
  /\ UNCHANGED <<disk, torn, cache, candidate, builds, recent, wire, results>>

\* The key of lastHashByClient.
Key(r) == reqs[r].client

\* checkHashRate() throws, a hash of this address being too recent: 429.
TooFast(r) ==
  /\ reqs[r].pc = "resumed" /\ ~Busy
  /\ Key(r) \in recent
  /\ reqs' = [reqs EXCEPT ![r] = IdleReq]
  /\ UNCHANGED <<disk, torn, cache, candidate, builds, recent, wire, results>>

\* Mutant of NextHeader: `>>> 0` is dropped.
NextHeaderUnbounded(body) ==
  [gen   |-> candidate.gen,
   since |-> IF body.nonce # Null THEN Loaded + 1 ELSE candidate.since,
   nonce |-> IF body.nonce # Null THEN body.nonce ELSE candidate.nonce + 1,
   time  |-> IF body.time # Null THEN body.time ELSE candidate.time]

\* `n >>> 0` of an integer, whatever its sign and size.
Uint32(n) == n % NonceMod

\* The candidate with the nonce and the time of the body, or the next nonce.
NextHeader(body) ==
  [gen   |-> candidate.gen,
   since |-> IF body.nonce # Null THEN Loaded + 1 ELSE candidate.since,
   nonce |-> Uint32(IF body.nonce # Null THEN body.nonce ELSE candidate.nonce + 1),
   time  |-> IF body.time # Null THEN Uint32(body.time) ELSE candidate.time]

\* Mutant of TakeNonce: the save is awaited, and another handler may run.
TakeNonceAwaited(r) ==
  /\ reqs[r].pc = "resumed"
  /\ Key(r) \notin recent
  /\ Loaded < MaxHashes
  /\ recent' = recent \cup {Key(r)}
  /\ candidate' = NextHeader(reqs[r].body)
  /\ cache' = Loaded + 1
  /\ UNCHANGED <<torn, builds, wire, results>>

\* checkHashRate() passes and the shared candidate takes the new nonce; then
\* incrementHashes() counts in memory and starts to save.
TakeNonce(r) ==
  /\ reqs[r].pc = "resumed" /\ ~Busy
  /\ Key(r) \notin recent
  /\ Loaded < MaxHashes
  /\ recent' = recent \cup {Key(r)}
  /\ candidate' = NextHeader(reqs[r].body)
  /\ cache' = Loaded + 1
  /\ UNCHANGED <<torn, builds, wire, results>>

\* The directory or the file cannot be opened: save() throws and the request
\* fails, with the nonce and the count in memory already taken.
SaveThrows(r) ==
  /\ TakeNonce(r)
  /\ reqs' = [reqs EXCEPT ![r] = IdleReq]
  /\ UNCHANGED disk

\* The file is truncated; the new count is not in it yet.
SaveStarts(r) ==
  /\ TakeNonce(r)
  /\ disk' = Torn
  /\ reqs' = [reqs EXCEPT ![r].pc = "saving"]

\* The write fails, the disk being full: the file stays truncated.
SaveTorn(r) ==
  /\ reqs[r].pc = "saving"
  /\ torn' = TRUE
  /\ reqs' = [reqs EXCEPT ![r] = IdleReq]
  /\ UNCHANGED <<disk, cache, candidate, builds, recent, wire, results>>

\* Mutant of Hashed: save() before `cache.totalHashes += 1`.
HashedSavedEarly(r) ==
  /\ reqs[r].pc = "saving"
  /\ disk' = cache - 1
  /\ results' = Append(results, [header |-> candidate, attempts |-> cache])
  /\ UNCHANGED <<torn, cache, candidate, builds, recent>>

\* The count is on disk and the header is hashed.
Hashed(r) ==
  /\ reqs[r].pc = "saving"
  /\ disk' = cache
  /\ results' = Append(results, [header |-> candidate, attempts |-> cache])
  /\ UNCHANGED <<torn, cache, candidate, builds, recent>>

\* The hash misses the target: it is broadcast and returned at once.
Miss(r) ==
  /\ Hashed(r)
  /\ Broadcast("hash", candidate, cache, FALSE)
  /\ reqs' = [reqs EXCEPT ![r] = IdleReq]

\* The hash meets the target: the block is assembled and submitted, and the
\* result waits for the node's answer.
Hit(r) ==
  /\ Hashed(r)
  /\ reqs' = [reqs EXCEPT ![r] =
                [pc |-> "submitting", client |-> Key(r), body |-> NoBody,
                 result |-> [header |-> candidate, attempts |-> cache]]]
  /\ UNCHANGED wire

\* submitBlock() settles, accepted, rejected or failed, and the result is
\* broadcast.
SubmitEnds(r) ==
  /\ Quiet
  /\ reqs[r].pc = "submitting"
  /\ Broadcast("hash", reqs[r].result.header, reqs[r].result.attempts, TRUE)
  /\ reqs' = [reqs EXCEPT ![r] = IdleReq]
  /\ UNCHANGED <<disk, torn, cache, candidate, builds, recent, results>>

-----------------------------------------------------------------------------

\* MIN_HASH_INTERVAL_MS have passed since the last hash of address a.
IntervalElapses(a) ==
  /\ a \in recent
  /\ recent' = recent \ {a}
  /\ UNCHANGED <<disk, torn, cache, candidate, builds, reqs, wire, results>>

\* The process ends, by a crash or by a container restart, and starts again:
\* only stats.json is left.
Restart ==
  /\ torn' = (torn \/ Busy)
  /\ cache' = Null
  /\ candidate' = Null
  /\ recent' = {}
  /\ reqs' = [r \in Requests |-> IdleReq]
  /\ UNCHANGED <<disk, builds, wire, results>>

ReqStep(r) ==
  \/ \E a \in Addresses, body \in Bodies : HashRequested(r, a, body)
  \/ TooFast(r)
  \/ SaveThrows(r) \/ SaveStarts(r) \/ SaveTorn(r)
  \/ Miss(r) \/ Hit(r) \/ SubmitEnds(r)

Next ==
  \/ \E r \in Requests : ReqStep(r)
  \/ NewCandidate
  \/ NoCandidate
  \/ \E a \in Addresses : IntervalElapses(a)
  \/ Restart

Spec == Init /\ [][Next]_vars

-----------------------------------------------------------------------------
(* Properties *)

\* Every hash has a higher number than all hashes made before it.
InOrder ==
  \A i, j \in 1..Len(results) : i < j => results[i].attempts < results[j].attempts

\* stats.js:1-6: the count does not reset: what is shown with a candidate,
\* before or after a restart, is at least the number of every hash announced
\* before it.
CountNeverFalls ==
  \A i, j \in 1..Len(wire) :
    i < j /\ wire[i].type = "hash" /\ wire[j].type = "candidate"
      => wire[i].attempts <= wire[j].attempts

\* Unless a write is cut short, the lifetime counter never announces the same
\* number twice, and numbers the hashes in the order they are made, across any
\* number of restarts, and although a failed save leaves the count in memory
\* ahead of the file (stats.js:37-42; app.js:451-454 uses the numbers as keys).
NumbersIncrease == ~torn => InOrder

\* Unless a write is cut short, the count survives restarts (stats.js:1-6).
CountSurvives == ~torn => CountNeverFalls

\* Unless a nonce was posted in between, a header is hashed again only after the
\* nonce has wrapped, 2^32 clicks later: concurrent clicks, failed saves, new
\* candidates and restarts never make two clicks share one (index.js:310-315).
NoHeaderTwice ==
  \A i, j \in 1..Len(results) :
    i < j /\ results[i].header = results[j].header
      => results[i].attempts + NonceMod <= results[j].attempts

\* x and y are the same word: they differ by a multiple of 2^32.
SameWord(x, y) == (x - y) % NonceMod = 0

\* A click hashes the nonce and the time that its own body names, as 32-bit
\* words, on the candidate that is live when it is counted: no other handler,
\* build or broadcast comes between taking them from the body and hashing the
\* shared candidate, although every handler writes them there (index.js:310-321).
HashesOwnBody ==
  \A r \in Requests :
    reqs[r].pc = "saving" =>
      /\ candidate.gen = builds
      /\ reqs[r].body.nonce # Null => SameWord(candidate.nonce, reqs[r].body.nonce)
      /\ reqs[r].body.time # Null => SameWord(candidate.time, reqs[r].body.time)

-----------------------------------------------------------------------------
(* The inductive invariants behind them *)

\* A handler that runs has what its code reads, and only one is in the write.
HandlersReady ==
  /\ \A r \in Requests :
       /\ reqs[r].pc # "idle" => reqs[r].client \in Addresses
       /\ reqs[r].pc = "resumed" => candidate # Null
       /\ reqs[r].pc = "saving" => candidate # Null /\ cache # Null /\ cache # 0
       /\ reqs[r].pc = "submitting" => reqs[r].result # Null
  /\ \A q, r \in Requests : reqs[q].pc = "saving" /\ reqs[r].pc = "saving" => q = r

\* The count that the file holds, or held before the write that is going on
\* and, in that case, one less than what it will hold.
Saved == IF Busy THEN cache - 1 ELSE disk

\* While writes are whole, everything announced is covered by the file.
CountSafe ==
  /\ ~Busy => disk \in Nat /\ (cache # Null => cache >= disk)
  /\ \A i \in 1..Len(results) : results[i].attempts <= Saved
  /\ \A i \in 1..Len(wire) : wire[i].type = "hash" => wire[i].attempts <= Saved
  /\ \A r \in Requests : reqs[r].pc = "submitting" => reqs[r].result.attempts <= Saved
  /\ InOrder
  /\ CountNeverFalls

\* The number of the last click whose header is hashed.
Finished == IF Busy THEN cache - 1 ELSE cache

\* The nonces of the live candidate and of the hashes made on it since a nonce was
\* last posted count, modulo 2^32, the clicks from base on.
NoncesFrom(base) ==
  /\ candidate.nonce = (cache - base) % NonceMod
  /\ \A i \in 1..Len(results) :
       results[i].header.gen = builds /\ results[i].header.since = candidate.since =>
         /\ results[i].header.nonce = (results[i].attempts - base) % NonceMod
         /\ base <= results[i].attempts

\* There is such a count for every live candidate, whatever was posted before.
HeadersFresh ==
  /\ \A i \in 1..Len(results) : results[i].header.gen <= builds
  /\ candidate # Null =>
       /\ candidate.gen = builds
       /\ cache # Null
       /\ candidate.since <= cache
       /\ \A i \in 1..Len(results) :
            results[i].header.gen = builds =>
              results[i].header.since <= cache /\ results[i].attempts <= Finished
       /\ \E base \in Int : base <= cache /\ NoncesFrom(base)
  /\ NoHeaderTwice
=============================================================================
