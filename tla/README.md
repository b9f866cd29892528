# Click Miner: formal models and proofs

TLA+ models of the parts of Click Miner where order, failure and shared state
matter, the TLC runs that check them on small instances, and TLAPS proofs of
their safety properties for every value of the constants.

Paths below are relative to the repository. `app.js` and
`qrcode.js` are in `public/`, all other scripts in `server/`.

## The system

Click Miner is one Node.js process and any number of browser tabs. The process
holds one mining candidate, built from a `getblocktemplate` answer of the
user's bitcoind. A click in any tab hashes that candidate's header once, with
the next nonce. Results and new candidates go to every tab over a WebSocket. A
count of all hashes ever made is kept on disk.

Node runs one callback at a time. What makes the code hard is what may happen
between two of them: every `await` of an RPC call lets other requests, polls
and timers run, and the module-level variables they all share may have changed
when the handler continues.

| Part | State | Operations | Talks to | Hard behaviour | What makes it correct |
|---|---|---|---|---|---|
| Mining candidate (index.js:137-222) | `candidate`, `inFlightBuild`, `lastBuildAt` | `buildCandidate`, `buildCandidateShared`, `requestRefresh`, `getOrCreateCandidate` | RPC client, settings, tabs | concurrent callers of one build, a failing build, late answers, cooldown | one build at a time; no waiter is forgotten; never null when read; heights do not go back |
| Status poll (index.js:550-575) | `lastKnownHeight` | `pollStatus`, `computeStatus` | RPC client, candidate | overlapping polls, joining a build that is under way, failing rebuilds | a superseded candidate is replaced |
| Hash endpoint (index.js:279-345) | the candidate's nonce and time, `lastHashByClient` | `handleHash`, `checkHashRate` | candidate, counter, RPC client, tabs | concurrent clicks on one nonce, a failing save in the middle, a result that waits for `submitblock` | no header hashed twice before the nonce wraps; a click hashes what its body names |
| Lifetime counter (stats.js) | `cache`, `stats.json` | `load`, `save`, `getStats`, `incrementHashes` | file system | crash, torn write, restart | numbers unique and increasing; the count survives |
| RPC client (rpc.js) | a Tor agent | `rpcCall` and its three callers | bitcoind, settings | timeout, closed connection, malformed answer, settings that nobody validated | a call goes only where it may, is carried out at most once, and its answer is the node's |
| Settings (settings.js) | `config.json`, environment | `getSettings`, `saveSettings`, `tighten` | address decoding, network guard | torn write, layering of three sources, saves of a partial body | what is written is valid; a save changes what was edited |
| WebSocket fan-out (index.js:120-129, 532-548) | `wsClients` | `broadcast`, initial sync | tabs | a tab that connects in the middle | a tab ends with the last state |
| Browser tab (app.js) | `candidate`, `lastAppliedAttempts`, the nonce field, `currentWs`, reconnect timers, the settings form | `applyCandidate`, `applyHashResult`, `mineOnce`, reconnect, visibility handler, save | server | the same result twice, HTTP and WebSocket out of order, sockets that die silently | it ends with the last state; it always reconnects; it posts what the user typed and nothing else |
| Encodings (coinbase.js, header.js, hash.js, address.js) | none | pure functions | node, page | boundaries of lengths and widths, byte orders | a node reads what was meant |
| Network guard (net-guard.js, index.js:63-112) | none | pure predicates | HTTP, WebSocket, RPC client | boundaries of ranges, hosts and origins | agrees with the ranges and with the page's own host |
| QR code (qrcode.js) | none | `qrcode()` of one text | page | error correction, a text that fills its type | a reader reads the text |
| HTTP shell (index.js:351-545) | none | `readJsonBody`, `handleApi`, `serveStatic` | all | errors anywhere in a handler | every request is answered |
| Texts, packaging | none | | | | not modelled, see the end |

## Modules

**`Candidate`** is the candidate, the poll and the handlers that need a
candidate. A step is the code between two awaits.

| Module | Code |
|---|---|
| `candidate`, `inFlight`, `lastKnown` | `candidate`, `inFlightBuild`, `lastKnownHeight`; a candidate is its height and its payout address |
| `cooling` | `Date.now() - lastBuildAt < CANDIDATE_REFRESH_COOLDOWN_MS` |
| `payout` | `getSettings().payoutAddress`: none, one that decodes, or one that does not (a hand-edited file or `PAYOUT_ADDRESS`) |
| `builds` | the running calls of `buildCandidate()`: called, served by the node, or lost |
| `reqs`, `polls` | the HTTP handlers and the calls of `pollStatus()`, by the await they stand at |
| `tip` | the height of bitcoind's best block |
| `StartBuild`, `Publish`, `BuildFails` | `buildCandidate()` up to its await, after it, and its failure |
| `BuildShared`, `BuildRefused`, `Settle` | `buildCandidateShared()`: join or start; the throw before the first await; `.finally()` and the wake-up of all who wait |
| `GetOrCreate`, `RequestRefresh`, `Respond` | the candidate routes |
| `PollStart`, `PollAnswered`, `PollFails`, `PollResumes` | `pollStatus()` |
| `NodeServesTemplate`, `NodeServesInfo`, `TipAdvances`, `ResponseLost` | bitcoind and the connection to it |

The microtask queue drains before the next timer, socket or file event. The
guard `Quiet` expresses this: the steps such events start wait until every
handler whose promise has settled has run. The node serves a call at one moment
and the server processes the answer at a later one. The model keeps the two
apart, because the stale-template hazards live between them.

**`CandidateService`** is what the handlers may rely on, without builds, polls
or cooldown: a register that moves only forward along the chain, and requests
that are all settled by the publication or the failure they wait for.
`Candidate` implements it, with `awaiting`, `resumed` and `failed` handlers seen
as pending, served and failed (`ServiceReqs`).

**`Hashing`** is `POST /api/hash` with the counter. Builds appear as
`Candidate` shows them to a handler: a new candidate resumes all who wait
(`NewCandidate`), a failure fails them (`NoCandidate`).

| Module | Code |
|---|---|
| `disk`, `cache` | `stats.json`, and `cache` of stats.js |
| `candidate` | the header fields a handler can tell apart: `gen` (which build), `nonce`, `time`, the last two as words; history `since`: the last click that posted a nonce for it |
| `Uint32`, `NextHeader` | `>>> 0` of an integer, and its use on the posted nonce and time, which may be negative or too large |
| `recent` | `lastHashByClient`: the addresses whose last hash is younger than `MIN_HASH_INTERVAL_MS` |
| `wire`, `results` | all that `broadcast()` sent; a history of all hashes computed |
| `HashRequested`, `TooFast` | the handler up to its await; `checkHashRate()` throws |
| `TakeNonce`, `SaveThrows`, `SaveStarts`, `SaveTorn` | `checkHashRate()` passes, the nonce is taken, `incrementHashes()` counts and saves |
| `Hashed`, `Miss`, `Hit`, `SubmitEnds` | the hash, its broadcast, and the detour through `submitblock` |
| `Restart` | the process ends and starts again with `stats.json` only |

`writeFileSync()` truncates before it writes, so the save is two steps. No
other code runs in between (`Busy`), but the process may end there.

**`TabSync`** is one tab and what keeps it in step with the others. A WebSocket
delivers in order, but the answer to a tab's own request travels on another
connection: it may overtake the sockets or be overtaken. The server is seen
from outside: a build and a hash are one step each, with the outcomes that
`Candidate` and `Hashing` show in detail. Other tabs are their hashes.

| Module | Code |
|---|---|
| `page` | `candidate` and its nonce, `lastAppliedAttempts`, the nonce field, `currentWs`, how far `init()` is |
| `page.edited`, `page.overruled` | histories: what was typed stands in the field; the sockets whose last candidate was replaced by another way |
| `socks`, `timers` | the tab's WebSockets with their place in `wsClients` and what they hold; pending `setTimeout(connectWebSocket)` |
| `calls` | the `fetch()` calls: loads, refreshes, clicks |
| `live`, `nonce`, `count`, `saved` | the server's candidate (the number of its build), its nonce, `cache.totalHashes`, `stats.json` |
| `announced`, `found` | histories: the highest number broadcast, the block-finding hashes whose banner was shown |
| `WithCandidate`, `WithResult` | `applyCandidate()`, `applyHashResult()` |
| `BootLoads`, `BootConnects`, `BootFails` | `init()` |
| `AskCandidate`, `MineOnce`, `Arrive`, `ArriveFailed` | `loadCandidate()`, the refresh button, `mineOnce()`, and the end of a call |
| `LookAt` | the visibility handler |
| `Reconnect`, `Disconnect`, `Die`, `Deliver` | `connectWebSocket()` from its timer, `close`, a peer lost without `close`, `message` |
| `Accept`, `Synced` | the connection handler before and after its await |
| `BuildEnds`, `ServeLive`, `Refuse`, `Miss`, `OtherMiss`, `Hit`, `SaveThrows`, `SubmitEnds`, `Restart` | what the server does |

**`Settings`**, **`RpcCall`** and **`Connection`** are three layers of one state
machine, each extending the one before: the settings store, the JSON-RPC
client that reads it, and the page's settings form with the HTTP handlers
between the two.

| Module | Code |
|---|---|
| `file`, `env` | `config.json`, and the variables of the environment laid over it |
| `ours` | history: `saveSettings()` wrote what the file holds |
| `Effective`, `Merged`, `Validates` | `getSettings()`, the `next` of `saveSettings()`, `validate(next)` |
| `Written`, `WriteTorn`, `HandEdit` | a save that ends, one cut short, an edit by hand |
| `calls` | the call of each request: before its headers, inside its response, settled, or over without having settled |
| `CallRefused`, `CallSent` | `rpcCall()`: `assertConnectionAllowed()`, `resolveAuth()`, the request |
| `Answered`, `Rejected`, `NullBody`, `Broken`, `PeerCloses` | the listeners of `end`, `error` and `timeout`, and the ends that nobody listens to |
| `reqs`, `form` | the requests with their handlers, and the form of one page |
| `TurnedAway`, `SettingsShown`, `Save`, `CallMade`, `CallSettled` | `handleApi()` and the handlers it calls |
| `PageLoads`, `Type`, `FormSubmitted`, `PageReceives` | `loadSettings()`, the user, the submit handler |

A setting is a value of a small set for its key. Which values `validate()`
accepts is a constant of `Settings`; `NetGuard` and `Address` model the rules.

**`RpcService`** is what the callers of `rpcCall()` may rely on: a call is carried
out at most once and settled at most once, an answer is the node's answer to
this very call, and a failure says nothing of what the node has done or will
still do. `Connection` implements it.

**`Serialize`**, **`Header`**, **`Address`**, **`NetGuard`** and **`QrCode`** are the pure
functions, as operators, each followed by references: how a node reads an
integer, a script number, a transaction and an output script, what a Merkle
root is by the position of its leaves, the private ranges as prefixes, how a
QR code is read. **`Formats`** compares the first four with theirs. Its
behaviour picks a function and an input, so that every input is a state.
**`AllFormats`** adds what is for TLC alone: the QR code, which is computed with bits and
so stands apart from the proofs. A byte has `Base` values, 256 in the code; the
theorems about numbers are for any even `Base`.

In `NetGuard` a request is its Host header as a host and a port, its Origin as a scheme,
a host and a port, and what the environment says of it: whether `ALLOWED_HOSTS` lists
its host, and whether `DISABLE_ORIGIN_CHECK` is 1. `urlHost` is `new URL(origin).host`,
which has no scheme and no default port. `Formats` compares this with the page a
request really comes from and the site it really goes to (`Sent`): clients leave the
default port out of both headers.

The **`MC...`** modules instantiate these for TLC. The theorems are in modules of
their own:

| Module | Proves |
|---|---|
| `CandidateProofs`, `HashingProofs`, `TabSyncProofs`, `ConnectionProofs` | the properties of the state machines |
| `SerializeProofs` | induction over the numbers through sets, that a function which starts at a value and makes each next one from the last exists and is the only one, and from it what `LE()`, `varInt()` and `scriptNumEncode()` write and how it is read back |
| `CoinbaseProofs` | the same for the parts of the coinbase transaction, and strings one after another |
| `HeaderProofs` | powers, the compact form of a target, the number of bits and of leading zeros of a number, and the Merkle tree |
| `FormatsProofs` | the properties of `Formats` |

Definitions whose comment starts with "Mutant of" are plausible bugs of the
code. They are used by no action: each is a replacement for the definition it
names that makes one property fail.

## Runs

| Run | Outcome | What it shows |
|---|---|---|
| `candidate_safety` | holds | `TypeOK`, `OneBuildInFlight`, `NoOrphanWaiter`, `ResumedHasCandidate`, `HeightNeverRegresses`, `OnlyPollsSkipCooldown`, `ImplementsService`, with failing and lost calls |
| `candidate_live` | holds | `EveryWaitEnds`: if every call settles, every handler is answered and every poll ends. `RebuildReachesTip`: a poll that waits for a template the node has not served yet gets the tip it saw, unless that build fails |
| `candidate_superseded` | violated | `SupersededIsRebuilt`: a superseded candidate stays, though every call succeeds |
| `candidate_wedged` | violated | `EveryWaitEnds`, when one response is cut short: everyone waits for ever |
| `candidate_payout` | violated | `ServedPaysConfigured`: the candidate pays the address of the time it was built |
| `hashing_all` | holds | `TypeOK`, `NumbersIncrease`, `CountSurvives`, `NoHeaderTwice`, `HashesOwnBody`, with saves that throw, torn writes, restarts, a nonce that wraps, and nonces and times outside the range of a word |
| `hashing_torn` | violated | `CountNeverFalls`: a write cut short makes the next start count from zero |
| `tabs_agree` | holds | `SocketTabsAgree`: a page that has read everything on an open socket is up to date. `NeverStranded`: once it has tried to connect, it has a socket or a timer for one. `OnlyTypedNonces`: it posts a nonce only if the user typed it |
| `tabs_found` | violated | `FoundIsShown`: both copies of the result that found a block are dropped |
| `tabs_dead` | violated | `LookedAtIsConnected`: a dead socket that is still OPEN is kept |
| `connection` | holds | `SavedIsValid`, `CallsWhereAllowed`, `AcceptedWasAccepted`, `FormKeepsRest`, `EveryRequestEnds`, `ImplementsRpcService` |
| `functions` | holds | `VarIntReads`, `ScriptNumReads`, `CoinbaseReads`, `RootIsOfTree`, `BlockReads`, `TargetExpands`, `ZerosAgree`, `PaysAddress`, `PrivateByRange`, `PageOfTheHost` and `QrReads` |

The violated properties state what a comment or the README says, quoted in
`PROJECT.json`. `SupersededIsRebuilt` fails in three ways with one root: the poll
compares the tip with the height of the last poll (index.js:562) and not with
the candidate's. A candidate superseded before the first poll, a rebuild that
joined an older build, and a rebuild that failed are never made up for.

Some statements hold only in part:

- `HashesOwnBody` holds because `incrementHashes()` saves without an `await`. With one
  there, another click could write its nonce into the candidate in between
  (`TakeNonceAwaited`).
- `NoHeaderTwice` speaks of headers between which no nonce was posted. A posted nonce
  moves the shared one back or ahead, and what follows may repeat earlier headers.
- The limit on clicks is kept by remote address (index.js:288). Tabs of one machine, or
  behind one proxy, have one entry and do refuse each other's clicks, although
  index.js:281-282 says that one busy tab does not throttle everyone else. The model
  has this too (`hashing_all` has a single address), and no property denies it.
- "Origin must match Host" (index.js:50) holds up to the scheme and default ports, which
  `URL.host` drops: a page at `https://h` passes at Host `h` on port 80, and the
  other way round. `PageOfTheHost` says so. With `DISABLE_ORIGIN_CHECK=1` every
  request passes, from any page and to any host.
- `NeverStranded` speaks of a page that has tried to connect. If an earlier step of
  `init()` fails, it never does (app.js:620-625).
- Exponents of 2 and less drop the lowest bytes of the mantissa (hash.js:37), as a node
  does; `TargetExpands` has each byte that has a place at that place.
- A page whose candidate came as an answer shows whatever that answer held, even
  if a socket had brought a newer one (app.js:431). `SocketTabsAgree` speaks of
  the sockets that nothing has overruled since their last candidate.
- `NumbersIncrease` and `CountSurvives` are stated while no write was cut short
  (`torn`); the parts without that condition are `InOrder` and
  `CountNeverFalls`, of which `hashing_torn` refutes the second.
- A block whose submission was not answered is reported as rejected, whatever
  the node did (index.js:338-340). Only `AcceptedWasAccepted` holds.
- `FormKeepsRest` speaks of each field by itself: one whose loaded value is still
  in force, or that a blank leaves alone, keeps its value in force. A field
  that has changed since the form was loaded is undone by a save of the stale form
  (app.js:335-340). A save may also write what the environment or a cookie
  brought into the form, and that stays when the environment changes; what is in
  force does not change.
- `EveryRequestEnds` leaves out the calls that can never settle. `candidate_wedged`
  shows what those lead to.
- `CoinbaseReads` finds the height in the coinbase above 16. Up to 16, on a
  regtest chain, a node expects the opcodes `OP_1` to `OP_16` and the code pushes a
  byte (coinbase.js:81).

### Bounds

- `candidate_safety`: two requests, two polls, two build slots, two addresses,
  heights up to 2. Two requests and a poll on one build show coalescing and the
  common wake-up. A second build slot is there so that a second build could
  start if the code let it. Two polls overlap. The chain can advance while a
  template is on its way, and again after it. Slots, polls and addresses are
  interchangeable, so the run uses symmetry. The theorems lift all of these
  bounds.
- `candidate_live` and the violated liveness runs use one address and no
  symmetry. One build slot is enough
  there: the safety run shows that there is never a second one.
- `hashing_all`: two handlers of one address, three hashes over two candidates. Two
  handlers are enough for one to run between the nonce and the hash of the other.
  `NonceMod = 2`, so that the third hash on one candidate repeats the
  header of the first, as late as `NoHeaderTwice` allows and no earlier. What is
  posted is nothing, a nonce of -1 or a time of `2 * NonceMod + 1`: below and above the
  range of a word, so that each must be reduced. `wire`
  and `results` grow with the count and with the candidates only.
- `hashing_torn`: the same with an address for each handler and empty bodies.
- `tabs_agree`: one page with two sockets or pending reconnects and one call at
  a time, and three builds and hashes together. What other tabs do reaches the
  page only through the server (`OtherMiss`). One build and two hashes let a late
  result be overtaken, two builds and a hash an old candidate; two sockets let
  the visibility handler double them. The user types 0, which is also what an
  emptied field posts. `NonceMod = 2`, so that the server's nonce wraps.
  `tabs_found` needs two calls and one socket.
- `connection`: one slot for requests with a handler; saves of other clients need
  none. Since a call touches nothing but its slot, a second slot would only add
  another request between two steps of the first, which `OtherSaves`,
  `OperatorEdits` and `Restart` do already; the theorems are for any number of slots.
  Four keys stand for the seven: one the form does not have, one that is trimmed
  and restricted, one that may be left blank and restricted, one that is never
  shown; a cookie path may be in the file or in the environment.
- `functions`: the numbers on both sides of every bound the code compares with, all
  Merkle trees of up to 17 leaves, blocks around one, and around 253 transactions
  where the count takes a second form, every version and length of an address that
  the code tells apart, octets on both sides of every private range, hosts and
  requests of each kind, both schemes with the default port of each and another one, and
  compact targets whose expansion has at most 31 bits. The integers of TLC end there:
  the form of `varInt()` for eight bytes and longer targets are in the theorems only.
  The texts of the QR code are those that just fill and just overflow its types, under all masks.
- `MaxTip`, `MaxHashes`, `MaxGen` and `MaxNews` are the bounds of counters that the code
  does not bound. The nonce is bounded by the code, `>>> 0`.

### Fairness

`FairSpec` assumes only what the process and its timers give:

- weak fairness for `Respond` and `PollResumes`: a settled promise's
  continuation is in the microtask queue, and the queue is drained;
- weak fairness for `NodeServesTemplate` and `NodeServesInfo`, and strong
  fairness for what ends a call (`Publish` or `BuildFails`, `PollAnswered` or
  `PollFails`): `rpcCall()` sets a timeout on the socket (rpc.js:98-100,
  145-147), so a call is answered or fails. It is strong because `Quiet`
  disables these steps whenever another handler is about to run;
- strong fairness for `PollStart`: the interval timer is never cleared.

`FairSpec` of `Connection` assumes, for each slot, weak fairness of the server's
step or the end of its call. A slot is at one of the two, so that neither
can hold up the other: a handler whose turn it is runs, and an exchange with the
node ends, by the timeout of `rpcCall()` if by nothing else. The timeout is one of silence: a
node that sends a little now and then for ever is excluded by assumption. That the end may be one
of those that settle nothing is not excluded.

Nothing is assumed of users, of the chain or of the clock. The violated runs have
`Failures = FALSE`: they ask what happens when the node answers every call. A
response that is lost (`ResponseLost`) settles nothing, and no fairness makes
it: this is the question of `candidate_wedged`.

## Proofs

The theorems about the state machines hold for any sets of requests, polls,
builds, tabs, addresses, sockets, calls, slots and settings, of any size; those
about encodings for integers of 64 bits and strings of any length. They rest on the
modules' `ConstantsOK`, which say that the sentinels (`Null`, `NoAddr`, `BadAddr`,
`Torn`, `Absent`) are not data and that bounds are numbers, and on
`FormatsConstantsOK`, which gives the inputs their types. TLC evaluates these
assumptions in every run.

**`CandidateProofs`.** `IInv` is the inductive invariant. `TypeOK` and
`OneBuildInFlight` are needed for all else. `NoOrphanWaiter` follows because a
handler only ever awaits `inFlight`, and a build that ends wakes everyone on
it. That heights do not go back does not follow from what was published: it
needs `AnswersAreNewer`, which says that a template on its way is at least as new
as the live candidate. This is true because there is one build at a time and
the chain only grows. `CoolingHasCandidate` and `ResumedHasCandidate` then give
that no handler reads a null candidate. The theorems are `TypeCorrect`,
`Coalescing`, `WaitersHaveBuild`, `NeverServesNull`, `AnswersInOrder`,
`Monotone`, `CooldownHolds` and `Implements`. The last is the refinement: `Settle`
wakes exactly the handlers that the abstract specification has pending,
because with one build every waiter waits for the same one
(`SettleIsSettleAll`).

**`HashingProofs`.**

- `TypeCorrect` uses `HandlersReady`: a handler inside the save has a candidate
  and a count, and is alone there.
- `NumbersUnique` and `CountIsDurable` are about behaviours in which no write has
  been cut short yet. Their invariant is `CountSafe`: every announced number is at
  most `Saved`, the count the file holds or is about to hold. The count in
  memory may be ahead of it after a failed save, and a restart gives such
  numbers up, but they were never announced.
- `HeadersUnique` bounds neither the clicks nor the nonce, and holds for whatever is
  posted. Its invariant is `HeadersFresh`: for the live candidate there is a
  `base` from which its nonce, and those of the hashes made on it since a nonce was last
  posted, are counted modulo `NonceMod` by the numbers that the lifetime counter gives
  out, failed saves included (`NoncesFrom`). A posted nonce begins a new `base`; it has a
  `since` that no earlier hash of the candidate has, as that is the number of the click.
  Two hashes with one header then have
  numbers that are congruent and differ, so that at least `NonceMod` lie between
  them (`SameRemainder`). The lemmas on remainders are proved for any modulus.
- `OwnBodyHashed` needs that the live candidate is of the last build (`LastBuilt`), and
  from `HandlersReady` that a handler inside the save is alone. That a nonce is the word
  of what was typed is `NextHeaderIs`, from the lemma that a remainder differs from
  its number by a multiple (`RemainderSame`), for negative numbers too.

**`TabSyncProofs`.** `IInv` has five parts beside the types.

- `AnswersAreReady`: an answer on its way to the page is a message, and one that
  still waits for `submitblock` is of a hash whose count is saved.
- `CountCovers`: no hash is announced before its count is saved. With it the
  attempts of any message, early or late, are at most what the server has counted.
- `FieldIsNonce`: a page that shows a candidate has its nonce in the field, or
  what the user typed over it. This is what makes `OnlyTypedNonces` true:
  `mineOnce()` sends the field only where it differs from the nonce
  (app.js:478-487).
- `SocketsInStep`: for every open socket, either its queue still `Carries` the live
  candidate and behind it a message that knows of the last hash, or it brings no
  candidate and the page shows the live one already, and knows of that hash or will
  read of it. `SocketTabsAgree` is the case of an empty queue. A weaker invariant that speaks only
  of the last message is not inductive: a hash may be announced between the
  registration of a socket and its first candidate (index.js:535-543).
- `NeverStranded` is inductive with the types.

**`ConnectionProofs`.** `IInv` has `SlotsMatch`, which ties the state of a handler to the
state of its call, and `FormMatches`: a field the user did not edit holds what was
loaded into it, and so does the body of a save on its way. From the latter and what
`Merged` and `Effective` do with each key (`SaveKeeps`) follows `FormKeeps`.
`SavedValid`, `CallsAllowed` and `ReportsTruly` follow from `IInv`; `Implements` is the
refinement of `RpcService`, in which a slot does one step of its call or none.

**The encodings.** `Shifted()`, `Unsigned()` and `FlattenSeq()` are recursive. The
library's induction theorems take an operator, which the provers cannot put in;
`SerializeProofs` states induction for a set of numbers instead, from which follows what a
recursive function computes. The order of the argument:

- `LE()` in one byte more is the lowest byte and `LE()` of the rest, `Unsigned()` is the
  lowest byte and `Base` times the rest: so they undo each other (`UnsignedLE`) for a
  number that leaves nothing behind its bytes.
- `VarIntAhead`: whatever follows, the integer at the head is the one written, as
  long as it fits 64 bits; no shorter form holds it. `ScriptNumBack` does the same
  for both signs, from the bounds of a number by its bytes (`ScriptNumWithin`).
- `StringRead`, `InputRead`, `OutputRead`, `OutputsRead` and `BodyRead` take a
  transaction apart from the front: each part is found and what is behind it is
  left. `LegacyRead` and `RawRead` put them together. `CoinbaseIsRead` assumes
  `Base = 256`, since it names bytes of the protocol.
- `FieldsRead` does this for six fields in a row, and `FlattenFirst` says that
  transactions one after another are the first and then the others:
  `BlockIsRead`.
- `TargetIsExpanded`: the byte at a place of a target is the byte of the mantissa three
  places below the exponent (`TargetBytes`), since putting zero bytes behind a number moves
  its bytes up, and the mantissa has the bytes of the word but for the top bit
  (`MantissaBytes`). For the compact form, a target is a number m of three bytes
  without the bit of the sign
  and q zero bytes behind it; for an exponent of 3 and less q is 0. Three bytes that
  begin with the highest of m, and the exponent, determine it (`WordExpands`), and they are
  what `Compact()` takes (`CompactBack`); where the bit of the sign is set, m has a byte
  less than three, and one zero byte less is put behind it.
- `ZerosAreOnOneScale`: a digit more is four bits more (`BitLengthDigit`), so the digits
  of a hash, taken one after another, show where the bits of its value begin
  (`DigitsLead`). A smaller value has not more bits (`BitLengthOrdered`).
- `RootIsTheTreeRoot`: level i of the code is row i of the tree (`LevelsMatch`): it has
  as many nodes as there are places j with j * 2^i below the number of leaves, node
  by node the same (`ParentsMatch`), and one node at the depth of the tree and
  not before (`RootOfTree`). Powers are the recursive function `TimesPower()`, since
  the provers know no law of `^`.
- `AcceptedAddressIsPaid`: the scripts are told apart by their length and first bytes, which
  are those of `opPush()` for every length from 2 to 40.
- `PrivateExactlyInRanges`: a range is a prefix of bits, and each comparison of the code is
  one of the octets it covers.
- `OnlyThePageOfTheHost`: two sites whose URLs name one host and, without their default
  ports, one port, are on one port or each on its default port.

**Only checked by TLC:**

- liveness (`EveryWaitEnds`, `RebuildReachesTip`, `EveryRequestEnds`), out of the prover's reach;
- `QrReads`: `QrCode` computes with bits and recursive operators.

## Not modelled

- Static files, security headers and the text of errors: stateless, no
  interaction with the rest. The characters of host names
  (`isValidHostname()`, `hostnameFromHeader()`): a host is what splitting it yields.
- SHA256d, base58check and bech32: library code.
- Of qrcode.js: the modes, levels and types the page does not use, the measure
  by which the mask is chosen (every mask is checked), and the drawing.
- The pruning of `lastHashByClient`: it forgets entries that limit nobody.
- Texts, styles, container files.
- Reorganisations: the code looks at heights only, and the chain of the model
  only grows.
- Of a page: the auto-click timer, whose ticks are clicks; the status, the
  navigation and the drawing.
- A clock that is set back.
- `ALLOW_PUBLIC_RPC_HOST` changing from one start to the next (settings.js:31, 85): what
  `validate()` accepts is a constant.

## What is left

- `QrReads` needs a proof about exclusive or, which would have to be modelled without
  `Bitwise`.
- The reorganisation at one height (index.js:562) is listed as a hazard without a
  property: the code does not claim to see it.
