----------------------------- MODULE Candidate -----------------------------
(***************************************************************************)
(* The mining candidate of server/index.js: one module-level `candidate`   *)
(* shared by every client, built from a getblocktemplate answer by         *)
(* buildCandidate(), coalesced by buildCandidateShared(), asked for by     *)
(* getOrCreateCandidate(), requestRefresh() and pollStatus().              *)
(*                                                                         *)
(* Node runs one callback at a time, so a step is the code between two     *)
(* awaits.  When a build settles, every handler awaiting it becomes ready  *)
(* and runs in the same drain of the microtask queue, before any timer,    *)
(* socket or file event: Quiet guards every step that such an event        *)
(* starts.  bitcoind is external: its tip only grows, and it answers a     *)
(* call with the tip of the moment it serves it, which may be long before  *)
(* the answer is processed here.                                           *)
(***************************************************************************)
EXTENDS Naturals

CONSTANTS
  Requests,      \* slots of concurrent HTTP requests that need the candidate
  Polls,         \* slots of overlapping pollStatus() invocations
  Builds,        \* slots of running buildCandidate() invocations
  Addrs,         \* payout addresses that decodeAddress() accepts
  NoAddr,        \* '': no payout address is configured
  BadAddr,       \* an address that does not decode: validate() refuses it, but
                 \* a hand-edited config.json or PAYOUT_ADDRESS may hold it
  Null,          \* JavaScript null
  MaxTip,        \* bound: the highest tip bitcoind reaches
  Failures,      \* whether an RPC call may fail (refused, error, timeout)
  LostResponses  \* whether a response may be cut short after its headers

ASSUME ConstantsOK ==
  /\ NoAddr \notin Addrs
  /\ BadAddr \notin Addrs \cup {NoAddr}
  /\ MaxTip \in Nat
  /\ Failures \in BOOLEAN
  /\ LostResponses \in BOOLEAN
  /\ Null \notin Builds
  /\ Null \notin Nat
  /\ Null \notin [height : Nat, payout : Addrs]

VARIABLES
  tip,        \* height of bitcoind's best block
  payout,     \* getSettings().payoutAddress
  candidate,  \* the live candidate, or Null
  inFlight,   \* inFlightBuild: the build whose promise is shared, or Null
  cooling,    \* Date.now() - lastBuildAt < CANDIDATE_REFRESH_COOLDOWN_MS
  lastKnown,  \* lastKnownHeight
  builds,     \* the running invocations of buildCandidate()
  reqs,       \* the HTTP handlers
  polls       \* the running invocations of pollStatus()

vars == <<tip, payout, candidate, inFlight, cooling, lastKnown, builds, reqs, polls>>

-----------------------------------------------------------------------------

CandidateType == [height : Nat, payout : Addrs]

\* "called": getblocktemplate is at the node; "answered": the node has served
\* it; "lost": the connection closed inside the response body, so neither
\* 'end' nor an error on the request ever fires and the promise never settles.
BuildType == [phase  : {"idle", "called", "answered", "lost"},
              payout : Addrs \cup {NoAddr},
              height : Nat]

\* "resumed" and "failed" are the two ways an awaited promise settles; the
\* handler's continuation is then in the microtask queue.
ReqType == [pc : {"idle", "awaiting", "resumed", "failed"},
            on : Builds \cup {Null}]

PollType == [pc         : {"idle", "asked", "answered", "awaiting", "resumed", "failed"},
             on         : Builds \cup {Null},
             configured : BOOLEAN,
             blocks     : Nat]

TypeOK ==
  /\ tip \in Nat
  /\ payout \in Addrs \cup {NoAddr, BadAddr}
  /\ candidate \in CandidateType \cup {Null}
  /\ inFlight \in Builds \cup {Null}
  /\ cooling \in BOOLEAN
  /\ lastKnown \in Nat \cup {Null}
  /\ builds \in [Builds -> BuildType]
  /\ reqs \in [Requests -> ReqType]
  /\ polls \in [Polls -> PollType]

IdleBuild == [phase |-> "idle", payout |-> NoAddr, height |-> 0]
IdleReq   == [pc |-> "idle", on |-> Null]
IdlePoll  == [pc |-> "idle", on |-> Null, configured |-> FALSE, blocks |-> 0]

Init ==
  /\ tip = 0
  /\ payout \in Addrs \cup {NoAddr, BadAddr}
  /\ candidate = Null
  /\ inFlight = Null
  /\ cooling = FALSE
  /\ lastKnown = Null
  /\ builds = [b \in Builds |-> IdleBuild]
  /\ reqs = [r \in Requests |-> IdleReq]
  /\ polls = [p \in Polls |-> IdlePoll]

-----------------------------------------------------------------------------
(* The shared build *)

Running(b) == builds[b].phase # "idle"

Settled(s) == s.pc \in {"resumed", "failed"}

\* The microtask queue is empty: the event loop may take the next event.
Quiet ==
  /\ \A r \in Requests : ~Settled(reqs[r])
  /\ \A p \in Polls : ~Settled(polls[p])

\* buildCandidate() up to its await: the settings are read, the address is
\* decoded and getblocktemplate is called.
StartBuild(b) ==
  /\ ~Running(b)
  /\ builds' = [builds EXCEPT ![b] = [phase |-> "called", payout |-> payout, height |-> 0]]
  /\ inFlight' = b

\* Mutant of BuildShared: `if (!inFlightBuild)` is dropped.
BuildSharedAlways(b) ==
  /\ payout \in Addrs
  /\ StartBuild(b)

\* Mutant of BuildShared: the check of settings.payoutAddress is dropped.
BuildSharedUnchecked(b) ==
  \/ inFlight = b /\ UNCHANGED <<builds, inFlight>>
  \/ inFlight = Null /\ payout # BadAddr /\ StartBuild(b)

\* buildCandidateShared(): b is the build whose promise the caller awaits.
BuildShared(b) ==
  \/ /\ inFlight = b
     /\ UNCHANGED <<builds, inFlight>>
  \/ /\ inFlight = Null
     /\ payout \in Addrs
     /\ StartBuild(b)

\* buildCandidate() throws before its first await: the shared promise is
\* rejected and inFlightBuild is null again before any other event.
BuildRefused ==
  /\ inFlight = Null
  /\ payout \notin Addrs

\* What s becomes when the promise of build b settles.
Wake(s, b, outcome) ==
  IF s.pc = "awaiting" /\ s.on = b THEN [s EXCEPT !.pc = outcome, !.on = Null] ELSE s

\* Mutant of Settle: .then() in the place of .finally().
SettleThen(b, outcome) ==
  /\ builds' = [builds EXCEPT ![b] = IdleBuild]
  /\ inFlight' = IF outcome = "resumed" THEN Null ELSE b
  /\ reqs' = [r \in Requests |-> Wake(reqs[r], b, outcome)]
  /\ polls' = [p \in Polls |-> Wake(polls[p], b, outcome)]

\* The promise of b settles: .finally() clears inFlightBuild, then every
\* awaiting handler is queued to continue.
Settle(b, outcome) ==
  /\ builds' = [builds EXCEPT ![b] = IdleBuild]
  /\ inFlight' = Null
  /\ reqs' = [r \in Requests |-> Wake(reqs[r], b, outcome)]
  /\ polls' = [p \in Polls |-> Wake(polls[p], b, outcome)]

\* Mutant of Publish: the cooldown is enforced on every build.
PublishUnlessCooling(b) ==
  /\ Quiet
  /\ builds[b].phase = "answered"
  /\ candidate' = IF cooling THEN candidate
                  ELSE [height |-> builds[b].height, payout |-> builds[b].payout]
  /\ cooling' = TRUE
  /\ Settle(b, "resumed")
  /\ UNCHANGED <<tip, payout, lastKnown>>

\* buildCandidate() after its await: the candidate is assembled from the
\* template and from the address read before the await, formatted, and only
\* then published.
Publish(b) ==
  /\ Quiet
  /\ builds[b].phase = "answered"
  /\ candidate' = [height |-> builds[b].height, payout |-> builds[b].payout]
  /\ cooling' = TRUE
  /\ Settle(b, "resumed")
  /\ UNCHANGED <<tip, payout, lastKnown>>

\* Mutant of BuildFails: the error is swallowed.
BuildFailsQuietly(b) ==
  /\ Failures
  /\ Quiet
  /\ builds[b].phase \in {"called", "answered"}
  /\ Settle(b, "resumed")
  /\ UNCHANGED <<tip, payout, candidate, cooling, lastKnown>>

\* Mutant of BuildFails: formatCandidate() throws after `candidate = next`.
BuildFailsPublished(b) ==
  /\ Failures
  /\ Quiet
  /\ builds[b].phase = "answered"
  /\ candidate' = [height |-> builds[b].height, payout |-> builds[b].payout]
  /\ Settle(b, "failed")
  /\ UNCHANGED <<tip, payout, cooling, lastKnown>>

\* The call fails, or the template is malformed and formatCandidate() throws:
\* the previous candidate stays and lastBuildAt is not touched.
BuildFails(b) ==
  /\ Failures
  /\ Quiet
  /\ builds[b].phase \in {"called", "answered"}
  /\ Settle(b, "failed")
  /\ UNCHANGED <<tip, payout, candidate, cooling, lastKnown>>

-----------------------------------------------------------------------------
(* HTTP handlers *)

AwaitBuild(r, b) ==
  /\ BuildShared(b)
  /\ reqs' = [reqs EXCEPT ![r] = [pc |-> "awaiting", on |-> b]]
  /\ UNCHANGED <<tip, payout, candidate, cooling, lastKnown, polls>>

Continue(r, outcome) ==
  /\ reqs' = [reqs EXCEPT ![r] = [pc |-> outcome, on |-> Null]]
  /\ UNCHANGED <<tip, payout, candidate, inFlight, cooling, lastKnown, builds, polls>>

\* GET /api/candidate and POST /api/hash: getOrCreateCandidate().
GetOrCreate(r) ==
  /\ Quiet
  /\ reqs[r].pc = "idle"
  /\ \/ candidate # Null /\ Continue(r, "resumed")
     \/ candidate = Null /\ BuildRefused /\ Continue(r, "failed")
     \/ candidate = Null /\ \E b \in Builds : AwaitBuild(r, b)

\* Mutant of RequestRefresh: the cooldown is not looked at.
RequestRefreshEagerly(r) ==
  /\ Quiet
  /\ reqs[r].pc = "idle"
  /\ \/ BuildRefused /\ Continue(r, "failed")
     \/ \E b \in Builds : AwaitBuild(r, b)

\* POST /api/candidate/refresh: requestRefresh().
RequestRefresh(r) ==
  /\ Quiet
  /\ reqs[r].pc = "idle"
  /\ \/ inFlight = Null /\ cooling /\ Continue(r, "failed")
     \/ ~cooling /\ BuildRefused /\ Continue(r, "failed")
     \/ (inFlight # Null \/ ~cooling) /\ \E b \in Builds : AwaitBuild(r, b)

\* The continuation runs: formatCandidate() or the error goes to the client.
Respond(r) ==
  /\ Settled(reqs[r])
  /\ reqs' = [reqs EXCEPT ![r] = IdleReq]
  /\ UNCHANGED <<tip, payout, candidate, inFlight, cooling, lastKnown, builds, polls>>

\* POST /api/settings with a payout address that passed validate(); '' clears it.
SaveSettings(a) ==
  /\ Quiet
  /\ payout' = a
  /\ UNCHANGED <<tip, candidate, inFlight, cooling, lastKnown, builds, reqs, polls>>

\* CANDIDATE_REFRESH_COOLDOWN_MS have passed since lastBuildAt.
CooldownElapses ==
  /\ cooling
  /\ cooling' = FALSE
  /\ UNCHANGED <<tip, payout, candidate, inFlight, lastKnown, builds, reqs, polls>>

-----------------------------------------------------------------------------
(* pollStatus() *)

\* The interval timer fires, whether or not an earlier poll has finished.
\* computeStatus() reads the settings here, before it awaits the node.
PollStart(p) ==
  /\ Quiet
  /\ polls[p].pc = "idle"
  /\ polls' = [polls EXCEPT ![p] = [pc |-> "asked", on |-> Null,
                                    configured |-> payout # NoAddr, blocks |-> 0]]
  /\ UNCHANGED <<tip, payout, candidate, inFlight, cooling, lastKnown, builds, reqs>>

\* getblockchaininfo fails: status.node is null and the poll ends.
PollFails(p) ==
  /\ Failures
  /\ Quiet
  /\ polls[p].pc \in {"asked", "answered"}
  /\ polls' = [polls EXCEPT ![p] = IdlePoll]
  /\ UNCHANGED <<tip, payout, candidate, inFlight, cooling, lastKnown, builds, reqs>>

\* lastKnownHeight !== null && blocks > lastKnownHeight && candidate
NewTipSeen(blocks) ==
  /\ lastKnown # Null
  /\ blocks > lastKnown
  /\ candidate # Null

\* The poll's last statement: lastKnownHeight = status.node.blocks.
PollEnds(p) ==
  /\ polls' = [polls EXCEPT ![p] = IdlePoll]
  /\ lastKnown' = polls[p].blocks
  /\ UNCHANGED <<tip, payout, candidate, inFlight, cooling, builds, reqs>>

PollAwaits(p, b) ==
  /\ BuildShared(b)
  /\ polls' = [polls EXCEPT ![p] = [pc |-> "awaiting", on |-> b,
                                    configured |-> TRUE, blocks |-> polls[p].blocks]]
  /\ UNCHANGED <<tip, payout, candidate, cooling, lastKnown, reqs>>

\* The answer arrives.  A refused rebuild is caught and logged, and the
\* assignment that follows the try block runs all the same.
PollAnswered(p) ==
  /\ Quiet
  /\ polls[p].pc = "answered"
  /\ \/ /\ ~polls[p].configured
        /\ polls' = [polls EXCEPT ![p] = IdlePoll]
        /\ UNCHANGED <<tip, payout, candidate, inFlight, cooling, lastKnown, builds, reqs>>
     \/ /\ polls[p].configured
        /\ ~NewTipSeen(polls[p].blocks) \/ BuildRefused
        /\ PollEnds(p)
     \/ /\ polls[p].configured
        /\ NewTipSeen(polls[p].blocks)
        /\ \E b \in Builds : PollAwaits(p, b)

\* The awaited rebuild has settled, either way.
PollResumes(p) ==
  /\ Settled(polls[p])
  /\ PollEnds(p)

-----------------------------------------------------------------------------
(* bitcoind (external) *)

TipAdvances ==
  /\ tip < MaxTip
  /\ tip' = tip + 1
  /\ UNCHANGED <<payout, candidate, inFlight, cooling, lastKnown, builds, reqs, polls>>

NodeServesTemplate(b) ==
  /\ builds[b].phase = "called"
  /\ builds' = [builds EXCEPT ![b] =
                   [phase |-> "answered", payout |-> builds[b].payout, height |-> tip + 1]]
  /\ UNCHANGED <<tip, payout, candidate, inFlight, cooling, lastKnown, reqs, polls>>

NodeServesInfo(p) ==
  /\ polls[p].pc = "asked"
  /\ polls' = [polls EXCEPT ![p] = [pc |-> "answered", on |-> Null,
                                    configured |-> polls[p].configured, blocks |-> tip]]
  /\ UNCHANGED <<tip, payout, candidate, inFlight, cooling, lastKnown, builds, reqs>>

\* The peer closes the connection inside the body of the template response:
\* rpcCall() listens to 'end' on the response and to 'error' and 'timeout' on
\* the request, and none of them fires any more.
ResponseLost(b) ==
  /\ LostResponses
  /\ builds[b].phase = "answered"
  /\ builds' = [builds EXCEPT ![b].phase = "lost"]
  /\ UNCHANGED <<tip, payout, candidate, inFlight, cooling, lastKnown, reqs, polls>>

-----------------------------------------------------------------------------

BuildStep(b) ==
  Publish(b) \/ BuildFails(b) \/ NodeServesTemplate(b) \/ ResponseLost(b)

ReqStep(r) ==
  GetOrCreate(r) \/ RequestRefresh(r) \/ Respond(r)

PollStep(p) ==
  PollStart(p) \/ PollFails(p) \/ NodeServesInfo(p) \/ PollAnswered(p) \/ PollResumes(p)

Next ==
  \/ \E b \in Builds : BuildStep(b)
  \/ \E r \in Requests : ReqStep(r)
  \/ \E p \in Polls : PollStep(p)
  \/ \E a \in Addrs \cup {NoAddr} : SaveSettings(a)
  \/ CooldownElapses
  \/ TipAdvances

Spec == Init /\ [][Next]_vars

\* Continuations in the microtask queue always run.  A call settles, by its
\* answer or by the socket timeout rpcCall() sets; other events may delay it,
\* but the event loop serves every ready socket.  The interval timer is never
\* cleared.  Users, the node's chain and the clock owe nothing.
Fairness ==
  /\ \A r \in Requests : WF_vars(Respond(r))
  /\ \A p \in Polls : /\ WF_vars(PollResumes(p))
                      /\ SF_vars(PollStart(p))
                      /\ WF_vars(NodeServesInfo(p))
                      /\ SF_vars(PollAnswered(p) \/ PollFails(p))
  /\ \A b \in Builds : /\ WF_vars(NodeServesTemplate(b))
                       /\ SF_vars(Publish(b) \/ BuildFails(b))

FairSpec == Spec /\ Fairness

-----------------------------------------------------------------------------
(* Safety *)

\* Builds are coalesced: at most one getblocktemplate is outstanding, and
\* inFlightBuild is exactly the build that is running, so that whoever asks
\* next joins that one (index.js:139-142, 194-201).
OneBuildInFlight ==
  \A b \in Builds : Running(b) <=> inFlight = b

\* No handler is left on a promise that nothing will settle: whoever awaits a
\* build awaits the one that is running (index.js:194-201, 218-219, 564).
NoOrphanWaiter ==
  /\ \A r \in Requests :
       reqs[r].pc = "awaiting" => reqs[r].on \in Builds /\ Running(reqs[r].on)
  /\ \A p \in Polls :
       polls[p].pc = "awaiting" => polls[p].on \in Builds /\ Running(polls[p].on)

\* Code after `await getOrCreateCandidate()`, `await requestRefresh()` and
\* `await buildCandidateShared()` reads fields of `candidate`: it is never
\* null there, however builds failed or settings changed meanwhile
\* (index.js:307-310, 438-443).
ResumedHasCandidate ==
  /\ \A r \in Requests : reqs[r].pc = "resumed" => candidate # Null
  /\ \A p \in Polls : polls[p].pc = "resumed" => candidate # Null

\* The template a build is about to publish is for a block the chain allows,
\* pays an address that decodes, and is not older than the live candidate.
AnswersAreNewer ==
  /\ candidate # Null => candidate.height \in 1..(tip + 1)
  /\ \A b \in Builds :
       /\ Running(b) => builds[b].payout \in Addrs
       /\ builds[b].phase = "answered" =>
            /\ builds[b].height \in 1..(tip + 1)
            /\ candidate # Null => builds[b].height >= candidate.height

\* The cooldown is that of a build which has published its candidate.
CoolingHasCandidate == cooling => candidate # Null

\* A late template never replaces a newer one: the candidate's height never
\* goes down, though answers may be processed long after they were served.
HeightNeverRegresses ==
  [][candidate # Null => candidate' # Null /\ candidate'.height >= candidate.height]_vars

\* While the cooldown runs, only pollStatus() starts a build: neither a click
\* on refresh nor a read of the candidate costs the node a getblocktemplate
\* (index.js:139-142, 203-215).
OnlyPollsSkipCooldown ==
  [][cooling /\ (\E b \in Builds : ~Running(b) /\ Running(b)')
       => \E p \in Polls : polls[p].pc # "awaiting" /\ polls'[p].pc = "awaiting"]_vars

\* The inductive invariant.
IInv ==
  /\ TypeOK
  /\ OneBuildInFlight
  /\ NoOrphanWaiter
  /\ ResumedHasCandidate
  /\ AnswersAreNewer
  /\ CoolingHasCandidate

-----------------------------------------------------------------------------
(* Refinement *)

\* The state of a handler that CandidateService shows.
ServiceReqs ==
  [r \in Requests |-> CASE reqs[r].pc = "awaiting" -> "pending"
                       [] reqs[r].pc = "resumed"  -> "served"
                       [] OTHER                   -> reqs[r].pc]

Service == INSTANCE CandidateService WITH reqs <- ServiceReqs

\* The register never moves backwards or beyond the chain, and whoever waits
\* is settled by the next build that ends: no handler is skipped, and none is
\* served before there is a candidate (index.js:147-222, 437-449).
ImplementsService == Service!Spec

-----------------------------------------------------------------------------
(* Liveness *)

\* Every handler that waits is answered and every poll comes to its end, as
\* long as each RPC call settles (rpc.js:98-100, 139-147).
EveryWaitEnds ==
  /\ \A r \in Requests : reqs[r].pc = "awaiting" ~> reqs[r].pc = "idle"
  /\ \A p \in Polls : polls[p].pc # "idle" ~> polls[p].pc = "idle"

\* The candidate is for a block above height h.
MinesAbove(h) == candidate # Null /\ candidate.height > h

\* The poll p saw height h and waits for a template the node has yet to serve.
AwaitsFreshTemplate(p, h) ==
  /\ polls[p].pc = "awaiting"
  /\ polls[p].blocks = h
  /\ builds[polls[p].on].phase = "called"

\* A poll that sees a new tip and starts a build, or joins one the node has
\* not served yet, gets a candidate that mines on that tip, unless that build
\* fails: the cooldown does not hold it back, and no overlapping poll or
\* refresh takes its place with an older one (index.js:550-571).
RebuildReachesTip ==
  \A p \in Polls, h \in 0..MaxTip :
    AwaitsFreshTemplate(p, h) ~> MinesAbove(h) \/ polls[p].pc = "failed"

-----------------------------------------------------------------------------
(* What the comments and the README say, and the code does not do *)

\* The last poll saw a chain that has reached the height being mined.
Superseded(h) == lastKnown = h /\ candidate # Null /\ candidate.height <= h

\* index.js:550-553: a candidate whose height the polled chain has reached
\* is rebuilt, at least while an address stays configured.  The code compares
\* the tip with the last poll's instead, so the candidate stays when it was
\* superseded before the first poll, when the rebuild joined an older build,
\* and when the rebuild failed.
SupersededIsRebuilt ==
  [](payout \in Addrs) => \A h \in 0..MaxTip : Superseded(h) ~> MinesAbove(h)

\* README.md:56-58: the coinbase pays the configured address.  The page loads
\* the candidate right after it saved the settings (app.js:346-350): what is
\* served then pays the address that was saved.
ServedPaysConfigured ==
  \A r \in Requests :
    reqs[r].pc = "resumed" /\ payout \in Addrs => candidate.payout = payout
=============================================================================
