------------------------------ MODULE TabSync ------------------------------
(***************************************************************************)
(* A browser tab, public/app.js, and what keeps it in step with the others:*)
(* the WebSockets that server/index.js broadcasts on, and the answers to   *)
(* the tab's own requests.  A socket delivers in order; an answer travels  *)
(* on a connection of its own and may overtake the sockets.                *)
(*                                                                         *)
(* The server is seen from outside: a build (Candidate.tla) and a hash     *)
(* (Hashing.tla) are one step each, and a save is whole or fails.  The     *)
(* other tabs are their hashes, which every socket brings.  What the page  *)
(* draws, its status light and its settings form (Connection.tla) are left *)
(* out, and so is the auto-click timer: its ticks are clicks.              *)
(***************************************************************************)
EXTENDS Naturals, Sequences, FiniteSets

CONSTANTS
  Socks,      \* bound: slots of the page's WebSockets and pending reconnects
  Calls,      \* slots of fetch() calls under way
  NonceMod,   \* 2^32: the server keeps the nonce by >>> 0
  TypedNonces,\* what the user types: numbers, 0 for an emptied field, or Null
  Null,       \* none; in the nonce field, a text that mineOnce() takes for no nonce
  MaxNews     \* bound: builds and hashes together

ASSUME ConstantsOK ==
  /\ IsFiniteSet(Socks)
  /\ NonceMod \in Nat \ {0}
  /\ TypedNonces \subseteq (0..(NonceMod - 1)) \cup {Null}
  /\ MaxNews \in Nat
  /\ Null \notin Nat /\ Null \notin Socks
  /\ Null \notin [type : {"candidate"}, build : Nat, nonce : Nat, attempts : Nat]
  /\ Null \notin [type : {"hash"}, nonce : Nat, attempts : Nat, found : BOOLEAN]

VARIABLES
  live,       \* the server's candidate, as the number of its build; 0 is null
  builds,     \* how many candidates were built
  nonce,      \* the nonce of the live candidate
  count,      \* the lifetime count in the server's memory
  saved,      \* the lifetime count in stats.json
  announced,  \* history: the highest number of a hash that was broadcast
  page,       \* the state of the page
  socks,      \* the page's WebSockets
  timers,     \* pending setTimeout(connectWebSocket)
  calls,      \* the page's fetch() calls
  found       \* history: the block-finding hashes whose banner was shown

serverVars == <<live, builds, nonce, count, saved>>
vars == <<serverVars, announced, page, socks, timers, calls, found>>

-----------------------------------------------------------------------------

CandidateMessage == [type : {"candidate"}, build : Nat \ {0}, nonce : Nat, attempts : Nat]
HashMessage == [type : {"hash"}, nonce : Nat, attempts : Nat, found : BOOLEAN]
Message == CandidateMessage \cup HashMessage

\* shows is the build of the page's `candidate`, 0 if that is null, and nonce
\* its candidate.nonce; last is lastAppliedAttempts; current is currentWs, or
\* "closed" when that is; overruled are the sockets in use whose last candidate,
\* if any, was replaced by one that came another way; edited says that the
\* field holds what was typed.
PageType == [boot    : {"started", "loading", "over"},
             shows   : Nat,
             nonce   : Nat,
             last    : Nat,
             field   : Nat \cup {Null},
             edited  : BOOLEAN,
             current : Socks \cup {"closed", Null},
             overruled : SUBSET Socks]

\* "syncing" is in wsClients and awaits computeStatus(); "open" has had its
\* initial sync; "dead" has lost its peer and still has readyState OPEN.
SockType == [pc    : {"free", "connecting", "syncing", "open", "dead"},
             queue : Seq(Message)]

\* "boot" is the GET that init() awaits; "look" that of a tab looked at again;
\* "first" that of a click on a page without candidate, which posts its hash
\* afterwards.
CallType == [pc     : {"idle", "sent", "submitting", "answered", "failed"},
             kind   : {"boot", "load", "look", "first", "refresh", "hash"},
             posted : Nat \cup {Null},
             answer : Message \cup {Null}]

TypeOK ==
  /\ live \in Nat /\ builds \in Nat /\ nonce \in Nat
  /\ count \in Nat /\ saved \in Nat /\ announced \in Nat
  /\ page \in PageType
  /\ socks \in [Socks -> SockType]
  /\ timers \in Nat
  /\ calls \in [Calls -> CallType]
  /\ found \subseteq Nat

NoSock == [pc |-> "free", queue |-> <<>>]
IdleCall == [pc |-> "idle", kind |-> "load", posted |-> Null, answer |-> Null]

Init ==
  /\ live = 0 /\ builds = 0 /\ nonce = 0
  /\ count = 0 /\ saved = 0 /\ announced = 0
  /\ page = [boot |-> "started", shows |-> 0, nonce |-> 0, last |-> 0,
             field |-> 0, edited |-> FALSE, current |-> Null, overruled |-> {}]
  /\ socks = [s \in Socks |-> NoSock]
  /\ timers = 0
  /\ calls = [c \in Calls |-> IdleCall]
  /\ found = {}

-----------------------------------------------------------------------------
(* What the page makes of a message *)

InUse == {s \in Socks : socks[s].pc # "free"}

\* applyHashResult() returns at once: the result counts as known.
Repeated(m) == m.attempts <= page.last

\* applyCandidate(): the dedupe key follows the payload, up or down.
WithCandidate(m, s) ==
  [page EXCEPT !.shows = m.build, !.nonce = m.nonce, !.last = m.attempts,
               !.field = m.nonce, !.edited = FALSE, !.overruled = InUse \ {s}]

\* Mutant of WithResult: the page's candidate keeps its nonce.
WithResultShownOnly(m) ==
  IF Repeated(m) THEN page
  ELSE [page EXCEPT !.last = m.attempts, !.field = m.nonce, !.edited = FALSE]

\* applyHashResult(): the nonce replaces whatever the field holds.
WithResult(m) ==
  IF Repeated(m) THEN page
  ELSE [page EXCEPT !.last = m.attempts, !.field = m.nonce, !.edited = FALSE,
                    !.nonce = IF page.shows # 0 THEN m.nonce ELSE @]

Applied(m, s) == IF m.type = "candidate" THEN WithCandidate(m, s) ELSE WithResult(m)

\* The banner is shown for a result that is applied.
NoteFound(m) ==
  found' = found \cup (IF m.type = "hash" /\ m.found /\ ~Repeated(m) THEN {m.attempts} ELSE {})

-----------------------------------------------------------------------------
(* The page's sockets *)

\* connectWebSocket(): a new socket, and currentWs is it.
ConnectOn(s) ==
  /\ socks[s].pc = "free"
  /\ socks' = [socks EXCEPT ![s].pc = "connecting"]

\* setTimeout(connectWebSocket, WS_RECONNECT_DELAY_MS) elapses.
Reconnect(s) ==
  /\ timers > 0
  /\ ConnectOn(s)
  /\ timers' = timers - 1
  /\ page' = [page EXCEPT !.current = s]
  /\ UNCHANGED <<serverVars, announced, calls, found>>

\* The sockets in gone close: whatever they hold is lost, and each one's
\* listener of 'close' starts a timer.
Closed(gone) ==
  /\ socks' = [s \in Socks |-> IF s \in gone THEN NoSock ELSE socks[s]]
  /\ timers' = timers + Cardinality(gone)
  /\ page' = [page EXCEPT !.overruled = @ \ gone,
                          !.current = IF @ \in gone THEN "closed" ELSE @]

\* Mutant of Disconnect: only the socket that is currentWs reconnects.
DisconnectCurrentOnly(s) ==
  /\ socks[s].pc # "free"
  /\ socks' = [socks EXCEPT ![s] = NoSock]
  /\ timers' = IF page.current = s /\ socks[s].pc # "connecting" THEN timers + 1 ELSE timers
  /\ page' = [page EXCEPT !.overruled = @ \ {s},
                          !.current = IF @ = s THEN "closed" ELSE @]
  /\ UNCHANGED <<serverVars, announced, calls, found>>

\* A socket cannot connect, breaks, or is at last given up; the page keeps
\* what it shows.
Disconnect(s) ==
  /\ socks[s].pc # "free"
  /\ Closed({s})
  /\ UNCHANGED <<serverVars, announced, calls, found>>

\* The network or a sleeping laptop drops the connection, and no 'close' fires.
Die(s) ==
  /\ socks[s].pc \in {"syncing", "open"}
  /\ socks' = [socks EXCEPT ![s] = [pc |-> "dead", queue |-> <<>>]]
  /\ UNCHANGED <<serverVars, announced, page, timers, calls, found>>

\* The page's listener of 'message'.
Deliver(s) ==
  /\ socks[s].queue # <<>>
  /\ LET m == Head(socks[s].queue)
     IN  page' = Applied(m, s) /\ NoteFound(m)
  /\ socks' = [socks EXCEPT ![s].queue = Tail(@)]
  /\ UNCHANGED <<serverVars, announced, timers, calls>>

-----------------------------------------------------------------------------
(* The page's requests *)

Sent(kind, posted) == [pc |-> "sent", kind |-> kind, posted |-> posted, answer |-> Null]

\* init() has loaded the settings and the status: with a payout address it
\* loads the candidate before it connects.
BootLoads(c) ==
  /\ page.boot = "started"
  /\ calls[c].pc = "idle"
  /\ page' = [page EXCEPT !.boot = "loading"]
  /\ calls' = [calls EXCEPT ![c] = Sent("boot", Null)]
  /\ UNCHANGED <<serverVars, announced, socks, timers, found>>

\* init() connects.
BootConnects(s) ==
  /\ page.boot = "started"
  /\ ConnectOn(s)
  /\ page' = [page EXCEPT !.boot = "over", !.current = s]
  /\ UNCHANGED <<serverVars, announced, timers, calls, found>>

\* The settings cannot be loaded: init() throws before it connects.
BootFails ==
  /\ page.boot = "started"
  /\ page' = [page EXCEPT !.boot = "over"]
  /\ UNCHANGED <<serverVars, announced, socks, timers, calls, found>>

\* loadCandidate() after a save of the settings, or the refresh button.
AskCandidate(c, kind) ==
  /\ calls[c].pc = "idle"
  /\ kind \in {"load", "refresh"}
  /\ calls' = [calls EXCEPT ![c] = Sent(kind, Null)]
  /\ UNCHANGED <<serverVars, announced, page, socks, timers, found>>

\* body.nonce of a click on page p: the field, if it differs from the nonce
\* of the candidate.
PostedNonce(p) == IF p.field # p.nonce THEN p.field ELSE Null

\* mineOnce(), by the button or by the timer: a page without candidate loads
\* it first.
MineOnce(c) ==
  /\ calls[c].pc = "idle"
  /\ calls' = [calls EXCEPT ![c] = IF page.shows = 0 THEN Sent("first", Null)
                                   ELSE Sent("hash", PostedNonce(page))]
  /\ UNCHANGED <<serverVars, announced, page, socks, timers, found>>

\* The user types into the nonce field, which the auto-click would disable.
Type(text) ==
  /\ page' = [page EXCEPT !.field = text, !.edited = TRUE]
  /\ UNCHANGED <<serverVars, announced, socks, timers, calls, found>>

\* currentWs.readyState is OPEN, so far as the page can see.
SeemsOpen == page.current \in Socks /\ socks[page.current].pc \in {"syncing", "open", "dead"}

\* The tab is looked at again: its candidate is loaded, and if currentWs is
\* not OPEN the page connects, with any timer still pending.
LookAt(c, s) ==
  /\ IF page.shows # 0
     THEN calls[c].pc = "idle" /\ calls' = [calls EXCEPT ![c] = Sent("look", Null)]
     ELSE UNCHANGED calls
  /\ IF SeemsOpen
     THEN UNCHANGED <<page, socks>>
     ELSE /\ Cardinality(InUse) + timers < Cardinality(Socks)
          /\ page.boot # "over" =>
               Cardinality(InUse) + timers + 1 < Cardinality(Socks)
          /\ ConnectOn(s)
          /\ page' = [page EXCEPT !.current = s]
  /\ UNCHANGED <<serverVars, announced, timers, found>>

\* What awaits the answer goes on, on page p: a click that waited for the
\* candidate posts its hash, init() connects.
GoOn(c, s, p) ==
  /\ calls' = [calls EXCEPT ![c] = IF @.kind = "first" /\ p.shows # 0
                                   THEN Sent("hash", PostedNonce(p)) ELSE IdleCall]
  /\ IF calls[c].kind = "boot"
     THEN ConnectOn(s) /\ page' = [p EXCEPT !.boot = "over", !.current = s]
     ELSE page' = p /\ UNCHANGED socks

\* The answer arrives and is applied.
Arrive(c, s) ==
  /\ calls[c].pc = "answered"
  /\ NoteFound(calls[c].answer)
  /\ GoOn(c, s, Applied(calls[c].answer, Null))
  /\ UNCHANGED <<serverVars, announced, timers>>

\* The call has failed: a message is shown.  The socket may have brought the
\* candidate a click is waiting for.
ArriveFailed(c, s) ==
  /\ calls[c].pc = "failed"
  /\ GoOn(c, s, page)
  /\ UNCHANGED <<serverVars, announced, timers, found>>

-----------------------------------------------------------------------------
(* The server's end of the sockets *)

\* The connection is accepted: it is in wsClients, and the page sees it open.
Accept(s) ==
  /\ socks[s].pc = "connecting"
  /\ socks' = [socks EXCEPT ![s].pc = "syncing"]
  /\ UNCHANGED <<serverVars, announced, page, timers, calls, found>>

\* The live candidate in the form formatCandidate() gives it.
Formatted == [type |-> "candidate", build |-> live, nonce |-> nonce, attempts |-> count]

\* Mutant of Synced: a new connection gets the status only.
SyncedStatusOnly(s) ==
  /\ socks[s].pc = "syncing"
  /\ socks' = [socks EXCEPT ![s].pc = "open"]
  /\ UNCHANGED <<serverVars, announced, page, timers, calls, found>>

\* The connection handler after its await: the candidate of this moment is
\* sent, behind whatever was broadcast during the await.
Synced(s) ==
  /\ socks[s].pc = "syncing"
  /\ socks' = [socks EXCEPT ![s].pc = "open",
                            ![s].queue = IF live = 0 THEN @ ELSE Append(@, Formatted)]
  /\ UNCHANGED <<serverVars, announced, page, timers, calls, found>>

\* broadcast(): to every connection in wsClients; a dead one delivers nothing.
Broadcast(m) ==
  /\ socks' = [s \in Socks |-> IF socks[s].pc \in {"syncing", "open"}
                               THEN [socks[s] EXCEPT !.queue = Append(@, m)] ELSE socks[s]]
  /\ announced' = IF m.type = "hash" /\ m.attempts > announced THEN m.attempts ELSE announced

-----------------------------------------------------------------------------
(* The server's routes *)

\* A call the server is done with: what it asked for no longer matters, but
\* init() and a first click wait for it.
Ended(call, pc, m) ==
  [pc |-> pc, posted |-> Null, answer |-> m,
   kind |-> IF call.kind \in {"boot", "first"} THEN call.kind ELSE "load"]

Answered(call, m) == Ended(call, "answered", m)

Failed(call) == Ended(call, "failed", Null)

Loading(c) == calls[c].kind \in {"boot", "load", "look", "first"}

\* Mutant of ServeLive: a null candidate is served.
ServeAny(c) ==
  /\ calls[c].pc = "sent" /\ Loading(c)
  /\ calls' = [calls EXCEPT ![c] = Answered(@, Formatted)]
  /\ UNCHANGED <<serverVars, announced, page, socks, timers, found>>

\* GET /api/candidate with a live candidate.
ServeLive(c) ==
  /\ calls[c].pc = "sent" /\ Loading(c)
  /\ live # 0
  /\ calls' = [calls EXCEPT ![c] = Answered(@, Formatted)]
  /\ UNCHANGED <<serverVars, announced, page, socks, timers, found>>

\* The calls that may wait for a build: refreshes, and loads while there is no
\* candidate.
MayWait(c) ==
  /\ calls[c].pc = "sent"
  /\ calls[c].kind = "refresh" \/ (live = 0 /\ Loading(c))

\* A build ends: the candidate is broadcast, and the calls that waited for it
\* are answered in the same drain of the microtask queue.
BuildEnds(waiting) ==
  /\ builds + count < MaxNews
  /\ \A c \in waiting : MayWait(c)
  /\ builds' = builds + 1
  /\ live' = builds + 1
  /\ nonce' = 0
  /\ LET m == [type |-> "candidate", build |-> builds + 1, nonce |-> 0, attempts |-> count]
     IN  /\ Broadcast(m)
         /\ calls' = [c \in Calls |-> IF c \in waiting THEN Answered(calls[c], m) ELSE calls[c]]
  /\ UNCHANGED <<count, saved, page, timers, found>>

\* A call fails or is refused, and nothing has changed.
Refuse(c) ==
  /\ calls[c].pc = "sent"
  /\ calls' = [calls EXCEPT ![c] = Failed(@)]
  /\ UNCHANGED <<serverVars, announced, page, socks, timers, found>>

\* handleHash() up to incrementHashes(), on a live candidate.
Counted(posted) ==
  /\ live # 0
  /\ builds + count < MaxNews
  /\ nonce' = IF posted # Null THEN posted ELSE (nonce + 1) % NonceMod
  /\ count' = count + 1
  /\ UNCHANGED <<live, builds, page, timers, found>>

CountedCall(c) ==
  /\ calls[c].pc = "sent" /\ calls[c].kind = "hash"
  /\ Counted(calls[c].posted)

Result(won) == [type |-> "hash", nonce |-> nonce', attempts |-> count + 1, found |-> won]

\* The save throws: the nonce and the count in memory are kept, nothing is
\* announced.
SaveThrows(c) ==
  /\ CountedCall(c)
  /\ calls' = [calls EXCEPT ![c] = Failed(@)]
  /\ UNCHANGED <<saved, announced, socks>>

\* The hash misses: its result is broadcast and returned.
Miss(c) ==
  /\ CountedCall(c)
  /\ saved' = count + 1
  /\ Broadcast(Result(FALSE))
  /\ calls' = [calls EXCEPT ![c] = Answered(@, Result(FALSE))]

\* Another tab's hash misses.
OtherMiss ==
  /\ Counted(Null)
  /\ saved' = count + 1
  /\ Broadcast(Result(FALSE))
  /\ UNCHANGED calls

\* The hash hits: its result waits for submitBlock().
Hit(c) ==
  /\ CountedCall(c)
  /\ saved' = count + 1
  /\ calls' = [calls EXCEPT ![c] = Ended(@, "submitting", Result(TRUE))]
  /\ UNCHANGED <<announced, socks>>

\* The node has answered the submission, in whatever way.
SubmitEnds(c) ==
  /\ calls[c].pc = "submitting"
  /\ Broadcast(calls[c].answer)
  /\ calls' = [calls EXCEPT ![c].pc = "answered"]
  /\ UNCHANGED <<serverVars, page, timers, found>>

\* The server ends and starts again: its sockets close, its handlers are gone,
\* and the count is what was saved.  Answers already sent may still arrive.
Restart ==
  /\ live' = 0 /\ nonce' = 0
  /\ count' = saved
  /\ Closed({s \in Socks : socks[s].pc \in {"syncing", "open"}})
  /\ calls' = [c \in Calls |->
                 IF calls[c].pc \in {"sent", "submitting"}
                 THEN Failed(calls[c]) ELSE calls[c]]
  /\ UNCHANGED <<builds, saved, announced, found>>

-----------------------------------------------------------------------------

SockStep(s) ==
  \/ Accept(s) \/ Synced(s) \/ Deliver(s)
  \/ Disconnect(s) \/ Die(s) \/ Reconnect(s)
  \/ BootConnects(s)
  \/ \E c \in Calls : LookAt(c, s) \/ Arrive(c, s) \/ ArriveFailed(c, s)

PageStep ==
  \/ BootFails
  \/ \E text \in TypedNonces : Type(text)
  \/ \E c \in Calls : BootLoads(c) \/ MineOnce(c)
  \/ \E c \in Calls, kind \in {"load", "refresh"} : AskCandidate(c, kind)

ServerStep ==
  \/ \E c \in Calls :
       ServeLive(c) \/ Refuse(c) \/ SaveThrows(c) \/ Miss(c) \/ Hit(c) \/ SubmitEnds(c)
  \/ \E waiting \in SUBSET Calls : BuildEnds(waiting)
  \/ OtherMiss
  \/ Restart

Next == (\E s \in Socks : SockStep(s)) \/ PageStep \/ ServerStep

Spec == Init /\ [][Next]_vars

-----------------------------------------------------------------------------
(* Properties *)

\* A socket that has had its initial sync and whose messages were all read.
Drained(s) == socks[s].pc = "open" /\ socks[s].queue = <<>>

\* A page that has read everything on an open socket shows the live candidate
\* and knows of every hash announced, unless an answer or another socket has
\* since brought it some other candidate: nothing falls between the initial
\* sync and the broadcasts, over any reconnects, restarts, late results and
\* failed saves, whatever its own clicks bring (index.js:507-511, 532-548;
\* app.js:550-554).
SocketTabsAgree ==
  \A s \in Socks \ page.overruled :
    Drained(s) /\ live # 0 => page.shows = live /\ page.last >= announced

\* Once it has tried to connect, the page always has a socket it has not seen
\* closed, or a timer that will make one, however often sockets of its fail
\* and the visibility handler adds some (app.js:584-602).
NeverStranded ==
  page.current # Null => InUse # {} \/ timers > 0

\* A page posts a nonce only if the user has typed it since the field was last
\* updated: on an untouched field, the nonce of the candidate the page holds
\* and the field never part, whatever arrives from whom in whatever order
\* (app.js:455-466, 500-514).
OnlyTypedNonces ==
  [][\A c \in Calls :
       calls'[c] # calls[c] /\ calls'[c].pc = "sent" /\ calls'[c].posted # Null
         => page'.edited]_vars

-----------------------------------------------------------------------------
(* The inductive invariant behind them *)

\* An answer on its way is a message, and a result that waits for submitBlock()
\* is one the count has been saved with.
AnswersAreReady ==
  \A c \in Calls :
    /\ calls[c].pc \in {"answered", "submitting"} => calls[c].answer \in Message
    /\ calls[c].pc = "submitting" =>
         calls[c].answer.type = "hash" /\ calls[c].answer.attempts <= saved

\* No hash is announced before its count is saved, nor one that a restart would
\* take back.
CountCovers == announced <= saved /\ saved <= count

\* The field of a page that shows a candidate holds its nonce, or what was
\* typed over it.
FieldIsNonce == page.shows # 0 /\ ~page.edited => page.field = page.nonce

\* A message of q, from the i-th on, knows of the n-th hash.
Brings(q, i, n) == \E j \in DOMAIN q : j >= i /\ q[j].attempts >= n

NoCandidate(q) == \A i \in DOMAIN q : q[i].type # "candidate"

\* The last candidate in q is that of the build, and what follows it brings the
\* page up to the n-th hash.
Carries(q, build, n) ==
  \E i \in DOMAIN q :
    /\ q[i].type = "candidate" /\ q[i].build = build
    /\ \A j \in DOMAIN q : j > i => q[j].type # "candidate"
    /\ Brings(q, i, n)

\* What an open socket still holds leads the page to the live candidate, unless
\* the page is there already or some other candidate came another way.
InStep(s) ==
  \/ Carries(socks[s].queue, live, announced)
  \/ /\ NoCandidate(socks[s].queue)
     /\ \/ s \in page.overruled
        \/ /\ page.shows = live
           /\ page.last >= announced \/ Brings(socks[s].queue, 1, announced)

SocketsInStep == \A s \in Socks : socks[s].pc = "open" /\ live # 0 => InStep(s)

IInv ==
  /\ TypeOK
  /\ AnswersAreReady
  /\ CountCovers
  /\ FieldIsNonce
  /\ SocketsInStep
  /\ NeverStranded

-----------------------------------------------------------------------------
(* What the comments say, and the code does not do *)

\* app.js:590-595: the moment the tab is looked at again, the page makes sure
\* that the socket is really still open, and reconnects if it is not.
LookedAtIsConnected ==
  [][(\E c \in Calls : calls[c].pc = "idle" /\ calls'[c].kind = "look" /\ calls'[c].pc = "sent")
       => \E s \in Socks : socks'[s].pc \in {"connecting", "syncing", "open"}]_vars

\* app.js:451-454: of the two copies of a result, one wins: when the answer to
\* a click that found a block has been handled, the page has shown it.
FoundIsShown ==
  [][\A c \in Calls :
       calls[c].pc = "answered" /\ calls'[c].pc = "idle"
         /\ calls[c].answer.type = "hash" /\ calls[c].answer.found
         => calls[c].answer.attempts \in found']_vars
=============================================================================
