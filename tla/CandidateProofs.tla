-------------------------- MODULE CandidateProofs ---------------------------
(***************************************************************************)
(* Proofs about Candidate.tla, for any number of handlers, polls, builds   *)
(* and addresses, any bound on the chain, and with or without failing and  *)
(* truncated RPC calls.  IInv is inductive; every safety property of the   *)
(* module follows from it, and so does the refinement of CandidateService. *)
(***************************************************************************)
EXTENDS Candidate, TLAPS

-----------------------------------------------------------------------------
(* The two operations that several actions share                           *)

\* After buildCandidateShared() the build the caller gets is the one that
\* runs, and what the invariant says of builds still holds.
LEMMA BuildSharedGivesRunning ==
  ASSUME IInv, NEW b \in Builds, BuildShared(b), UNCHANGED <<tip, candidate>>
  PROVE  /\ builds' \in [Builds -> BuildType]
         /\ inFlight' = b
         /\ Running(b)'
         /\ OneBuildInFlight'
         /\ \A c \in Builds : Running(c) => Running(c)'
         /\ AnswersAreNewer'
<1> USE ConstantsOK
<1>1. CASE inFlight = b /\ UNCHANGED <<builds, inFlight>>
  BY <1>1 DEF IInv, TypeOK, OneBuildInFlight, Running, AnswersAreNewer
<1>2. CASE inFlight = Null /\ payout \in Addrs /\ StartBuild(b)
  <2>1. /\ builds' = [builds EXCEPT ![b] =
                        [phase |-> "called", payout |-> payout, height |-> 0]]
        /\ inFlight' = b
        /\ payout \in Addrs
    BY <1>2 DEF StartBuild, IInv, TypeOK
  <2>2. \A c \in Builds : ~Running(c)
    BY <1>2 DEF IInv, OneBuildInFlight
  <2>3. builds' \in [Builds -> BuildType]
    BY <2>1 DEF IInv, TypeOK, BuildType
  <2>4. Running(b)' /\ OneBuildInFlight'
    BY <2>1, <2>2 DEF IInv, TypeOK, OneBuildInFlight, Running
  <2>5. AnswersAreNewer'
    BY <2>1, <2>2 DEF IInv, TypeOK, AnswersAreNewer, Running
  <2> QED BY <2>1, <2>2, <2>3, <2>4, <2>5
<1> QED BY <1>1, <1>2 DEF BuildShared

\* When the running build settles no build runs, nobody waits any more, and
\* whoever waited has the outcome.
LEMMA SettleWakesAll ==
  ASSUME IInv, NEW b \in Builds, Running(b),
         NEW outcome \in {"resumed", "failed"}, Settle(b, outcome)
  PROVE  /\ builds' \in [Builds -> BuildType]
         /\ reqs' \in [Requests -> ReqType]
         /\ polls' \in [Polls -> PollType]
         /\ inFlight' = Null
         /\ \A c \in Builds : ~Running(c)'
         /\ \A r \in Requests :
              reqs'[r].pc = IF reqs[r].pc = "awaiting" THEN outcome ELSE reqs[r].pc
         /\ \A p \in Polls :
              polls'[p].pc = IF polls[p].pc = "awaiting" THEN outcome ELSE polls[p].pc
<1> USE ConstantsOK
<1>1. inFlight = b /\ \A c \in Builds : Running(c) => c = b
  BY DEF IInv, OneBuildInFlight
<1>2. builds' \in [Builds -> BuildType] /\ inFlight' = Null
  BY DEF Settle, IInv, TypeOK, BuildType, IdleBuild
<1>3. \A c \in Builds : ~Running(c)'
  BY <1>1 DEF Settle, IInv, TypeOK, BuildType, IdleBuild, Running
<1>4. ASSUME NEW r \in Requests
      PROVE  /\ reqs'[r] \in ReqType
             /\ reqs'[r].pc = IF reqs[r].pc = "awaiting" THEN outcome ELSE reqs[r].pc
  <2>1. reqs[r] \in ReqType /\ reqs'[r] = Wake(reqs[r], b, outcome)
    BY DEF Settle, IInv, TypeOK
  <2>2. reqs[r].pc = "awaiting" => reqs[r].on = b
    BY <1>1 DEF IInv, NoOrphanWaiter
  <2> QED BY <2>1, <2>2 DEF Wake, ReqType
<1>5. ASSUME NEW p \in Polls
      PROVE  /\ polls'[p] \in PollType
             /\ polls'[p].pc = IF polls[p].pc = "awaiting" THEN outcome ELSE polls[p].pc
  <2>1. polls[p] \in PollType /\ polls'[p] = Wake(polls[p], b, outcome)
    BY DEF Settle, IInv, TypeOK
  <2>2. polls[p].pc = "awaiting" => polls[p].on = b
    BY <1>1 DEF IInv, NoOrphanWaiter
  <2> QED BY <2>1, <2>2 DEF Wake, PollType
<1>6. reqs' \in [Requests -> ReqType] /\ polls' \in [Polls -> PollType]
  BY <1>4, <1>5 DEF Settle
<1> QED BY <1>2, <1>3, <1>4, <1>5, <1>6

-----------------------------------------------------------------------------
(* The inductive invariant *)

\* The invariant holds at first.
LEMMA InitIInv == Init => IInv
<1> SUFFICES ASSUME Init PROVE IInv
  OBVIOUS
<1>1. IdleBuild \in BuildType /\ IdleReq \in ReqType /\ IdlePoll \in PollType
  BY DEF IdleBuild, BuildType, IdleReq, ReqType, IdlePoll, PollType
<1>2. TypeOK
  BY <1>1 DEF Init, TypeOK
<1>3. /\ \A b \in Builds : builds[b].phase = "idle"
      /\ \A r \in Requests : reqs[r].pc = "idle"
      /\ \A p \in Polls : polls[p].pc = "idle"
  BY DEF Init, IdleBuild, IdleReq, IdlePoll
<1>4. OneBuildInFlight /\ NoOrphanWaiter /\ ResumedHasCandidate
  BY <1>3, ConstantsOK
     DEF Init, OneBuildInFlight, NoOrphanWaiter, ResumedHasCandidate, Running
<1>5. AnswersAreNewer /\ CoolingHasCandidate
  BY <1>3 DEF Init, AnswersAreNewer, CoolingHasCandidate, Running
<1> QED BY <1>2, <1>4, <1>5 DEF IInv

\* No step of a build breaks it.
LEMMA BuildStepIInv ==
  ASSUME IInv, NEW b \in Builds, BuildStep(b)
  PROVE  IInv'
<1> USE ConstantsOK
<1>1. CASE Publish(b)
  <2>1. Running(b) /\ Settle(b, "resumed")
    BY <1>1 DEF Publish, Running
  <2>2. /\ candidate' = [height |-> builds[b].height, payout |-> builds[b].payout]
        /\ cooling' = TRUE
        /\ UNCHANGED <<tip, payout, lastKnown>>
    BY <1>1 DEF Publish
  <2>3. builds[b].height \in 1..(tip + 1) /\ builds[b].payout \in Addrs
    BY <1>1, <2>1 DEF Publish, IInv, AnswersAreNewer
  <2>4. candidate' \in CandidateType /\ candidate' # Null
    BY <2>2, <2>3 DEF CandidateType, IInv, TypeOK
  <2>5. /\ builds' \in [Builds -> BuildType]
        /\ reqs' \in [Requests -> ReqType]
        /\ polls' \in [Polls -> PollType]
        /\ inFlight' = Null
        /\ \A c \in Builds : ~Running(c)'
        /\ \A r \in Requests : reqs'[r].pc # "awaiting"
        /\ \A p \in Polls : polls'[p].pc # "awaiting"
    BY <2>1, SettleWakesAll
  <2>6. TypeOK'
    BY <2>2, <2>4, <2>5 DEF IInv, TypeOK
  <2>7. OneBuildInFlight' /\ NoOrphanWaiter' /\ ResumedHasCandidate' /\ CoolingHasCandidate'
    BY <2>4, <2>5
       DEF OneBuildInFlight, NoOrphanWaiter, ResumedHasCandidate, CoolingHasCandidate
  <2>8. AnswersAreNewer'
    BY <2>2, <2>3, <2>5 DEF AnswersAreNewer, Running
  <2> QED BY <2>6, <2>7, <2>8 DEF IInv
<1>2. CASE BuildFails(b)
  <2>1. Running(b) /\ Settle(b, "failed")
    BY <1>2 DEF BuildFails, Running
  <2>2. UNCHANGED <<tip, payout, candidate, cooling, lastKnown>>
    BY <1>2 DEF BuildFails
  <2>3. /\ builds' \in [Builds -> BuildType]
        /\ reqs' \in [Requests -> ReqType]
        /\ polls' \in [Polls -> PollType]
        /\ inFlight' = Null
        /\ \A c \in Builds : ~Running(c)'
        /\ \A r \in Requests :
             reqs'[r].pc = IF reqs[r].pc = "awaiting" THEN "failed" ELSE reqs[r].pc
        /\ \A p \in Polls :
             polls'[p].pc = IF polls[p].pc = "awaiting" THEN "failed" ELSE polls[p].pc
    BY <2>1, SettleWakesAll
  <2>4. TypeOK' /\ CoolingHasCandidate'
    BY <2>2, <2>3 DEF IInv, TypeOK, CoolingHasCandidate
  <2>5. OneBuildInFlight' /\ NoOrphanWaiter' /\ ResumedHasCandidate'
    BY <2>2, <2>3 DEF IInv, OneBuildInFlight, NoOrphanWaiter, ResumedHasCandidate
  <2>6. AnswersAreNewer'
    BY <2>2, <2>3 DEF IInv, AnswersAreNewer, Running
  <2> QED BY <2>4, <2>5, <2>6 DEF IInv
<1>3. CASE NodeServesTemplate(b)
  <2>1. TypeOK'
    BY <1>3 DEF NodeServesTemplate, IInv, TypeOK, BuildType
  <2>2. \A c \in Builds : Running(c)' <=> Running(c)
    BY <1>3 DEF NodeServesTemplate, IInv, TypeOK, Running
  <2>3. OneBuildInFlight' /\ NoOrphanWaiter' /\ ResumedHasCandidate' /\ CoolingHasCandidate'
    BY <1>3, <2>2 DEF NodeServesTemplate, IInv, OneBuildInFlight, NoOrphanWaiter,
                      ResumedHasCandidate, CoolingHasCandidate
  <2>4. AnswersAreNewer'
    BY <1>3 DEF NodeServesTemplate, IInv, TypeOK, CandidateType, BuildType, AnswersAreNewer, Running
  <2> QED BY <2>1, <2>3, <2>4 DEF IInv
<1>4. CASE ResponseLost(b)
  <2>1. TypeOK'
    BY <1>4 DEF ResponseLost, IInv, TypeOK, BuildType
  <2>2. \A c \in Builds : Running(c)' <=> Running(c)
    BY <1>4 DEF ResponseLost, IInv, TypeOK, Running
  <2>3. OneBuildInFlight' /\ NoOrphanWaiter' /\ ResumedHasCandidate' /\ CoolingHasCandidate'
    BY <1>4, <2>2 DEF ResponseLost, IInv, OneBuildInFlight, NoOrphanWaiter,
                      ResumedHasCandidate, CoolingHasCandidate
  <2>4. AnswersAreNewer'
    BY <1>4 DEF ResponseLost, IInv, TypeOK, BuildType, AnswersAreNewer, Running
  <2> QED BY <2>1, <2>3, <2>4 DEF IInv
<1> QED BY <1>1, <1>2, <1>3, <1>4 DEF BuildStep

\* No step of a handler breaks it.
LEMMA ReqStepIInv ==
  ASSUME IInv, NEW r \in Requests, ReqStep(r)
  PROVE  IInv'
<1> USE ConstantsOK
<1>1. ASSUME NEW b \in Builds, AwaitBuild(r, b)
      PROVE  IInv'
  <2>1. /\ BuildShared(b)
        /\ reqs' = [reqs EXCEPT ![r] = [pc |-> "awaiting", on |-> b]]
        /\ UNCHANGED <<tip, payout, candidate, cooling, lastKnown, polls>>
    BY <1>1 DEF AwaitBuild
  <2>2. /\ builds' \in [Builds -> BuildType]
        /\ inFlight' = b
        /\ Running(b)'
        /\ OneBuildInFlight'
        /\ \A c \in Builds : Running(c) => Running(c)'
        /\ AnswersAreNewer'
    BY <2>1, BuildSharedGivesRunning
  <2>3. TypeOK'
    BY <2>1, <2>2 DEF IInv, TypeOK, ReqType
  <2>4. NoOrphanWaiter'
    BY <2>1, <2>2 DEF IInv, TypeOK, NoOrphanWaiter
  <2>5. ResumedHasCandidate' /\ CoolingHasCandidate'
    BY <2>1 DEF IInv, TypeOK, ResumedHasCandidate, CoolingHasCandidate
  <2> QED BY <2>2, <2>3, <2>4, <2>5 DEF IInv
<1>2. ASSUME NEW outcome \in {"resumed", "failed"}, Continue(r, outcome),
             reqs[r].pc = "idle", outcome = "resumed" => candidate # Null
      PROVE  IInv'
  <2>1. TypeOK'
    BY <1>2 DEF Continue, IInv, TypeOK, ReqType
  <2>2. OneBuildInFlight' /\ AnswersAreNewer' /\ CoolingHasCandidate'
    BY <1>2 DEF Continue, IInv, OneBuildInFlight, Running, AnswersAreNewer, CoolingHasCandidate
  <2>3. NoOrphanWaiter' /\ ResumedHasCandidate'
    BY <1>2 DEF Continue, IInv, TypeOK, Running, NoOrphanWaiter, ResumedHasCandidate
  <2> QED BY <2>1, <2>2, <2>3 DEF IInv
<1>3. CASE GetOrCreate(r)
  BY <1>1, <1>2, <1>3 DEF GetOrCreate
<1>4. CASE RequestRefresh(r)
  BY <1>1, <1>2, <1>4 DEF RequestRefresh
<1>5. CASE Respond(r)
  <2>1. TypeOK'
    BY <1>5 DEF Respond, IInv, TypeOK, ReqType, IdleReq
  <2>2. OneBuildInFlight' /\ AnswersAreNewer' /\ CoolingHasCandidate'
    BY <1>5 DEF Respond, IInv, OneBuildInFlight, Running, AnswersAreNewer, CoolingHasCandidate
  <2>3. NoOrphanWaiter' /\ ResumedHasCandidate'
    BY <1>5 DEF Respond, IInv, TypeOK, IdleReq, Running, NoOrphanWaiter, ResumedHasCandidate
  <2> QED BY <2>1, <2>2, <2>3 DEF IInv
<1> QED BY <1>3, <1>4, <1>5 DEF ReqStep

\* No step of the poll breaks it.
LEMMA PollStepIInv ==
  ASSUME IInv, NEW p \in Polls, PollStep(p)
  PROVE  IInv'
<1> USE ConstantsOK
\* Every poll step but the one that starts or joins a build leaves the builds,
\* the handlers and the candidate alone, and the poll does not wait.
<1>1. ASSUME UNCHANGED <<tip, payout, candidate, inFlight, cooling, builds, reqs>>,
             lastKnown' \in Nat \cup {Null},
             NEW s \in PollType, s.pc \in {"idle", "asked", "answered"},
             polls' = [polls EXCEPT ![p] = s]
      PROVE  IInv'
  <2>1. TypeOK'
    BY <1>1 DEF IInv, TypeOK
  <2>2. OneBuildInFlight' /\ AnswersAreNewer' /\ CoolingHasCandidate'
    BY <1>1 DEF IInv, OneBuildInFlight, Running, AnswersAreNewer, CoolingHasCandidate
  <2>3. NoOrphanWaiter' /\ ResumedHasCandidate'
    BY <1>1 DEF IInv, TypeOK, Running, NoOrphanWaiter, ResumedHasCandidate
  <2> QED BY <2>1, <2>2, <2>3 DEF IInv
<1>2. /\ polls[p] \in PollType
      /\ IdlePoll \in PollType /\ IdlePoll.pc = "idle"
      /\ lastKnown \in Nat \cup {Null}
  BY DEF IInv, TypeOK, PollType, IdlePoll
<1>3. CASE PollStart(p)
  <2> DEFINE s == [pc |-> "asked", on |-> Null, configured |-> payout # NoAddr, blocks |-> 0]
  <2>1. s \in PollType /\ s.pc = "asked"
    BY DEF PollType
  <2> QED BY <1>1, <1>2, <1>3, <2>1 DEF PollStart
<1>4. CASE PollFails(p)
  BY <1>1, <1>2, <1>4 DEF PollFails
<1>5. CASE NodeServesInfo(p)
  <2> DEFINE s == [pc |-> "answered", on |-> Null,
                   configured |-> polls[p].configured, blocks |-> tip]
  <2>1. s \in PollType /\ s.pc = "answered"
    BY <1>2 DEF PollType, IInv, TypeOK
  <2> QED BY <1>1, <1>2, <1>5, <2>1 DEF NodeServesInfo
<1>6. ASSUME PollEnds(p)
      PROVE  IInv'
  <2>1. polls[p].blocks \in Nat
    BY <1>2 DEF PollType
  <2> QED BY <1>1, <1>2, <1>6, <2>1 DEF PollEnds
<1>7. ASSUME NEW b \in Builds, PollAwaits(p, b)
      PROVE  IInv'
  <2>1. /\ BuildShared(b)
        /\ polls' = [polls EXCEPT ![p] = [pc |-> "awaiting", on |-> b,
                                         configured |-> TRUE, blocks |-> polls[p].blocks]]
        /\ UNCHANGED <<tip, payout, candidate, cooling, lastKnown, reqs>>
    BY <1>7 DEF PollAwaits
  <2>2. /\ builds' \in [Builds -> BuildType]
        /\ inFlight' = b
        /\ Running(b)'
        /\ OneBuildInFlight'
        /\ \A c \in Builds : Running(c) => Running(c)'
        /\ AnswersAreNewer'
    BY <2>1, BuildSharedGivesRunning
  <2>3. TypeOK'
    BY <1>2, <2>1, <2>2 DEF IInv, TypeOK, PollType
  <2>4. NoOrphanWaiter'
    BY <2>1, <2>2 DEF IInv, TypeOK, NoOrphanWaiter
  <2>5. ResumedHasCandidate' /\ CoolingHasCandidate'
    BY <2>1 DEF IInv, TypeOK, ResumedHasCandidate, CoolingHasCandidate
  <2> QED BY <2>2, <2>3, <2>4, <2>5 DEF IInv
<1>8. CASE PollAnswered(p)
  BY <1>1, <1>2, <1>6, <1>7, <1>8 DEF PollAnswered
<1>9. CASE PollResumes(p)
  BY <1>6, <1>9 DEF PollResumes
<1> QED BY <1>3, <1>4, <1>5, <1>8, <1>9 DEF PollStep

\* No step breaks it.
LEMMA NextIInv == IInv /\ [Next]_vars => IInv'
<1> SUFFICES ASSUME IInv, [Next]_vars PROVE IInv'
  OBVIOUS
<1> USE ConstantsOK
<1>1. ASSUME NEW a \in Addrs \cup {NoAddr}, SaveSettings(a)
      PROVE  IInv'
  BY <1>1 DEF SaveSettings, IInv, TypeOK, OneBuildInFlight, NoOrphanWaiter,
              ResumedHasCandidate, AnswersAreNewer, CoolingHasCandidate, Running
<1>2. CASE CooldownElapses
  BY <1>2 DEF CooldownElapses, IInv, TypeOK, OneBuildInFlight, NoOrphanWaiter,
              ResumedHasCandidate, AnswersAreNewer, CoolingHasCandidate, Running
<1>3. CASE TipAdvances
  <2>1. tip' = tip + 1 /\ tip \in Nat
    BY <1>3 DEF TipAdvances, IInv, TypeOK
  <2>2. UNCHANGED <<payout, candidate, inFlight, cooling, lastKnown, builds, reqs, polls>>
    BY <1>3 DEF TipAdvances
  <2>3. AnswersAreNewer'
    BY <2>1, <2>2 DEF IInv, TypeOK, CandidateType, BuildType, AnswersAreNewer, Running
  <2> QED BY <2>1, <2>2, <2>3 DEF IInv, TypeOK, OneBuildInFlight, NoOrphanWaiter,
                                  ResumedHasCandidate, CoolingHasCandidate, Running
<1>4. CASE UNCHANGED vars
  BY <1>4 DEF vars, IInv, TypeOK, OneBuildInFlight, NoOrphanWaiter,
              ResumedHasCandidate, AnswersAreNewer, CoolingHasCandidate, Running
<1> QED BY <1>1, <1>2, <1>3, <1>4, BuildStepIInv, ReqStepIInv, PollStepIInv DEF Next

\* The invariant that the safety properties follow from.
THEOREM SpecIInv == Spec => []IInv
BY InitIInv, NextIInv, PTL DEF Spec

-----------------------------------------------------------------------------
(* The safety properties *)

\* Every variable keeps its type.
THEOREM TypeCorrect == Spec => []TypeOK
BY SpecIInv, PTL DEF IInv

\* At most one getblocktemplate is outstanding, and inFlightBuild is the build
\* that is running.
THEOREM Coalescing == Spec => []OneBuildInFlight
BY SpecIInv, PTL DEF IInv

\* No handler and no poll waits for a build that has already ended.
THEOREM WaitersHaveBuild == Spec => []NoOrphanWaiter
BY SpecIInv, PTL DEF IInv

\* `candidate` is not null wherever the code after an await reads its fields.
THEOREM NeverServesNull == Spec => []ResumedHasCandidate
BY SpecIInv, PTL DEF IInv

\* The candidate and the template about to replace it are heights the chain
\* allows, in order, and pay an address that decodes.
THEOREM AnswersInOrder == Spec => []AnswersAreNewer
BY SpecIInv, PTL DEF IInv

\* The candidate's height never goes down and the candidate never goes away.
THEOREM Monotone == Spec => HeightNeverRegresses
<1>1. ASSUME IInv, [Next]_vars, candidate # Null
      PROVE  candidate' # Null /\ candidate'.height >= candidate.height
  <2> USE ConstantsOK
  <2>1. candidate.height \in Nat
    BY <1>1 DEF IInv, TypeOK, CandidateType
  <2>2. CASE candidate' = candidate
    BY <1>1, <2>1, <2>2
  <2>3. ASSUME NEW b \in Builds, Publish(b)
        PROVE  candidate' # Null /\ candidate'.height >= candidate.height
    <3>1. candidate' = [height |-> builds[b].height, payout |-> builds[b].payout]
      BY <2>3 DEF Publish
    <3>2. /\ builds[b].height \in Nat
          /\ builds[b].payout \in Addrs
          /\ builds[b].height >= candidate.height
      BY <1>1, <2>3 DEF Publish, IInv, AnswersAreNewer, Running
    <3> QED BY <3>1, <3>2
  <2>4. candidate' = candidate \/ \E b \in Builds : Publish(b)
    BY <1>1 DEF Next, vars, BuildStep, BuildFails, NodeServesTemplate, ResponseLost,
                ReqStep, GetOrCreate, RequestRefresh, AwaitBuild, Continue, Respond,
                PollStep, PollStart, PollFails, NodeServesInfo, PollAnswered, PollEnds,
                PollAwaits, PollResumes, SaveSettings, CooldownElapses, TipAdvances
  <2> QED BY <2>2, <2>3, <2>4
<1> QED BY <1>1, SpecIInv, PTL DEF Spec, HeightNeverRegresses

\* While the cooldown runs only a poll that starts to wait can start a build.
THEOREM CooldownHolds == Spec => OnlyPollsSkipCooldown
<1>1. ASSUME IInv, [Next]_vars, cooling, NEW b \in Builds, ~Running(b), Running(b)'
      PROVE  \E p \in Polls : polls[p].pc # "awaiting" /\ polls'[p].pc = "awaiting"
  <2> USE ConstantsOK
  <2>1. candidate # Null
    BY <1>1 DEF IInv, CoolingHasCandidate
  <2>2. ASSUME NEW c \in Builds, BuildStep(c)
        PROVE  FALSE
    <3>1. CASE Publish(c) \/ BuildFails(c)
      <4>1. Running(c)
        BY <3>1 DEF Publish, BuildFails, Running
      <4>2. PICK o \in {"resumed", "failed"} : Settle(c, o)
        BY <3>1 DEF Publish, BuildFails
      <4>3. \A d \in Builds : ~Running(d)'
        BY <1>1, <4>1, <4>2, SettleWakesAll
      <4> QED BY <1>1, <4>3
    <3>2. CASE NodeServesTemplate(c) \/ ResponseLost(c)
      BY <1>1, <3>2 DEF NodeServesTemplate, ResponseLost, IInv, TypeOK, Running
    <3> QED BY <2>2, <3>1, <3>2 DEF BuildStep
  <2>3. ASSUME NEW r \in Requests, ReqStep(r)
        PROVE  FALSE
    <3>1. ASSUME NEW c \in Builds, AwaitBuild(r, c), inFlight # Null
          PROVE  FALSE
      BY <1>1, <3>1 DEF AwaitBuild, BuildShared, Running
    <3>2. ASSUME UNCHANGED builds
          PROVE  FALSE
      BY <1>1, <3>2 DEF Running
    <3> QED BY <1>1, <2>1, <2>3, <3>1, <3>2
            DEF ReqStep, GetOrCreate, RequestRefresh, Continue, Respond
  <2>4. ASSUME NEW p \in Polls, PollStep(p)
        PROVE  polls[p].pc # "awaiting" /\ polls'[p].pc = "awaiting"
    <3>1. ASSUME UNCHANGED builds
          PROVE  FALSE
      BY <1>1, <3>1 DEF Running
    <3>2. PollAnswered(p) /\ \E c \in Builds : PollAwaits(p, c)
      BY <2>4, <3>1 DEF PollStep, PollStart, PollFails, NodeServesInfo, PollAnswered,
                        PollEnds, PollResumes
    <3> QED BY <1>1, <3>2 DEF PollAnswered, PollAwaits, IInv, TypeOK
  <2>5. ~ UNCHANGED builds
    BY <1>1 DEF Running
  <2> QED BY <1>1, <2>2, <2>3, <2>4, <2>5
          DEF Next, vars, SaveSettings, CooldownElapses, TipAdvances
<1>2. IInv /\ [Next]_vars =>
        [cooling /\ (\E b \in Builds : ~Running(b) /\ Running(b)')
           => \E p \in Polls : polls[p].pc # "awaiting" /\ polls'[p].pc = "awaiting"]_vars
  BY <1>1
<1> QED BY <1>2, SpecIInv, PTL DEF Spec, OnlyPollsSkipCooldown

-----------------------------------------------------------------------------
(* Candidate implements CandidateService *)

\* A step of one handler alone changes that handler alone in the service.
LEMMA MoveOne ==
  ASSUME IInv, NEW r \in Requests, NEW s \in ReqType,
         reqs' = [reqs EXCEPT ![r] = s], UNCHANGED <<tip, candidate>>,
         NEW from, NEW to, from = ServiceReqs[r],
         to = IF s.pc = "awaiting" THEN "pending"
              ELSE IF s.pc = "resumed" THEN "served" ELSE s.pc
  PROVE  Service!Move(r, from, to)
<1>1. reqs \in [Requests -> ReqType]
  BY DEF IInv, TypeOK
<1>2. ServiceReqs' = [ServiceReqs EXCEPT ![r] = to]
  BY <1>1 DEF ServiceReqs, ReqType
<1> QED BY <1>2 DEF Service!Move

\* A build that settles, settles every pending request of the service.
LEMMA SettleIsSettleAll ==
  ASSUME IInv, NEW b \in Builds, Running(b),
         NEW outcome \in {"resumed", "failed"}, Settle(b, outcome),
         NEW shown, shown = IF outcome = "resumed" THEN "served" ELSE "failed"
  PROVE  Service!SettleAll(shown)
<1>1. /\ reqs \in [Requests -> ReqType] /\ reqs' \in [Requests -> ReqType]
      /\ \A r \in Requests :
           reqs'[r].pc = IF reqs[r].pc = "awaiting" THEN outcome ELSE reqs[r].pc
  BY SettleWakesAll DEF IInv, TypeOK
<1>2. ASSUME NEW r \in Requests
      PROVE  ServiceReqs'[r] = IF ServiceReqs[r] = "pending" THEN shown ELSE ServiceReqs[r]
  BY <1>1, <1>2 DEF ServiceReqs, ReqType
<1> QED BY <1>2 DEF Service!SettleAll, ServiceReqs

\* Every step is one of the service, or none.
LEMMA StepImplementsService ==
  IInv /\ [Next]_vars => [Service!Next]_(Service!vars)
<1> SUFFICES ASSUME IInv, [Next]_vars
             PROVE  Service!Next \/ UNCHANGED <<tip, candidate, ServiceReqs>>
  BY DEF Service!vars
<1> USE ConstantsOK
<1>1. ASSUME UNCHANGED <<tip, candidate, reqs>>
      PROVE  UNCHANGED <<tip, candidate, ServiceReqs>>
  BY <1>1 DEF ServiceReqs
<1>2. ASSUME NEW b \in Builds, BuildStep(b)
      PROVE  Service!Next \/ UNCHANGED <<tip, candidate, reqs>>
  <2>1. CASE Publish(b)
    <3> DEFINE h == builds[b].height
               a == builds[b].payout
    <3>1. Running(b) /\ Settle(b, "resumed")
      BY <2>1 DEF Publish, Running
    <3>2. h \in 1..(tip + 1) /\ a \in Addrs /\ (candidate # Null => h >= candidate.height)
      BY <2>1, <3>1 DEF Publish, IInv, AnswersAreNewer
    <3>3. Service!SettleAll("served")
      BY <3>1, SettleIsSettleAll
    <3>4. Service!PublishFor(h, a)
      BY <2>1, <3>2, <3>3 DEF Publish, IInv, TypeOK, Service!PublishFor
    <3> QED BY <3>2, <3>4 DEF Service!Next
  <2>2. CASE BuildFails(b)
    <3>1. Running(b) /\ Settle(b, "failed")
      BY <2>2 DEF BuildFails, Running
    <3>2. Service!SettleAll("failed")
      BY <3>1, SettleIsSettleAll
    <3> QED BY <2>2, <3>2 DEF BuildFails, Service!FailAll, Service!Next
  <2> QED BY <1>2, <2>1, <2>2 DEF BuildStep, NodeServesTemplate, ResponseLost
<1>3. ASSUME NEW r \in Requests, ReqStep(r)
      PROVE  Service!Next
  <2>1. reqs[r] \in ReqType /\ r \in DOMAIN ServiceReqs
    BY DEF IInv, TypeOK, ServiceReqs
  <2>2. ASSUME reqs[r].pc = "idle", NEW b \in Builds, AwaitBuild(r, b)
        PROVE  Service!Next
    <3> DEFINE s == [pc |-> "awaiting", on |-> b]
    <3>1. s \in ReqType /\ ServiceReqs[r] = "idle"
      BY <2>1, <2>2 DEF ReqType, ServiceReqs
    <3>2. Service!Move(r, "idle", "pending")
      BY <2>2, <3>1, MoveOne DEF AwaitBuild
    <3> QED BY <3>2 DEF Service!Ask, Service!Next
  <2>3. ASSUME reqs[r].pc = "idle", Continue(r, "failed")
        PROVE  Service!Next
    <3> DEFINE s == [pc |-> "failed", on |-> Null]
    <3>1. s \in ReqType /\ ServiceReqs[r] = "idle"
      BY <2>3 DEF ReqType, ServiceReqs
    <3>3. Service!Move(r, "idle", "failed")
      BY <2>3, <3>1, MoveOne DEF Continue
    <3> QED BY <3>3 DEF Service!Refuse, Service!Next
  <2>4. ASSUME reqs[r].pc = "idle", candidate # Null, Continue(r, "resumed")
        PROVE  Service!Next
    <3> DEFINE s == [pc |-> "resumed", on |-> Null]
    <3>1. s \in ReqType /\ ServiceReqs[r] = "idle"
      BY <2>4 DEF ReqType, ServiceReqs
    <3>3. Service!Move(r, "idle", "served")
      BY <2>4, <3>1, MoveOne DEF Continue
    <3> QED BY <2>4, <3>3 DEF Service!ServeLive, Service!Next
  <2>5. CASE Respond(r)
    <3>1. IdleReq \in ReqType /\ IdleReq.pc = "idle"
      BY DEF IdleReq, ReqType
    <3>2. ServiceReqs[r] \in {"served", "failed"}
      BY <2>5 DEF Respond, Settled, ServiceReqs
    <3>3. Service!Move(r, "served", "idle") \/ Service!Move(r, "failed", "idle")
      BY <2>5, <3>1, <3>2, MoveOne DEF Respond
    <3> QED BY <3>3 DEF Service!Done, Service!Next
  <2> QED BY <1>3, <2>2, <2>3, <2>4, <2>5 DEF ReqStep, GetOrCreate, RequestRefresh
<1>4. CASE TipAdvances
  BY <1>1, <1>4 DEF TipAdvances, ServiceReqs, Service!Advance, Service!Next
<1>5. ASSUME NEW p \in Polls, PollStep(p)
      PROVE  UNCHANGED <<tip, candidate, reqs>>
  BY <1>5 DEF PollStep, PollStart, PollFails, NodeServesInfo, PollAnswered, PollEnds,
              PollAwaits, PollResumes
<1>6. ASSUME CooldownElapses \/ UNCHANGED vars \/ \E a \in Addrs \cup {NoAddr} : SaveSettings(a)
      PROVE  UNCHANGED <<tip, candidate, reqs>>
  BY <1>6 DEF CooldownElapses, vars, SaveSettings
<1> QED BY <1>1, <1>2, <1>3, <1>4, <1>5, <1>6 DEF Next

\* Handlers see a register that only moves forward along the chain, and are
\* settled together: the module implements CandidateService.
THEOREM Implements == Spec => ImplementsService
<1>1. Init => Service!Init
  BY DEF Init, IdleReq, ServiceReqs, Service!Init
<1> QED BY <1>1, SpecIInv, StepImplementsService, PTL
        DEF Spec, ImplementsService, Service!Spec
=============================================================================
