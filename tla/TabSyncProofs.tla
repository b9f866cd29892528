--------------------------- MODULE TabSyncProofs ----------------------------
(***************************************************************************)
(* Proofs about TabSync.tla, for any number of sockets, calls, builds and  *)
(* hashes and queues of any length.  IInv is inductive; the safety         *)
(* properties of the module follow from it.                                *)
(***************************************************************************)
EXTENDS TabSync, SequenceTheorems, FiniteSetTheorems, TLAPS

-----------------------------------------------------------------------------
(* The queue of a socket *)

\* A queue, and the last place of a longer one.
LEMMA Appended ==
  ASSUME NEW q \in Seq(Message), NEW m \in Message
  PROVE  /\ Append(q, m) \in Seq(Message)
         /\ Len(q) \in Nat /\ DOMAIN q = 1..Len(q)
         /\ DOMAIN Append(q, m) = 1..(Len(q) + 1)
         /\ \A i \in 1..Len(q) : Append(q, m)[i] = q[i]
         /\ Append(q, m)[Len(q) + 1] = m
         /\ \A i \in 1..Len(q) : q[i] \in Message
BY LenProperties, ElementOfSeq

\* A queue from which the first message is taken.
LEMMA Taken ==
  ASSUME NEW q \in Seq(Message), q # <<>>
  PROVE  /\ Tail(q) \in Seq(Message)
         /\ Head(q) \in Message /\ Head(q) = q[1]
         /\ Len(q) \in Nat \ {0} /\ DOMAIN q = 1..Len(q)
         /\ DOMAIN Tail(q) = 1..(Len(q) - 1)
         /\ \A i \in 1..(Len(q) - 1) : Tail(q)[i] = q[i + 1]
         /\ \A i \in 1..Len(q) : q[i] \in Message
<1>1. Len(q) \in Nat \ {0}
  BY EmptySeq
<1> QED BY <1>1, HeadTailProperties, LenProperties, ElementOfSeq

\* The fields of the two kinds of messages.
LEMMA MessageTyped ==
  ASSUME NEW m \in Message
  PROVE  /\ m.attempts \in Nat /\ m.nonce \in Nat
         /\ m.type = "candidate" => m \in CandidateMessage /\ m.build \in Nat \ {0}
         /\ m.type # "candidate" => m \in HashMessage /\ m.type = "hash"
BY DEF Message, CandidateMessage, HashMessage

\* A candidate behind everything else.
LEMMA CandidateAppended ==
  ASSUME NEW q \in Seq(Message), NEW m \in CandidateMessage, NEW n \in Nat, m.attempts >= n
  PROVE  Carries(Append(q, m), m.build, n)
<1>1. m \in Message /\ m.type = "candidate" /\ m.attempts \in Nat
  BY DEF Message, CandidateMessage
<1> DEFINE r == Append(q, m)
           k == Len(q) + 1
<1>2. DOMAIN r = 1..k /\ k \in DOMAIN r /\ r[k] = m /\ k \in Nat
  BY <1>1, Appended
<1> HIDE DEF r, k
<1>3. Brings(r, k, n)
  BY <1>2 DEF Brings
<1>4. Carries(r, m.build, n)
  BY <1>1, <1>2, <1>3 DEF Carries
<1> QED BY <1>4 DEF r

\* A result behind everything else: a further announcement is at least its own.
LEMMA ResultAppended ==
  ASSUME NEW q \in Seq(Message), NEW m \in HashMessage, NEW build \in Nat,
         NEW n \in Nat, NEW next \in Nat, next = n \/ m.attempts >= next
  PROVE  /\ Carries(q, build, n) => Carries(Append(q, m), build, next)
         /\ NoCandidate(q) => NoCandidate(Append(q, m))
         /\ Brings(q, 1, n) => Brings(Append(q, m), 1, next)
         /\ m.attempts >= next => Brings(Append(q, m), 1, next)
<1>1. m \in Message /\ m.type # "candidate" /\ m.attempts \in Nat
  BY DEF Message, HashMessage
<1> DEFINE r == Append(q, m)
           k == Len(q) + 1
<1>2. /\ DOMAIN q = 1..Len(q) /\ Len(q) \in Nat
      /\ DOMAIN r = 1..k /\ k \in DOMAIN r /\ r[k] = m /\ k \in Nat
      /\ \A i \in DOMAIN q : i \in DOMAIN r /\ r[i] = q[i] /\ i <= k /\ i \in Nat
      /\ \A i \in DOMAIN r : i \in DOMAIN q \/ i = k
  BY <1>1, Appended
<1> HIDE DEF r, k
<1>3. ASSUME NEW i \in DOMAIN q, Brings(q, i, n)
      PROVE  Brings(r, i, next)
  <2>1. CASE m.attempts >= next
    BY <1>2, <2>1 DEF Brings
  <2>2. CASE next = n
    BY <1>2, <1>3, <2>2 DEF Brings
  <2> QED BY <2>1, <2>2
<1>4. Carries(q, build, n) => Carries(r, build, next)
  <2> SUFFICES ASSUME Carries(q, build, n) PROVE Carries(r, build, next)
    OBVIOUS
  <2>1. PICK i \in DOMAIN q : /\ q[i].type = "candidate" /\ q[i].build = build
                              /\ \A j \in DOMAIN q : j > i => q[j].type # "candidate"
                              /\ Brings(q, i, n)
    BY DEF Carries
  <2>2. Brings(r, i, next)
    BY <1>3, <2>1
  <2>3. \A j \in DOMAIN r : j > i => r[j].type # "candidate"
    BY <1>1, <1>2, <2>1
  <2> QED BY <1>2, <2>1, <2>2, <2>3 DEF Carries
<1>5. NoCandidate(q) => NoCandidate(r)
  BY <1>1, <1>2 DEF NoCandidate
<1>6. m.attempts >= next => Brings(r, 1, next)
  BY <1>2 DEF Brings
<1>7. Brings(q, 1, n) => Brings(r, 1, next)
  BY <1>2, <1>6 DEF Brings
<1> QED BY <1>4, <1>5, <1>6, <1>7 DEF r

\* The first message is taken off.
LEMMA HeadTaken ==
  ASSUME NEW q \in Seq(Message), q # <<>>, NEW build \in Nat, NEW n \in Nat
  PROVE  /\ NoCandidate(q) => NoCandidate(Tail(q)) /\ Head(q).type # "candidate"
         /\ Brings(q, 1, n) => Head(q).attempts >= n \/ Brings(Tail(q), 1, n)
         /\ Carries(q, build, n) =>
              \/ Carries(Tail(q), build, n)
              \/ /\ NoCandidate(Tail(q))
                 /\ Head(q).type = "candidate" /\ Head(q).build = build
                 /\ Head(q).attempts >= n \/ Brings(Tail(q), 1, n)
<1> DEFINE r == Tail(q)
<1>1. /\ Head(q) = q[1] /\ Len(q) \in Nat \ {0} /\ DOMAIN q = 1..Len(q)
      /\ DOMAIN r = 1..(Len(q) - 1)
      /\ \A i \in 1..(Len(q) - 1) : r[i] = q[i + 1]
  BY Taken
<1>2. /\ 1 \in DOMAIN q
      /\ \A i \in DOMAIN q : i \in Nat /\ (i = 1 \/ (i - 1 \in DOMAIN r /\ r[i - 1] = q[i]))
      /\ \A i \in DOMAIN r : i \in Nat \ {0} /\ i + 1 \in DOMAIN q /\ r[i] = q[i + 1]
  BY <1>1
<1> HIDE DEF r
<1>3. NoCandidate(q) => NoCandidate(r) /\ q[1].type # "candidate"
  BY <1>2 DEF NoCandidate
<1>4. ASSUME NEW i \in DOMAIN q, Brings(q, i, n)
      PROVE  IF i = 1 THEN q[1].attempts >= n \/ Brings(r, 1, n) ELSE Brings(r, i - 1, n)
  <2>1. PICK j \in DOMAIN q : j >= i /\ q[j].attempts >= n
    BY <1>4 DEF Brings
  <2>2. CASE j = 1
    BY <1>2, <2>1, <2>2
  <2>3. CASE j # 1
    <3>1. j - 1 \in DOMAIN r /\ r[j - 1].attempts >= n
      BY <1>2, <2>1, <2>3, Zenon
    <3>2. i \in Nat /\ j \in Nat /\ j - 1 \in Nat \ {0}
      BY <1>2, <3>1
    <3>3. j - 1 >= i - 1 /\ j - 1 >= 1
      BY <2>1, <3>2
    <3> QED BY <3>1, <3>3 DEF Brings
  <2> QED BY <2>2, <2>3
<1>5. ASSUME Carries(q, build, n)
      PROVE  \/ Carries(r, build, n)
             \/ /\ NoCandidate(r)
                /\ q[1].type = "candidate" /\ q[1].build = build
                /\ q[1].attempts >= n \/ Brings(r, 1, n)
  <2>1. PICK i \in DOMAIN q : /\ q[i].type = "candidate" /\ q[i].build = build
                              /\ \A j \in DOMAIN q : j > i => q[j].type # "candidate"
                              /\ Brings(q, i, n)
    BY <1>5 DEF Carries
  <2>2. CASE i = 1
    <3>1. NoCandidate(r)
      BY <1>2, <2>1, <2>2 DEF NoCandidate
    <3> QED BY <1>4, <2>1, <2>2, <3>1
  <2>3. CASE i # 1
    <3>1. i - 1 \in DOMAIN r /\ r[i - 1] = q[i]
      BY <1>2, <2>3
    <3>2. \A j \in DOMAIN r : j > i - 1 => r[j].type # "candidate"
      BY <1>2, <2>1
    <3>3. Brings(r, i - 1, n)
      BY <1>4, <2>1, <2>3
    <3> QED BY <2>1, <3>1, <3>2, <3>3 DEF Carries
  <2> QED BY <2>2, <2>3
<1>6. Brings(q, 1, n) => q[1].attempts >= n \/ Brings(r, 1, n)
  BY <1>2, <1>4
<1> QED BY <1>1, <1>3, <1>5, <1>6 DEF r

-----------------------------------------------------------------------------
(* Types *)

\* What a message makes of the page.
LEMMA AppliedPage ==
  ASSUME page \in PageType, NEW m \in Message, NEW s
  PROVE  /\ Applied(m, s) \in PageType
         /\ Applied(m, s).boot = page.boot /\ Applied(m, s).current = page.current
         /\ m.type = "candidate" =>
              /\ Applied(m, s).shows = m.build /\ Applied(m, s).last = m.attempts
              /\ Applied(m, s).nonce = m.nonce /\ Applied(m, s).field = m.nonce
              /\ Applied(m, s).edited = FALSE /\ Applied(m, s).overruled = InUse \ {s}
         /\ m.type # "candidate" =>
              /\ Applied(m, s).shows = page.shows /\ Applied(m, s).overruled = page.overruled
              /\ Applied(m, s).last >= page.last /\ Applied(m, s).last >= m.attempts
              /\ \/ Applied(m, s) = page
                 \/ /\ Applied(m, s).field = m.nonce /\ Applied(m, s).edited = FALSE
                    /\ page.shows # 0 => Applied(m, s).nonce = m.nonce
<1>1. page.last \in Nat /\ page.shows \in Nat
  BY DEF PageType
<1>2. CASE m.type = "candidate"
  <2>1. m.build \in Nat /\ m.nonce \in Nat /\ m.attempts \in Nat /\ InUse \ {s} \in SUBSET Socks
    BY <1>2, MessageTyped DEF InUse
  <2>2. Applied(m, s) = WithCandidate(m, s)
    BY <1>2 DEF Applied
  <2>3. WithCandidate(m, s) \in PageType
    BY <2>1 DEF WithCandidate, PageType
  <2> QED BY <1>2, <2>2, <2>3 DEF WithCandidate, PageType
<1>3. CASE m.type # "candidate"
  <2>1. m.nonce \in Nat /\ m.attempts \in Nat
    BY MessageTyped
  <2>2. Applied(m, s) = WithResult(m)
    BY <1>3 DEF Applied
  <2>3. CASE Repeated(m)
    BY <1>1, <1>3, <2>1, <2>2, <2>3 DEF WithResult, Repeated
  <2>4. CASE ~Repeated(m)
    <3>1. m.attempts > page.last
      BY <1>1, <2>1, <2>4 DEF Repeated
    <3>2. WithResult(m) \in PageType
      BY <2>1, <2>4 DEF WithResult, PageType
    <3> QED BY <1>1, <1>3, <2>1, <2>2, <2>4, <3>1, <3>2 DEF WithResult, PageType
  <2> QED BY <2>3, <2>4
<1> QED BY <1>2, <1>3

\* Null is no message, no socket and no number.
LEMMA NullIsOther ==
  /\ Null \notin Message /\ Null \notin Socks
  /\ \A n \in Nat : n # Null
BY ConstantsOK DEF Message, CandidateMessage, HashMessage

\* The forms a call takes.
LEMMA CallTyped ==
  ASSUME NEW call \in CallType, NEW m \in Message, NEW pc \in {"answered", "submitting"}
  PROVE  /\ Ended(call, pc, m) \in CallType /\ Failed(call) \in CallType
         /\ IdleCall \in CallType /\ IdleCall.pc = "idle"
         /\ Ended(call, pc, m).pc = pc /\ Ended(call, pc, m).answer = m
         /\ Failed(call).pc = "failed"
BY DEF Ended, Failed, CallType, IdleCall

\* A call that was sent has its type.
LEMMA SentTyped ==
  ASSUME NEW kind \in {"boot", "load", "look", "first", "refresh", "hash"},
         NEW posted \in Nat \cup {Null}
  PROVE  /\ Sent(kind, posted) \in CallType
         /\ Sent(kind, posted).pc = "sent" /\ Sent(kind, posted).posted = posted
BY DEF Sent, CallType

\* What mineOnce() posts.
LEMMA PostedTyped ==
  ASSUME NEW p \in PageType
  PROVE  PostedNonce(p) \in Nat \cup {Null}
BY DEF PostedNonce, PageType

\* So has a socket that is not in use.
LEMMA NoSockTyped == NoSock \in SockType /\ NoSock.pc = "free" /\ NoSock.queue = <<>>
BY EmptySeq DEF NoSock, SockType

\* The sockets after a broadcast.
LEMMA Broadcasted ==
  ASSUME TypeOK, NEW m \in Message, Broadcast(m)
  PROVE  /\ socks' \in [Socks -> SockType] /\ announced' \in Nat
         /\ m.type # "hash" => announced' = announced
         /\ m.type = "hash" => \/ announced' = announced /\ m.attempts <= announced
                               \/ announced' = m.attempts /\ m.attempts > announced
         /\ \A s \in Socks :
              /\ socks'[s].pc = socks[s].pc
              /\ socks[s].pc = "open" => socks'[s].queue = Append(socks[s].queue, m)
<1>1. m.attempts \in Nat /\ announced \in Nat /\ socks \in [Socks -> SockType]
  BY MessageTyped DEF TypeOK
<1>2. ASSUME NEW s \in Socks
      PROVE  /\ socks'[s] \in SockType /\ socks'[s].pc = socks[s].pc
             /\ socks[s].pc = "open" => socks'[s].queue = Append(socks[s].queue, m)
  <2>1. socks[s] \in SockType /\ socks[s].queue \in Seq(Message)
    BY <1>1 DEF SockType
  <2>2. Append(socks[s].queue, m) \in Seq(Message)
    BY <2>1, Appended
  <2>3. socks'[s] = IF socks[s].pc \in {"syncing", "open"}
                    THEN [socks[s] EXCEPT !.queue = Append(@, m)] ELSE socks[s]
    BY DEF Broadcast
  <2> QED BY <2>1, <2>2, <2>3 DEF SockType
<1>3. socks' \in [Socks -> SockType]
  BY <1>2 DEF Broadcast
<1> QED BY <1>1, <1>2, <1>3 DEF Broadcast

\* A new socket.
LEMMA Connected ==
  ASSUME TypeOK, NEW s \in Socks, ConnectOn(s)
  PROVE  /\ socks' \in [Socks -> SockType]
         /\ socks'[s].pc = "connecting"
         /\ \A t \in Socks : t # s => socks'[t] = socks[t]
         /\ \A p \in PageType : [p EXCEPT !.current = s] \in PageType
BY DEF TypeOK, ConnectOn, SockType, PageType

\* What a page shows and what its nonce field holds.
SameShown(p, q) ==
  /\ q.shows = p.shows /\ q.nonce = p.nonce /\ q.last = p.last
  /\ q.field = p.field /\ q.edited = p.edited /\ q.overruled = p.overruled

\* Whatever waited for an answer goes on.
LEMMA WentOn ==
  ASSUME TypeOK, NEW c \in Calls, NEW s \in Socks, NEW p \in PageType, GoOn(c, s, p)
  PROVE  /\ page' \in PageType /\ SameShown(p, page')
         /\ \/ page' = p /\ socks' = socks
            \/ ConnectOn(s)
         /\ socks' \in [Socks -> SockType]
         /\ \/ calls' = [calls EXCEPT ![c] = IdleCall]
            \/ /\ calls' = [calls EXCEPT ![c] = Sent("hash", PostedNonce(p))]
               /\ p.shows # 0
<1>1. page' = p \/ page' = [p EXCEPT !.boot = "over", !.current = s]
  BY DEF GoOn
<1>2. (socks' = socks /\ page' = p) \/ ConnectOn(s)
  BY DEF GoOn
<1>3. socks' \in [Socks -> SockType]
  BY <1>2, Connected DEF TypeOK
<1>4. page' \in PageType /\ SameShown(p, page')
  BY <1>1 DEF PageType, SameShown
<1>5. \/ calls' = [calls EXCEPT ![c] = IdleCall]
      \/ /\ calls' = [calls EXCEPT ![c] = Sent("hash", PostedNonce(p))]
         /\ p.shows # 0
  BY DEF GoOn
<1> QED BY <1>2, <1>3, <1>4, <1>5

\* Sockets that close.
LEMMA ClosedTyped ==
  ASSUME TypeOK, NEW gone \in SUBSET Socks, Closed(gone)
  PROVE  /\ page' \in PageType /\ socks' \in [Socks -> SockType] /\ timers' \in Nat
         /\ \A s \in Socks : IF s \in gone THEN socks'[s].pc = "free" ELSE socks'[s] = socks[s]
         /\ gone # {} => timers' > 0
         /\ gone = {} => timers' = timers
<1>1. Cardinality(gone) \in Nat /\ (gone = {} <=> Cardinality(gone) = 0)
  <2>1. IsFiniteSet(gone)
    BY ConstantsOK, FS_Subset
  <2> QED BY <2>1, FS_CardinalityType, FS_EmptySet
<1>2. timers \in Nat /\ page \in PageType /\ socks \in [Socks -> SockType]
  BY DEF TypeOK
<1>3. page' \in PageType
  BY <1>2 DEF Closed, PageType
<1>4. /\ socks' \in [Socks -> SockType]
      /\ \A s \in Socks : IF s \in gone THEN socks'[s].pc = "free" ELSE socks'[s] = socks[s]
  BY <1>2, NoSockTyped DEF Closed
<1> QED BY <1>1, <1>2, <1>3, <1>4 DEF Closed

\* The initial sync ends.
LEMMA SyncedIs ==
  ASSUME TypeOK, NEW s \in Socks, Synced(s)
  PROVE  /\ socks' \in [Socks -> SockType]
         /\ socks'[s].pc = "open"
         /\ live # 0 => /\ Formatted \in CandidateMessage
                        /\ socks'[s].queue = Append(socks[s].queue, Formatted)
         /\ \A t \in Socks : t # s => socks'[t] = socks[t]
<1>1. /\ socks \in [Socks -> SockType] /\ socks[s] \in SockType
      /\ socks[s].queue \in Seq(Message)
  BY DEF TypeOK, SockType
<1>2. live # 0 => Formatted \in CandidateMessage /\ Formatted \in Message
  BY DEF TypeOK, Formatted, CandidateMessage, Message
<1> DEFINE q == IF live = 0 THEN socks[s].queue ELSE Append(socks[s].queue, Formatted)
<1>3. q \in Seq(Message)
  BY <1>1, <1>2, Appended
<1>4. socks' = [socks EXCEPT ![s].pc = "open", ![s].queue = q]
  BY DEF Synced
<1>5. (live # 0) => q = Append(socks[s].queue, Formatted)
  OBVIOUS
<1> HIDE DEF q
<1> QED BY <1>1, <1>2, <1>3, <1>4, <1>5 DEF SockType

\* A message is delivered.
LEMMA DeliverIs ==
  ASSUME TypeOK, NEW s \in Socks, Deliver(s)
  PROVE  /\ socks' \in [Socks -> SockType]
         /\ socks'[s].pc = socks[s].pc /\ socks'[s].queue = Tail(socks[s].queue)
         /\ \A t \in Socks : t # s => socks'[t] = socks[t]
<1>1. /\ socks \in [Socks -> SockType] /\ socks[s] \in SockType
      /\ socks[s].queue \in Seq(Message)
  BY DEF TypeOK, SockType
<1> DEFINE q == Tail(socks[s].queue)
<1>2. q \in Seq(Message)
  BY <1>1, Taken DEF Deliver
<1>3. socks' = [socks EXCEPT ![s].queue = q]
  BY DEF Deliver
<1>4. q = Tail(socks[s].queue)
  OBVIOUS
<1> HIDE DEF q
<1> QED BY <1>1, <1>2, <1>3, <1>4 DEF SockType

\* Each group of steps keeps the types.
LEMMA SockStepTyped ==
  ASSUME TypeOK, AnswersAreReady, NEW s \in Socks, SockStep(s)
  PROVE  TypeOK'
<1> USE DEF serverVars
<1>1. /\ page \in PageType /\ socks \in [Socks -> SockType] /\ calls \in [Calls -> CallType]
      /\ timers \in Nat /\ found \subseteq Nat /\ page.last \in Nat
      /\ socks[s] \in SockType /\ socks[s].queue \in Seq(Message)
      /\ live \in Nat /\ builds \in Nat /\ nonce \in Nat /\ count \in Nat /\ saved \in Nat
      /\ announced \in Nat
  BY DEF TypeOK, PageType, SockType
<1>2. ASSUME NEW m \in Message, NoteFound(m)
      PROVE  found' \subseteq Nat
  BY <1>1, <1>2, MessageTyped DEF NoteFound
<1>3. CASE Accept(s)
  BY <1>1, <1>3 DEF Accept, TypeOK, SockType
<1>4. CASE Synced(s)
  BY <1>1, <1>4, SyncedIs DEF Synced, TypeOK
<1>5. CASE Deliver(s)
  <2>1. Head(socks[s].queue) \in Message
    BY <1>1, <1>5, Taken DEF Deliver
  <2>2. found' \subseteq Nat /\ page' \in PageType
    BY <1>1, <1>2, <1>5, <2>1, AppliedPage DEF Deliver
  <2> QED BY <1>1, <1>5, <2>2, DeliverIs DEF Deliver, TypeOK
<1>6. CASE Disconnect(s)
  BY <1>1, <1>6, ClosedTyped DEF Disconnect, TypeOK
<1>7. CASE Die(s)
  <2>1. [pc |-> "dead", queue |-> <<>>] \in SockType
    BY EmptySeq DEF SockType
  <2> QED BY <1>1, <1>7, <2>1 DEF Die, TypeOK
<1>8. CASE Reconnect(s)
  <2>1. timers' \in Nat
    BY <1>1, <1>8 DEF Reconnect
  <2> QED BY <1>1, <1>8, <2>1, Connected DEF Reconnect, TypeOK
<1>9. CASE BootConnects(s)
  <2>1. page' \in PageType
    BY <1>1, <1>9 DEF BootConnects, PageType
  <2> QED BY <1>1, <1>9, <2>1, Connected DEF BootConnects, TypeOK
<1>10. ASSUME NEW c \in Calls, LookAt(c, s)
       PROVE  TypeOK'
  <2>1. calls' \in [Calls -> CallType]
    BY <1>1, <1>10, SentTyped DEF LookAt
  <2>2. page' \in PageType /\ socks' \in [Socks -> SockType]
    BY <1>1, <1>10, Connected DEF LookAt
  <2> QED BY <1>1, <1>10, <2>1, <2>2 DEF LookAt, TypeOK
<1>11. ASSUME NEW c \in Calls, NEW p \in PageType, GoOn(c, s, p)
       PROVE  /\ page' \in PageType /\ socks' \in [Socks -> SockType]
              /\ calls' \in [Calls -> CallType]
  <2>1. Sent("hash", PostedNonce(p)) \in CallType /\ IdleCall \in CallType
    BY SentTyped, PostedTyped DEF IdleCall, CallType
  <2>2. /\ page' \in PageType /\ socks' \in [Socks -> SockType]
        /\ \/ calls' = [calls EXCEPT ![c] = IdleCall]
           \/ calls' = [calls EXCEPT ![c] = Sent("hash", PostedNonce(p))]
    BY <1>11, WentOn
  <2> QED BY <1>1, <2>1, <2>2
<1>12. ASSUME NEW c \in Calls, Arrive(c, s)
       PROVE  TypeOK'
  <2>1. calls[c].answer \in Message
    BY <1>12 DEF Arrive, AnswersAreReady
  <2>2. Applied(calls[c].answer, Null) \in PageType
    BY <1>1, <2>1, AppliedPage
  <2> QED BY <1>1, <1>2, <1>11, <1>12, <2>1, <2>2 DEF Arrive, TypeOK
<1>13. ASSUME NEW c \in Calls, ArriveFailed(c, s)
       PROVE  TypeOK'
  BY <1>1, <1>11, <1>13 DEF ArriveFailed, TypeOK
<1> QED BY <1>3, <1>4, <1>5, <1>6, <1>7, <1>8, <1>9, <1>10, <1>12, <1>13 DEF SockStep

\* No step of the page breaks the types.
LEMMA PageStepTyped ==
  ASSUME TypeOK, PageStep
  PROVE  TypeOK'
<1> USE DEF serverVars
<1>1. page \in PageType /\ calls \in [Calls -> CallType]
  BY DEF TypeOK
<1>2. CASE BootFails
  <2>1. page' \in PageType
    BY <1>1, <1>2 DEF BootFails, PageType
  <2> QED BY <1>2, <2>1 DEF BootFails, TypeOK
<1>3. ASSUME NEW text \in TypedNonces, Type(text)
      PROVE  TypeOK'
  <2>1. page' \in PageType
    <3>1. text \in Nat \cup {Null}
      BY ConstantsOK
    <3> QED BY <1>1, <1>3, <3>1 DEF Type, PageType
  <2> QED BY <1>3, <2>1 DEF Type, TypeOK
<1>4. ASSUME NEW c \in Calls, BootLoads(c)
      PROVE  TypeOK'
  <2>1. page' \in PageType
    BY <1>1, <1>4 DEF BootLoads, PageType
  <2>2. calls' \in [Calls -> CallType]
    BY <1>1, <1>4, SentTyped DEF BootLoads
  <2> QED BY <1>4, <2>1, <2>2 DEF BootLoads, TypeOK
<1>5. ASSUME NEW c \in Calls, MineOnce(c)
      PROVE  TypeOK'
  <2>1. Sent("first", Null) \in CallType /\ Sent("hash", PostedNonce(page)) \in CallType
    BY <1>1, SentTyped, PostedTyped
  <2>2. calls' \in [Calls -> CallType]
    BY <1>1, <1>5, <2>1 DEF MineOnce
  <2> QED BY <1>5, <2>2 DEF MineOnce, TypeOK
<1>6. ASSUME NEW c \in Calls, NEW kind \in {"load", "refresh"}, AskCandidate(c, kind)
      PROVE  TypeOK'
  <2>1. calls' \in [Calls -> CallType]
    BY <1>1, <1>6, SentTyped DEF AskCandidate
  <2> QED BY <1>6, <2>1 DEF AskCandidate, TypeOK
<1> QED BY <1>2, <1>3, <1>4, <1>5, <1>6 DEF PageStep

\* The result of a hash.
LEMMA CountedTyped ==
  ASSUME TypeOK, NEW posted \in Nat \cup {Null}, Counted(posted), NEW won \in BOOLEAN
  PROVE  /\ nonce' \in Nat /\ count' = count + 1 /\ count' \in Nat
         /\ Result(won) \in HashMessage /\ Result(won) \in Message
         /\ Result(won).type = "hash" /\ Result(won).attempts = count + 1
<1>1. nonce' \in Nat /\ count + 1 \in Nat
  <2>1. nonce \in Nat /\ count \in Nat
    BY DEF TypeOK
  <2>2. (nonce + 1) % NonceMod \in Nat
    BY <2>1, ConstantsOK
  <2> QED BY <2>1, <2>2 DEF Counted
<1> QED BY <1>1 DEF Counted, Result, HashMessage, Message

\* One call becomes another.
LEMMA OneCall ==
  ASSUME TypeOK, AnswersAreReady, saved' \in Nat, saved' >= saved,
         NEW c \in Calls, NEW call \in CallType, calls' = [calls EXCEPT ![c] = call],
         call.pc \in {"answered", "submitting"} => call.answer \in Message,
         call.pc = "submitting" => call.answer.type = "hash" /\ call.answer.attempts <= saved'
  PROVE  calls' \in [Calls -> CallType] /\ AnswersAreReady'
<1>1. calls \in [Calls -> CallType] /\ saved \in Nat
  BY DEF TypeOK
<1>2. \A d \in Calls : calls'[d] = IF d = c THEN call ELSE calls[d]
  BY <1>1
<1>3. ASSUME NEW d \in Calls, calls[d].pc = "submitting"
      PROVE  calls[d].answer.attempts <= saved'
  <2>1. calls[d].answer.attempts \in Nat /\ calls[d].answer.attempts <= saved
    BY <1>3, MessageTyped DEF AnswersAreReady
  <2> QED BY <1>1, <2>1
<1>4. calls' \in [Calls -> CallType]
  BY <1>1
<1>5. ASSUME NEW d \in Calls
      PROVE  /\ calls'[d].pc \in {"answered", "submitting"} => calls'[d].answer \in Message
             /\ calls'[d].pc = "submitting" =>
                  calls'[d].answer.type = "hash" /\ calls'[d].answer.attempts <= saved'
  <2>1. CASE d = c
    BY <1>2, <2>1
  <2>2. CASE d # c
    BY <1>2, <1>3, <2>2 DEF AnswersAreReady
  <2> QED BY <2>1, <2>2
<1> QED BY <1>4, <1>5 DEF AnswersAreReady

\* Nor does a step of the server.
LEMMA ServerStepTyped ==
  ASSUME TypeOK, AnswersAreReady, CountCovers, ServerStep
  PROVE  TypeOK' /\ AnswersAreReady' /\ CountCovers'
<1> USE DEF serverVars
<1>1. /\ page \in PageType /\ socks \in [Socks -> SockType] /\ calls \in [Calls -> CallType]
      /\ \A c \in Calls : /\ calls[c] \in CallType
                          /\ calls[c].posted \in Nat \cup {Null}
  BY DEF TypeOK, CallType
<1>2. /\ count \in Nat /\ saved \in Nat /\ announced \in Nat
      /\ announced <= saved /\ saved <= count
  BY DEF TypeOK, CountCovers
<1>12. live \in Nat /\ builds \in Nat /\ nonce \in Nat /\ timers \in Nat /\ found \subseteq Nat
  BY DEF TypeOK
<1>3. ASSUME NEW c \in Calls, ServeLive(c) \/ Refuse(c)
      PROVE  TypeOK' /\ AnswersAreReady' /\ CountCovers'
  <2>1. PICK call \in CallType : /\ calls' = [calls EXCEPT ![c] = call]
                                 /\ call.pc \in {"answered", "failed"}
                                 /\ call.pc = "answered" => call.answer \in Message
    <3>1. CASE ServeLive(c)
      <4>1. Formatted \in Message
        BY <1>2, <1>12, <3>1 DEF ServeLive, Formatted, Message, CandidateMessage
      <4>2. /\ Answered(calls[c], Formatted) \in CallType
            /\ Answered(calls[c], Formatted).pc = "answered"
            /\ Answered(calls[c], Formatted).answer = Formatted
        BY <1>1, <4>1, CallTyped DEF Answered
      <4> QED BY <3>1, <4>1, <4>2 DEF ServeLive
    <3>2. CASE Refuse(c)
      <4>1. Failed(calls[c]) \in CallType /\ Failed(calls[c]).pc = "failed"
        BY <1>1 DEF Failed, Ended, CallType
      <4> QED BY <3>2, <4>1 DEF Refuse
    <3> QED BY <1>3, <3>1, <3>2
  <2>2. UNCHANGED <<serverVars, announced, page, socks, timers, found>>
    BY <1>3 DEF ServeLive, Refuse
  <2>3. calls' \in [Calls -> CallType] /\ AnswersAreReady'
    <3>1. saved' \in Nat /\ saved' >= saved
      BY <1>2, <2>2
    <3> QED BY <2>1, <3>1, OneCall
  <2> QED BY <2>2, <2>3 DEF TypeOK, CountCovers
<1>4. ASSUME NEW c \in Calls, SaveThrows(c)
      PROVE  TypeOK' /\ AnswersAreReady' /\ CountCovers'
  <2>1. Failed(calls[c]) \in CallType /\ Failed(calls[c]).pc = "failed"
    BY <1>1 DEF Failed, Ended, CallType
  <2>2. nonce' \in Nat /\ count' = count + 1
    BY <1>1, <1>4, CountedTyped DEF SaveThrows, CountedCall
  <2>3. calls' \in [Calls -> CallType] /\ AnswersAreReady'
    <3>1. saved' \in Nat /\ saved' >= saved
      BY <1>2, <1>4 DEF SaveThrows
    <3> QED BY <1>4, <2>1, <3>1, OneCall DEF SaveThrows
  <2> QED BY <1>1, <1>2, <1>12, <1>4, <2>2, <2>3 DEF SaveThrows, CountedCall, Counted, TypeOK, CountCovers
<1>5. ASSUME NEW posted \in Nat \cup {Null}, Counted(posted), saved' = count + 1,
             Broadcast(Result(FALSE))
      PROVE  /\ nonce' \in Nat /\ count' \in Nat /\ saved' \in Nat /\ saved' >= saved
             /\ announced' \in Nat /\ socks' \in [Socks -> SockType] /\ CountCovers'
             /\ Result(FALSE) \in Message
             /\ UNCHANGED <<live, builds, page, timers, found>>
  <2>1. /\ nonce' \in Nat /\ count' = count + 1 /\ Result(FALSE) \in Message
        /\ Result(FALSE).type = "hash" /\ Result(FALSE).attempts = count + 1
    BY <1>5, CountedTyped
  <2>2. /\ socks' \in [Socks -> SockType] /\ announced' \in Nat
        /\ announced' \in {announced, count + 1}
    BY <1>5, <2>1, Broadcasted
  <2>3. CountCovers' /\ saved' \in Nat /\ saved' >= saved
    BY <1>2, <1>5, <2>1, <2>2 DEF CountCovers
  <2> QED BY <1>2, <1>5, <2>1, <2>2, <2>3 DEF Counted
<1>6. ASSUME NEW c \in Calls, Miss(c)
      PROVE  TypeOK' /\ AnswersAreReady' /\ CountCovers'
  <2>1. /\ nonce' \in Nat /\ count' \in Nat /\ saved' \in Nat /\ saved' >= saved
        /\ announced' \in Nat /\ socks' \in [Socks -> SockType] /\ CountCovers'
        /\ Result(FALSE) \in Message
        /\ UNCHANGED <<live, builds, page, timers, found>>
    BY <1>1, <1>5, <1>6 DEF Miss, CountedCall
  <2>2. /\ Answered(calls[c], Result(FALSE)) \in CallType
        /\ Answered(calls[c], Result(FALSE)).pc = "answered"
        /\ Answered(calls[c], Result(FALSE)).answer = Result(FALSE)
    BY <1>1, <2>1, CallTyped DEF Answered
  <2>3. calls' \in [Calls -> CallType] /\ AnswersAreReady'
    BY <1>6, <2>1, <2>2, OneCall DEF Miss
  <2> QED BY <2>1, <2>3 DEF TypeOK
<1>7. CASE OtherMiss
  <2>1. /\ nonce' \in Nat /\ count' \in Nat /\ saved' \in Nat /\ saved' >= saved
        /\ announced' \in Nat /\ socks' \in [Socks -> SockType] /\ CountCovers'
        /\ UNCHANGED <<live, builds, page, timers, found>>
    BY <1>1, <1>5, <1>7 DEF OtherMiss
  <2>2. AnswersAreReady'
    <3>1. calls' = calls
      BY <1>7 DEF OtherMiss
    <3>2. ASSUME NEW c \in Calls, calls[c].pc = "submitting"
          PROVE  calls[c].answer.attempts <= saved'
      <4>1. calls[c].answer.attempts \in Nat /\ calls[c].answer.attempts <= saved
        BY <3>2, MessageTyped DEF AnswersAreReady
      <4> QED BY <1>2, <2>1, <4>1
    <3> QED BY <3>1, <3>2 DEF AnswersAreReady
  <2> QED BY <1>7, <2>1, <2>2 DEF TypeOK, OtherMiss
<1>8. ASSUME NEW c \in Calls, Hit(c)
      PROVE  TypeOK' /\ AnswersAreReady' /\ CountCovers'
  <2> DEFINE call == Ended(calls[c], "submitting", Result(TRUE))
  <2>1. /\ nonce' \in Nat /\ count' = count + 1 /\ Result(TRUE) \in Message
        /\ Result(TRUE).type = "hash" /\ Result(TRUE).attempts = count + 1
    BY <1>1, <1>8, CountedTyped DEF Hit, CountedCall
  <2>2. call \in CallType /\ call.pc = "submitting" /\ call.answer = Result(TRUE)
    BY <1>1, <2>1, CallTyped
  <2>3. calls' = [calls EXCEPT ![c] = call] /\ saved' = count + 1
    BY <1>8 DEF Hit
  <2> HIDE DEF call
  <2>4. calls' \in [Calls -> CallType] /\ AnswersAreReady'
    <3>1. saved' \in Nat /\ saved' >= saved
      BY <1>2, <2>3
    <3>2. call.answer.attempts = saved'
      BY <2>1, <2>2, <2>3
    <3>3. call.answer.attempts <= saved'
      BY <3>1, <3>2
    <3> QED BY <2>1, <2>2, <2>3, <3>1, <3>3, OneCall
  <2>5. CountCovers' /\ saved' \in Nat /\ count' \in Nat
    BY <1>2, <1>8, <2>1, <2>3 DEF Hit, CountCovers
  <2>6. UNCHANGED <<live, builds, page, socks, timers, announced, found>>
    BY <1>8 DEF Hit, CountedCall, Counted
  <2> QED BY <2>1, <2>4, <2>5, <2>6 DEF TypeOK
<1>9. ASSUME NEW c \in Calls, SubmitEnds(c)
      PROVE  TypeOK' /\ AnswersAreReady' /\ CountCovers'
  <2> DEFINE call == [calls[c] EXCEPT !.pc = "answered"]
  <2>1. /\ calls[c].answer \in Message /\ calls[c].answer.type = "hash"
        /\ calls[c].answer.attempts <= saved /\ calls[c].answer.attempts \in Nat
        /\ Broadcast(calls[c].answer)
        /\ calls' = [calls EXCEPT ![c] = call]
        /\ UNCHANGED <<serverVars, page, timers, found>>
    BY <1>9, MessageTyped DEF SubmitEnds, AnswersAreReady
  <2>2. /\ socks' \in [Socks -> SockType] /\ announced' \in Nat /\ announced' <= saved
    BY <1>2, <2>1, Broadcasted
  <2>3. call \in CallType /\ call.pc = "answered" /\ call.answer = calls[c].answer
    BY <1>1 DEF CallType
  <2> HIDE DEF call
  <2>4. calls' \in [Calls -> CallType] /\ AnswersAreReady'
    <3>1. saved' = saved /\ saved' \in Nat /\ saved' >= saved
      BY <1>2, <2>1
    <3> QED BY <2>1, <2>3, <3>1, OneCall
  <2> QED BY <1>2, <2>1, <2>2, <2>4 DEF TypeOK, CountCovers
<1>10. ASSUME NEW waiting \in SUBSET Calls, BuildEnds(waiting)
       PROVE  TypeOK' /\ AnswersAreReady' /\ CountCovers'
  <2> DEFINE m == [type |-> "candidate", build |-> builds + 1, nonce |-> 0, attempts |-> count]
  <2>1. m \in Message /\ m.type # "hash"
    BY <1>2, <1>12 DEF Message, CandidateMessage
  <2>2. /\ Broadcast(m) /\ nonce' = 0 /\ live' = builds + 1 /\ builds' = builds + 1
        /\ calls' = [c \in Calls |-> IF c \in waiting THEN Answered(calls[c], m) ELSE calls[c]]
        /\ UNCHANGED <<count, saved, page, timers, found>>
    BY <1>10 DEF BuildEnds
  <2> HIDE DEF m
  <2>3. socks' \in [Socks -> SockType] /\ announced' = announced
    BY <2>1, <2>2, Broadcasted
  <2>4. \A c \in Calls : /\ Answered(calls[c], m) \in CallType
                         /\ Answered(calls[c], m).pc = "answered"
                         /\ Answered(calls[c], m).answer = m
    BY <1>1, <2>1, CallTyped DEF Answered
  <2>5. calls' \in [Calls -> CallType] /\ AnswersAreReady'
    BY <1>1, <2>1, <2>2, <2>4 DEF AnswersAreReady
  <2>6. live' \in Nat /\ builds' \in Nat /\ nonce' \in Nat
    BY <1>12, <2>2
  <2> QED BY <2>2, <2>3, <2>5, <2>6 DEF TypeOK, CountCovers
<1>11. CASE Restart
  <2>1. \A c \in Calls : Failed(calls[c]) \in CallType /\ Failed(calls[c]).pc = "failed"
    BY <1>1 DEF Failed, Ended, CallType
  <2>2. calls' \in [Calls -> CallType] /\ AnswersAreReady'
    BY <1>1, <1>11, <2>1 DEF Restart, AnswersAreReady
  <2>3. page' \in PageType /\ socks' \in [Socks -> SockType] /\ timers' \in Nat
    BY <1>11, ClosedTyped DEF Restart
  <2> QED BY <1>2, <1>12, <1>11, <2>2, <2>3 DEF Restart, TypeOK, CountCovers
<1> QED BY <1>3, <1>4, <1>6, <1>7, <1>8, <1>9, <1>10, <1>11 DEF ServerStep

-----------------------------------------------------------------------------
(* The nonce field, and what a click posts *)

FieldOK(p) == p.shows # 0 /\ ~p.edited => p.field = p.nonce

\* A page takes a call back, or makes one that posts no nonce that was not
\* typed.
CallMoves ==
  \/ calls' = calls
  \/ \E c \in Calls, d \in CallType :
       /\ calls' = [calls EXCEPT ![c] = d]
       /\ d.pc \in {"idle", "sent"}
       /\ d.pc = "sent" /\ d.posted # Null => page'.edited

\* A step that idles a call or sends one moves the calls as OnlyTypedNonces
\* allows.
LEMMA MoveIs ==
  ASSUME NEW c \in Calls, NEW d \in CallType, calls' = [calls EXCEPT ![c] = d],
         d.pc \in {"idle", "sent"}, d.pc = "sent" /\ d.posted # Null => page'.edited
  PROVE  CallMoves
BY DEF CallMoves

\* A message that is applied leaves the field as FieldIsNonce says.
LEMMA AppliedField ==
  ASSUME page \in PageType, FieldIsNonce, NEW m \in Message, NEW s
  PROVE  FieldOK(Applied(m, s))
<1>1. FieldOK(page)
  BY DEF FieldIsNonce, FieldOK
<1>2. CASE m.type = "candidate"
  <2>1. /\ Applied(m, s).field = m.nonce /\ Applied(m, s).nonce = m.nonce
    BY <1>2, AppliedPage
  <2> QED BY <2>1 DEF FieldOK
<1>3. CASE m.type # "candidate"
  <2>1. /\ Applied(m, s).shows = page.shows
        /\ \/ Applied(m, s) = page
           \/ /\ Applied(m, s).field = m.nonce
              /\ page.shows # 0 => Applied(m, s).nonce = m.nonce
    BY <1>3, AppliedPage
  <2> QED BY <1>1, <2>1 DEF FieldOK
<1> QED BY <1>2, <1>3

\* A field that differs from the page's nonce was typed.
LEMMA PostsTyped ==
  ASSUME NEW p \in PageType, FieldOK(p), p.shows # 0, PostedNonce(p) # Null
  PROVE  p.edited
BY DEF FieldOK, PostedNonce, PageType

\* The steps of the page and of its sockets.
LEMMA SockStepMoves ==
  ASSUME TypeOK, AnswersAreReady, FieldIsNonce, NEW s \in Socks, SockStep(s)
  PROVE  UNCHANGED <<serverVars, announced>> /\ FieldIsNonce' /\ CallMoves
<1>1. /\ page \in PageType /\ socks[s] \in SockType /\ socks[s].queue \in Seq(Message)
      /\ \A p, q : FieldOK(p) /\ SameShown(p, q) => FieldOK(q)
      /\ FieldOK(page)
  BY DEF TypeOK, SockType, FieldOK, SameShown, FieldIsNonce
<1>2. ASSUME FieldOK(page') PROVE FieldIsNonce'
  BY <1>2 DEF FieldOK, FieldIsNonce
<1>3. CASE Accept(s) \/ Synced(s) \/ Die(s)
  BY <1>1, <1>2, <1>3 DEF Accept, Synced, Die, CallMoves
<1>4. CASE Deliver(s)
  <2>1. Head(socks[s].queue) \in Message
    BY <1>1, <1>4, Taken DEF Deliver
  <2>2. FieldOK(page')
    BY <1>1, <1>4, <2>1, AppliedField DEF Deliver
  <2> QED BY <1>2, <1>4, <2>2 DEF Deliver, CallMoves, serverVars
<1>5. CASE Disconnect(s) \/ Reconnect(s) \/ BootConnects(s)
  <2>1. SameShown(page, [page EXCEPT !.current = s])
    BY <1>1 DEF PageType, SameShown
  <2>2. page'.shows = page.shows /\ page'.nonce = page.nonce /\ page'.field = page.field
        /\ page'.edited = page.edited
    BY <1>1, <1>5 DEF Disconnect, Closed, Reconnect, BootConnects, PageType
  <2>3. FieldOK(page')
    BY <1>1, <2>2 DEF FieldOK
  <2> QED BY <1>2, <1>5, <2>3 DEF Disconnect, Reconnect, BootConnects, CallMoves, serverVars
<1>6. ASSUME NEW c \in Calls, LookAt(c, s)
      PROVE  UNCHANGED <<serverVars, announced>> /\ FieldIsNonce' /\ CallMoves
  <2>1. Sent("look", Null) \in CallType /\ Sent("look", Null).posted = Null
        /\ Sent("look", Null).pc = "sent"
    BY SentTyped
  <2>2. CallMoves
    BY <1>6, <2>1 DEF LookAt, CallMoves
  <2>3. page'.shows = page.shows /\ page'.nonce = page.nonce /\ page'.field = page.field
        /\ page'.edited = page.edited
    BY <1>1, <1>6 DEF LookAt, PageType
  <2>4. FieldOK(page')
    BY <1>1, <2>3 DEF FieldOK
  <2> QED BY <1>2, <1>6, <2>2, <2>4 DEF LookAt
<1>7. ASSUME NEW c \in Calls, NEW p \in PageType, FieldOK(p), GoOn(c, s, p)
      PROVE  FieldIsNonce' /\ CallMoves
  <2>1. SameShown(p, page')
    BY <1>7, WentOn
  <2>2. FieldIsNonce'
    <3>1. FieldOK(page')
      BY <1>1, <1>7, <2>1
    <3> QED BY <1>2, <3>1
  <2>3. CASE calls' = [calls EXCEPT ![c] = IdleCall]
    <3>1. IdleCall \in CallType /\ IdleCall.pc = "idle"
      BY DEF IdleCall, CallType
    <3> QED BY <2>2, <2>3, <3>1, MoveIs
  <2>4. CASE calls' = [calls EXCEPT ![c] = Sent("hash", PostedNonce(p))] /\ p.shows # 0
    <3>1. /\ Sent("hash", PostedNonce(p)) \in CallType
          /\ Sent("hash", PostedNonce(p)).pc = "sent"
          /\ Sent("hash", PostedNonce(p)).posted = PostedNonce(p)
      BY PostedTyped, SentTyped
    <3>2. ASSUME PostedNonce(p) # Null PROVE page'.edited
      <4>1. p.edited
        BY <1>7, <2>4, <3>2, PostsTyped
      <4>2. page'.edited = p.edited
        BY <2>1 DEF SameShown
      <4> QED BY <4>1, <4>2, Zenon
    <3>3. CallMoves
      BY <2>4, <3>1, <3>2, MoveIs
    <3> QED BY <2>2, <3>3
  <2>5. \/ calls' = [calls EXCEPT ![c] = IdleCall]
        \/ calls' = [calls EXCEPT ![c] = Sent("hash", PostedNonce(p))] /\ p.shows # 0
    BY <1>7, WentOn
  <2> QED BY <2>2, <2>3, <2>4, <2>5
<1>8. ASSUME NEW c \in Calls, Arrive(c, s)
      PROVE  UNCHANGED <<serverVars, announced>> /\ FieldIsNonce' /\ CallMoves
  <2>1. calls[c].answer \in Message
    BY <1>8 DEF Arrive, AnswersAreReady
  <2>2. /\ Applied(calls[c].answer, Null) \in PageType
        /\ FieldOK(Applied(calls[c].answer, Null))
    BY <1>1, <2>1, AppliedPage, AppliedField
  <2> QED BY <1>7, <1>8, <2>2 DEF Arrive
<1>9. ASSUME NEW c \in Calls, ArriveFailed(c, s)
      PROVE  UNCHANGED <<serverVars, announced>> /\ FieldIsNonce' /\ CallMoves
  BY <1>1, <1>7, <1>9 DEF ArriveFailed
<1> QED BY <1>3, <1>4, <1>5, <1>6, <1>8, <1>9 DEF SockStep

\* What a step of the page alone leaves in place.
LEMMA PageStepMoves ==
  ASSUME TypeOK, FieldIsNonce, PageStep
  PROVE  /\ UNCHANGED <<serverVars, announced, socks, timers>> /\ FieldIsNonce' /\ CallMoves
         /\ page'.shows = page.shows /\ page'.last = page.last
         /\ page'.overruled = page.overruled /\ page'.current = page.current
<1>1. page \in PageType /\ FieldOK(page)
  BY DEF TypeOK, FieldOK, FieldIsNonce
<1>2. CASE BootFails \/ \E text \in TypedNonces : Type(text)
  BY <1>1, <1>2 DEF BootFails, Type, CallMoves, FieldOK, FieldIsNonce, PageType
<1>3. ASSUME NEW c \in Calls, BootLoads(c)
      PROVE  /\ UNCHANGED <<serverVars, announced, socks, timers>> /\ FieldIsNonce' /\ CallMoves
             /\ page'.shows = page.shows /\ page'.last = page.last
             /\ page'.overruled = page.overruled /\ page'.current = page.current
  <2>1. PICK call \in CallType : /\ call = Sent("boot", Null)
                                /\ call.pc = "sent" /\ call.posted = Null
    BY SentTyped
  <2>2. calls' = [calls EXCEPT ![c] = call]
    BY <1>3, <2>1 DEF BootLoads
  <2>3. CallMoves
    BY <2>1, <2>2, MoveIs
  <2> QED BY <1>1, <1>3, <2>3 DEF BootLoads, FieldOK, FieldIsNonce, PageType
<1>4. ASSUME NEW c \in Calls, MineOnce(c)
      PROVE  UNCHANGED <<serverVars, announced, socks, timers, page>> /\ CallMoves
  <2>1. CASE page.shows = 0
    <3>1. /\ Sent("first", Null) \in CallType
          /\ Sent("first", Null).pc = "sent" /\ Sent("first", Null).posted = Null
      BY SentTyped
    <3>2. calls' = [calls EXCEPT ![c] = Sent("first", Null)]
      BY <1>4, <2>1 DEF MineOnce
    <3>3. CallMoves
      BY <3>1, <3>2, MoveIs
    <3> QED BY <1>4, <3>3 DEF MineOnce
  <2>2. CASE page.shows # 0
    <3>1. /\ Sent("hash", PostedNonce(page)) \in CallType
          /\ Sent("hash", PostedNonce(page)).pc = "sent"
          /\ Sent("hash", PostedNonce(page)).posted = PostedNonce(page)
      BY <1>1, PostedTyped, SentTyped
    <3>2. PostedNonce(page) # Null => page'.edited
      BY <1>1, <1>4, <2>2, PostsTyped DEF MineOnce
    <3>3. calls' = [calls EXCEPT ![c] = Sent("hash", PostedNonce(page))]
      BY <1>4, <2>2 DEF MineOnce
    <3>4. CallMoves
      BY <3>1, <3>2, <3>3, MoveIs
    <3> QED BY <1>4, <3>4 DEF MineOnce
  <2> QED BY <1>4, <2>1, <2>2 DEF MineOnce
<1>5. ASSUME NEW c \in Calls, NEW kind \in {"load", "refresh"}, AskCandidate(c, kind)
      PROVE  UNCHANGED <<serverVars, announced, socks, timers, page>> /\ CallMoves
  <2>1. /\ Sent(kind, Null) \in CallType
        /\ Sent(kind, Null).pc = "sent" /\ Sent(kind, Null).posted = Null
    BY DEF Sent, CallType
  <2>2. calls' = [calls EXCEPT ![c] = Sent(kind, Null)]
    BY <1>5 DEF AskCandidate
  <2>3. CallMoves
    BY <2>1, <2>2, MoveIs
  <2> QED BY <1>5, <2>3 DEF AskCandidate
<1>6. UNCHANGED page => FieldIsNonce'
  BY DEF FieldIsNonce
<1> QED BY <1>2, <1>3, <1>4, <1>5, <1>6 DEF PageStep

\* The server's steps leave the page alone, but for its sockets, and send none
\* of its calls.
LEMMA ServerStepMoves ==
  ASSUME TypeOK, FieldIsNonce, ServerStep
  PROVE  /\ FieldIsNonce'
         /\ \A c \in Calls : calls'[c] # calls[c] => calls'[c].pc # "sent"
<1>1. page \in PageType /\ calls \in [Calls -> CallType]
  BY DEF TypeOK
<1>2. page' = page \/ Restart
  BY DEF ServerStep, ServeLive, Refuse, SaveThrows, Miss, Hit, SubmitEnds, BuildEnds, OtherMiss,
         CountedCall, Counted
<1>3. Restart => /\ page'.shows = page.shows /\ page'.nonce = page.nonce
                 /\ page'.field = page.field /\ page'.edited = page.edited
  BY <1>1 DEF Restart, Closed, PageType
<1>4. FieldIsNonce'
  BY <1>2, <1>3 DEF FieldIsNonce
<1>5. \A call, m : /\ Answered(call, m).pc = "answered" /\ Failed(call).pc = "failed"
                   /\ Ended(call, "submitting", m).pc = "submitting"
  BY DEF Answered, Failed, Ended
<1>6. ASSUME NEW c \in Calls, ServeLive(c) \/ Refuse(c) \/ SaveThrows(c) \/ Miss(c) \/ Hit(c)
                              \/ SubmitEnds(c)
      PROVE  \A d \in Calls : calls'[d] # calls[d] => calls'[d].pc # "sent"
  <2>1. ASSUME NEW call, calls' = [calls EXCEPT ![c] = call], call.pc # "sent"
        PROVE  \A d \in Calls : calls'[d] # calls[d] => calls'[d].pc # "sent"
    BY <1>1, <2>1
  <2>2. CASE SubmitEnds(c)
    <3>1. [calls[c] EXCEPT !.pc = "answered"].pc = "answered"
      BY <1>1 DEF CallType
    <3> QED BY <2>1, <2>2, <3>1 DEF SubmitEnds
  <2>3. CASE ServeLive(c) \/ Miss(c)
    <3>1. PICK m : calls' = [calls EXCEPT ![c] = Answered(calls[c], m)]
      BY <2>3 DEF ServeLive, Miss
    <3>2. Answered(calls[c], m).pc # "sent"
      BY <1>5
    <3> QED BY <2>1, <3>1, <3>2
  <2>4. CASE Refuse(c) \/ SaveThrows(c)
    BY <1>5, <2>1, <2>4 DEF Refuse, SaveThrows
  <2>5. CASE Hit(c)
    BY <1>5, <2>1, <2>5 DEF Hit
  <2> QED BY <1>6, <2>2, <2>3, <2>4, <2>5
<1>7. ASSUME NEW waiting \in SUBSET Calls, BuildEnds(waiting)
      PROVE  \A d \in Calls : calls'[d] # calls[d] => calls'[d].pc # "sent"
  BY <1>5, <1>7 DEF BuildEnds
<1>8. OtherMiss \/ Restart => \A d \in Calls : calls'[d] # calls[d] => calls'[d].pc # "sent"
  BY <1>5 DEF OtherMiss, Restart
<1> QED BY <1>4, <1>6, <1>7, <1>8 DEF ServerStep

-----------------------------------------------------------------------------
(* Sockets and timers *)

\* NeverStranded survives a step that frees no socket and clears no timer, one
\* that connects, and one that closes sockets and sets a timer for each.
LEMMA StrandedKept ==
  ASSUME NeverStranded, page'.current = page.current \/ page.current # Null, timers' = timers,
         \A s \in Socks : socks[s].pc # "free" => socks'[s].pc # "free"
  PROVE  NeverStranded'
BY DEF NeverStranded, InUse

\* A socket that connects is in use.
LEMMA StrandedConnected ==
  ASSUME TypeOK, NEW s \in Socks, ConnectOn(s)
  PROVE  NeverStranded'
<1>1. socks'[s].pc = "connecting"
  BY Connected
<1> QED BY <1>1 DEF NeverStranded, InUse

\* A close leaves a timer for the next connection.
LEMMA StrandedClosed ==
  ASSUME TypeOK, NeverStranded, NEW gone \in SUBSET Socks, Closed(gone)
  PROVE  NeverStranded'
<1>1. CASE gone # {}
  <2>1. timers' > 0
    BY <1>1, ClosedTyped
  <2> QED BY <2>1 DEF NeverStranded
<1>2. CASE gone = {}
  <2>1. timers' = timers /\ \A s \in Socks : socks'[s] = socks[s]
    BY <1>2, ClosedTyped
  <2>2. page'.current = page.current
    BY <1>2 DEF Closed, TypeOK, PageType
  <2> QED BY <2>1, <2>2, StrandedKept
<1> QED BY <1>1, <1>2

\* Every step keeps NeverStranded.
LEMMA NextStranded ==
  ASSUME TypeOK, AnswersAreReady, FieldIsNonce, NeverStranded, Next
  PROVE  NeverStranded'
<1>1. page \in PageType /\ socks \in [Socks -> SockType]
  BY DEF TypeOK
<1>2. ASSUME NEW s \in Socks, SockStep(s)
      PROVE  NeverStranded'
  <2>1. CASE Accept(s) \/ Die(s)
    BY <1>1, <2>1, StrandedKept DEF Accept, Die, SockType
  <2>2. CASE Synced(s)
    <3>1. /\ socks'[s].pc = "open" /\ \A t \in Socks : t # s => socks'[t] = socks[t]
      BY <2>2, SyncedIs
    <3> QED BY <2>2, <3>1, StrandedKept DEF Synced
  <2>3. CASE Deliver(s)
    <3>1. socks'[s].pc = socks[s].pc /\ \A t \in Socks : t # s => socks'[t] = socks[t]
      BY <2>3, DeliverIs
    <3>2. Head(socks[s].queue) \in Message
      BY <1>1, <2>3, Taken DEF Deliver, SockType
    <3>3. page'.current = page.current
      BY <1>1, <2>3, <3>2, AppliedPage DEF Deliver
    <3> QED BY <2>3, <3>1, <3>3, StrandedKept DEF Deliver
  <2>4. CASE Disconnect(s)
    BY <2>4, StrandedClosed DEF Disconnect
  <2>5. CASE Reconnect(s) \/ BootConnects(s)
    BY <2>5, StrandedConnected DEF Reconnect, BootConnects
  <2>6. ASSUME NEW c \in Calls, LookAt(c, s)
        PROVE  NeverStranded'
    <3>1. ConnectOn(s) \/ UNCHANGED <<page, socks, timers>>
      BY <2>6 DEF LookAt
    <3> QED BY <3>1, StrandedConnected, StrandedKept
  <2>7. ASSUME NEW c \in Calls, NEW p \in PageType, GoOn(c, s, p), p.current = page.current,
               timers' = timers
        PROVE  NeverStranded'
    <3>1. (page' = p /\ socks' = socks) \/ ConnectOn(s)
      BY <2>7, WentOn
    <3> QED BY <2>7, <3>1, StrandedConnected, StrandedKept
  <2>8. ASSUME NEW c \in Calls, Arrive(c, s)
        PROVE  NeverStranded'
    <3>1. calls[c].answer \in Message
      BY <2>8 DEF Arrive, AnswersAreReady
    <3>2. /\ Applied(calls[c].answer, Null) \in PageType
          /\ Applied(calls[c].answer, Null).current = page.current
      BY <1>1, <3>1, AppliedPage
    <3> QED BY <2>7, <2>8, <3>2 DEF Arrive
  <2>9. ASSUME NEW c \in Calls, ArriveFailed(c, s)
        PROVE  NeverStranded'
    BY <1>1, <2>7, <2>9 DEF ArriveFailed
  <2> QED BY <1>2, <2>1, <2>2, <2>3, <2>4, <2>5, <2>6, <2>8, <2>9 DEF SockStep
<1>3. CASE PageStep
  <2>1. UNCHANGED <<socks, timers>> /\ page'.current = page.current
    BY <1>3, PageStepMoves
  <2> QED BY <2>1, StrandedKept
<1>4. CASE ServerStep
  <2>1. CASE Restart
    BY <2>1, StrandedClosed DEF Restart
  <2>2. CASE ~Restart
    <3>1. UNCHANGED <<page, timers>> /\ (socks' = socks \/ \E m : Broadcast(m))
      BY <1>4, <2>2 DEF ServerStep, ServeLive, Refuse, SaveThrows, Miss, Hit, SubmitEnds,
                        BuildEnds, OtherMiss, CountedCall, Counted
    <3>2. ASSUME NEW m, Broadcast(m), NEW s \in Socks
          PROVE  socks'[s].pc = socks[s].pc
      BY <1>1, <3>2 DEF Broadcast, SockType
    <3> QED BY <3>1, <3>2, StrandedKept
  <2> QED BY <2>1, <2>2
<1> QED BY <1>2, <1>3, <1>4 DEF Next

-----------------------------------------------------------------------------
(* Candidates *)

\* InStep() with its state in the open: the queue q of socket s, the live build
\* and the n-th hash, and the page p.
InStepOf(q, s, build, n, p) ==
  \/ Carries(q, build, n)
  \/ /\ NoCandidate(q)
     /\ \/ s \in p.overruled
        \/ /\ p.shows = build
           /\ p.last >= n \/ Brings(q, 1, n)

\* InStep depends on one socket's queue, the page and what was announced.
LEMMA InStepIs == \A s : InStep(s) <=> InStepOf(socks[s].queue, s, live, announced, page)
BY DEF InStep, InStepOf

\* The page goes on to some other state.
LEMMA InStepWithPage ==
  ASSUME NEW q, NEW s, NEW build, NEW n \in Nat, NEW p, NEW r,
         InStepOf(q, s, build, n, p),
         p.last \in Nat, r.last \in Nat,
         \/ s \in r.overruled
         \/ r.shows = p.shows /\ r.last >= p.last /\ (s \in p.overruled => s \in r.overruled)
  PROVE  InStepOf(q, s, build, n, r)
BY DEF InStepOf

\* A result is appended to the queue.
LEMMA InStepWithResult ==
  ASSUME NEW q \in Seq(Message), NEW s, NEW build \in Nat, NEW n \in Nat, NEW p \in PageType,
         InStepOf(q, s, build, n, p),
         NEW m \in HashMessage, NEW next \in Nat, next = n \/ m.attempts >= next
  PROVE  InStepOf(Append(q, m), s, build, next, p)
<1>1. /\ Carries(q, build, n) => Carries(Append(q, m), build, next)
      /\ NoCandidate(q) => NoCandidate(Append(q, m))
      /\ Brings(q, 1, n) => Brings(Append(q, m), 1, next)
      /\ m.attempts >= next => Brings(Append(q, m), 1, next)
  BY ResultAppended
<1> QED BY <1>1 DEF InStepOf

\* A message is taken off the queue, and applied.
LEMMA InStepDelivered ==
  ASSUME page \in PageType, NEW q \in Seq(Message), q # <<>>, NEW s \in Socks,
         NEW build \in Nat, NEW n \in Nat, InStepOf(q, s, build, n, page)
  PROVE  InStepOf(Tail(q), s, build, n, Applied(Head(q), s))
<1> DEFINE m == Head(q)
           r == Applied(m, s)
<1>1. /\ m \in Message /\ m.attempts \in Nat
      /\ page.last \in Nat
  BY Taken, MessageTyped DEF PageType
<1>2. r.last \in Nat
  BY <1>1, AppliedPage DEF PageType
<1>3. /\ NoCandidate(q) => NoCandidate(Tail(q)) /\ m.type # "candidate"
      /\ Brings(q, 1, n) => m.attempts >= n \/ Brings(Tail(q), 1, n)
      /\ Carries(q, build, n) =>
           \/ Carries(Tail(q), build, n)
           \/ /\ NoCandidate(Tail(q))
              /\ m.type = "candidate" /\ m.build = build
              /\ m.attempts >= n \/ Brings(Tail(q), 1, n)
  BY HeadTaken
<1>4. /\ m.type = "candidate" => r.shows = m.build /\ r.last = m.attempts
      /\ m.type # "candidate" => /\ r.shows = page.shows /\ r.overruled = page.overruled
                                 /\ r.last >= page.last /\ r.last >= m.attempts
  BY <1>1, AppliedPage
<1> HIDE DEF m, r
<1>5. InStepOf(Tail(q), s, build, n, r)
  <2>1. CASE Carries(q, build, n)
    BY <1>3, <1>4, <2>1 DEF InStepOf
  <2>2. CASE NoCandidate(q) /\ s \in page.overruled
    BY <1>3, <1>4, <2>2 DEF InStepOf
  <2>3. CASE NoCandidate(q) /\ page.shows = build /\ (page.last >= n \/ Brings(q, 1, n))
    <3>1. r.last >= n \/ Brings(Tail(q), 1, n)
      BY <1>1, <1>2, <1>3, <1>4, <2>3
    <3> QED BY <1>3, <1>4, <2>3, <3>1 DEF InStepOf
  <2> QED BY <2>1, <2>2, <2>3 DEF InStepOf
<1> QED BY <1>5 DEF m, r

\* A page that goes on, with sockets none of which opens.
LEMMA StepsOn ==
  ASSUME TypeOK, SocketsInStep, live' = live, announced' = announced, page' \in PageType,
         \A t \in Socks : socks'[t].pc = "open" =>
           /\ socks[t].pc = "open" /\ socks'[t].queue = socks[t].queue
           /\ \/ t \in page'.overruled
              \/ /\ page'.shows = page.shows /\ page'.last >= page.last
                 /\ t \in page.overruled => t \in page'.overruled
  PROVE  SocketsInStep'
<1>1. page.last \in Nat /\ page'.last \in Nat /\ announced \in Nat
  BY DEF TypeOK, PageType
<1>2. ASSUME NEW t \in Socks, socks'[t].pc = "open", live' # 0
      PROVE  InStepOf(socks'[t].queue, t, live', announced', page')
  <2>1. InStepOf(socks[t].queue, t, live, announced, page)
    BY <1>2, InStepIs DEF SocketsInStep
  <2>2. InStepOf(socks[t].queue, t, live, announced, page')
    BY <1>1, <1>2, <2>1, InStepWithPage
  <2> QED BY <1>2, <2>2
<1>3. \A t : InStep(t)' <=> InStepOf(socks'[t].queue, t, live', announced', page')
  BY DEF InStep, InStepOf
<1> QED BY <1>2, <1>3 DEF SocketsInStep

\* A step of a socket, and one of the server, keep every socket in step.
LEMMA SockStepInStep ==
  ASSUME TypeOK, TypeOK', AnswersAreReady, FieldIsNonce, CountCovers, SocketsInStep,
         NEW s \in Socks, SockStep(s)
  PROVE  SocketsInStep'
<1>1. /\ page \in PageType /\ page' \in PageType /\ socks \in [Socks -> SockType]
      /\ socks[s].queue \in Seq(Message) /\ page.last \in Nat
      /\ live \in Nat /\ announced \in Nat
  BY DEF TypeOK, PageType, SockType
<1>2. live' = live /\ announced' = announced /\ count' = count
  BY SockStepMoves DEF serverVars
<1>3. \A t : InStep(t)' <=> InStepOf(socks'[t].queue, t, live', announced', page')
  BY DEF InStep, InStepOf
<1>4. CASE Accept(s) \/ Die(s)
  <2>1. /\ page' = page /\ socks'[s].pc # "open"
        /\ \A t \in Socks : t # s => socks'[t] = socks[t]
    BY <1>1, <1>4 DEF Accept, Die, SockType
  <2> QED BY <1>1, <1>2, <2>1, StepsOn
<1>5. CASE Synced(s)
  <2>1. /\ live # 0 => /\ Formatted \in CandidateMessage
                       /\ socks'[s].queue = Append(socks[s].queue, Formatted)
        /\ \A t \in Socks : t # s => socks'[t] = socks[t]
    BY <1>5, SyncedIs
  <2>2. ASSUME live # 0 PROVE InStepOf(socks'[s].queue, s, live, announced, page)
    <3>1. Formatted.build = live /\ Formatted.attempts >= announced
      BY <1>1 DEF Formatted, CountCovers, TypeOK
    <3>2. Carries(socks'[s].queue, live, announced)
      BY <1>1, <2>1, <2>2, <3>1, CandidateAppended
    <3> QED BY <3>2 DEF InStepOf
  <2>3. page' = page
    BY <1>5 DEF Synced
  <2> QED BY <1>2, <1>3, <2>1, <2>2, <2>3, InStepIs DEF SocketsInStep
<1>6. CASE Deliver(s)
  <2> DEFINE m == Head(socks[s].queue)
  <2>1. /\ socks'[s].pc = socks[s].pc /\ socks'[s].queue = Tail(socks[s].queue)
        /\ \A t \in Socks : t # s => socks'[t] = socks[t]
    BY <1>6, DeliverIs
  <2>2. m \in Message /\ page' = Applied(m, s) /\ socks[s].queue # <<>>
    BY <1>1, <1>6, Taken DEF Deliver
  <2>3. ASSUME NEW t \in Socks \ {s}, socks[t].pc = "open", live # 0
        PROVE  InStepOf(socks[t].queue, t, live, announced, page')
    <3>1. InStepOf(socks[t].queue, t, live, announced, page)
      BY <2>3, InStepIs DEF SocketsInStep
    <3>2. t \in InUse
      BY <2>3 DEF InUse
    <3>3. \/ t \in page'.overruled
          \/ page'.shows = page.shows /\ page'.last >= page.last
             /\ (t \in page.overruled => t \in page'.overruled)
      <4>1. PICK n \in Message : n = m
        BY <2>2
      <4>2. page \in PageType /\ page' = Applied(n, s)
        BY <1>1, <2>2, <4>1
      <4>3. CASE n.type = "candidate"
        <5>1. Applied(n, s).overruled = InUse \ {s}
          BY <4>2, <4>3, AppliedPage
        <5> QED BY <3>2, <4>2, <5>1
      <4>4. CASE n.type # "candidate"
        <5>1. /\ Applied(n, s).shows = page.shows /\ Applied(n, s).overruled = page.overruled
              /\ Applied(n, s).last >= page.last
          BY <4>2, <4>4, AppliedPage
        <5> QED BY <4>2, <5>1
      <4> QED BY <4>3, <4>4
    <3>4. page'.last \in Nat
      BY <1>1 DEF PageType
    <3> QED BY <1>1, <3>1, <3>3, <3>4, InStepWithPage
  <2>4. ASSUME socks[s].pc = "open", live # 0
        PROVE  InStepOf(socks'[s].queue, s, live, announced, page')
    <3>1. InStepOf(socks[s].queue, s, live, announced, page)
      BY <2>4, InStepIs DEF SocketsInStep
    <3> QED BY <1>1, <2>1, <2>2, <3>1, InStepDelivered
  <2> QED BY <1>2, <1>3, <2>1, <2>3, <2>4 DEF SocketsInStep
<1>7. CASE Disconnect(s)
  <2>1. /\ socks'[s].pc = "free" /\ \A t \in Socks : t # s => socks'[t] = socks[t]
    BY <1>7, ClosedTyped DEF Disconnect
  <2>2. /\ page'.shows = page.shows /\ page'.last = page.last
        /\ page'.overruled = page.overruled \ {s}
    BY <1>1, <1>7 DEF Disconnect, Closed, PageType
  <2> QED BY <1>1, <1>2, <2>1, <2>2, StepsOn
<1>8. ASSUME ConnectOn(s), NEW p \in PageType, SameShown(p, page'),
             \A t \in Socks : socks[t].pc = "open" =>
               \/ t \in p.overruled
               \/ /\ p.shows = page.shows /\ p.last >= page.last
                  /\ t \in page.overruled => t \in p.overruled
      PROVE  SocketsInStep'
  <2>1. /\ socks'[s].pc # "open" /\ \A t \in Socks : t # s => socks'[t] = socks[t]
    BY <1>8, Connected
  <2>2. /\ page'.shows = p.shows /\ page'.last = p.last /\ page'.overruled = p.overruled
    BY <1>8 DEF SameShown
  <2> QED BY <1>1, <1>2, <1>8, <2>1, <2>2, StepsOn
<1>9. CASE Reconnect(s) \/ BootConnects(s)
  <2>1. ConnectOn(s) /\ SameShown(page, page')
    BY <1>1, <1>9 DEF Reconnect, BootConnects, SameShown, PageType
  <2> QED BY <1>1, <1>8, <2>1
<1>10. ASSUME NEW c \in Calls, LookAt(c, s)
       PROVE  SocketsInStep'
  <2>1. CASE UNCHANGED <<page, socks>>
    BY <1>1, <1>2, <2>1, StepsOn
  <2>2. CASE ConnectOn(s) /\ page' = [page EXCEPT !.current = s]
    <3>1. SameShown(page, page')
      BY <1>1, <2>2 DEF SameShown, PageType
    <3> QED BY <1>1, <1>8, <2>2, <3>1
  <2> QED BY <1>10, <2>1, <2>2 DEF LookAt
<1>11. ASSUME NEW c \in Calls, NEW p \in PageType, GoOn(c, s, p),
              \A t \in Socks : socks[t].pc = "open" =>
                \/ t \in p.overruled
                \/ /\ p.shows = page.shows /\ p.last >= page.last
                   /\ t \in page.overruled => t \in p.overruled
       PROVE  SocketsInStep'
  <2>1. SameShown(p, page') /\ ((page' = p /\ socks' = socks) \/ ConnectOn(s))
    BY <1>11, WentOn
  <2>2. CASE page' = p /\ socks' = socks
    BY <1>1, <1>2, <1>11, <2>2, StepsOn
  <2>3. CASE ConnectOn(s)
    BY <1>8, <1>11, <2>1, <2>3
  <2> QED BY <2>1, <2>2, <2>3
<1>12. ASSUME NEW c \in Calls, Arrive(c, s)
       PROVE  SocketsInStep'
  <2> DEFINE m == calls[c].answer
             p == Applied(m, Null)
  <2>1. m \in Message /\ GoOn(c, s, p)
    BY <1>12 DEF Arrive, AnswersAreReady
  <2>2. p \in PageType
    BY <1>1, <2>1, AppliedPage
  <2>3. ASSUME NEW t \in Socks, socks[t].pc = "open"
        PROVE  \/ t \in p.overruled
               \/ /\ p.shows = page.shows /\ p.last >= page.last
                  /\ t \in page.overruled => t \in p.overruled
    <3>1. CASE m.type = "candidate"
      <4>1. t \in InUse \ {Null}
        BY <2>3, ConstantsOK DEF InUse
      <4> QED BY <1>1, <2>1, <3>1, <4>1, AppliedPage
    <3>2. CASE m.type # "candidate"
      BY <1>1, <2>1, <3>2, AppliedPage
    <3> QED BY <3>1, <3>2
  <2> HIDE DEF p
  <2> QED BY <1>11, <2>1, <2>2, <2>3
<1>13. ASSUME NEW c \in Calls, ArriveFailed(c, s)
       PROVE  SocketsInStep'
  BY <1>1, <1>11, <1>13 DEF ArriveFailed
<1> QED BY <1>4, <1>5, <1>6, <1>7, <1>9, <1>10, <1>12, <1>13 DEF SockStep

\* A step of the server leaves the messages on the way in step.
LEMMA ServerStepInStep ==
  ASSUME TypeOK, AnswersAreReady, CountCovers, SocketsInStep, ServerStep
  PROVE  SocketsInStep'
<1>1. /\ page \in PageType /\ live \in Nat /\ announced \in Nat /\ builds \in Nat /\ count \in Nat
      /\ announced <= count
      /\ \A t \in Socks : socks[t].queue \in Seq(Message)
  BY DEF TypeOK, SockType, CountCovers
<1>2. \A t : InStep(t)' <=> InStepOf(socks'[t].queue, t, live', announced', page')
  BY DEF InStep, InStepOf
<1>3. ASSUME UNCHANGED <<live, announced, page, socks>>
      PROVE  SocketsInStep'
  BY <1>2, <1>3, InStepIs DEF SocketsInStep
<1>4. ASSUME NEW m \in HashMessage, Broadcast(m), UNCHANGED <<live, page>>
      PROVE  SocketsInStep'
  <2>1. m \in Message /\ m.type = "hash" /\ m.attempts \in Nat
    BY DEF HashMessage, Message
  <2>2. /\ announced' \in Nat /\ (announced' = announced \/ m.attempts >= announced')
        /\ \A t \in Socks :
             /\ socks'[t].pc = socks[t].pc
             /\ socks[t].pc = "open" => socks'[t].queue = Append(socks[t].queue, m)
    BY <1>4, <2>1, Broadcasted
  <2>3. ASSUME NEW t \in Socks, socks[t].pc = "open", live # 0
        PROVE  InStepOf(Append(socks[t].queue, m), t, live, announced', page)
    <3>1. InStepOf(socks[t].queue, t, live, announced, page)
      BY <2>3, InStepIs DEF SocketsInStep
    <3> QED BY <1>1, <2>2, <3>1, InStepWithResult
  <2> QED BY <1>2, <1>4, <2>2, <2>3 DEF SocketsInStep
<1>5. ASSUME NEW posted \in Nat \cup {Null}, Counted(posted), Broadcast(Result(FALSE))
      PROVE  SocketsInStep'
  <2>1. Result(FALSE) \in HashMessage
    BY <1>5, CountedTyped
  <2> QED BY <1>4, <1>5, <2>1 DEF Counted
<1>6. ASSUME NEW c \in Calls, Miss(c)
      PROVE  SocketsInStep'
  <2>1. calls[c].posted \in Nat \cup {Null}
    BY DEF TypeOK, CallType
  <2> QED BY <1>5, <1>6, <2>1 DEF Miss, CountedCall
<1>7. CASE OtherMiss
  BY <1>5, <1>7 DEF OtherMiss
<1>8. ASSUME NEW c \in Calls, SubmitEnds(c)
      PROVE  SocketsInStep'
  <2>1. calls[c].answer \in HashMessage
    BY <1>8, MessageTyped DEF SubmitEnds, AnswersAreReady
  <2> QED BY <1>4, <1>8, <2>1 DEF SubmitEnds, serverVars
<1>9. ASSUME NEW waiting \in SUBSET Calls, BuildEnds(waiting)
      PROVE  SocketsInStep'
  <2> DEFINE m == [type |-> "candidate", build |-> builds + 1, nonce |-> 0, attempts |-> count]
  <2>1. /\ m \in CandidateMessage /\ m \in Message /\ m.type # "hash"
        /\ m.build = builds + 1 /\ m.attempts >= announced
    BY <1>1 DEF CandidateMessage, Message
  <2>2. Broadcast(m) /\ live' = builds + 1 /\ page' = page
    BY <1>9 DEF BuildEnds
  <2> HIDE DEF m
  <2>3. /\ announced' = announced
        /\ \A t \in Socks :
             /\ socks'[t].pc = socks[t].pc
             /\ socks[t].pc = "open" => socks'[t].queue = Append(socks[t].queue, m)
    BY <2>1, <2>2, Broadcasted
  <2>4. ASSUME NEW t \in Socks, socks[t].pc = "open"
        PROVE  Carries(Append(socks[t].queue, m), builds + 1, announced)
    BY <1>1, <2>1, CandidateAppended
  <2>5. ASSUME NEW t \in Socks, socks'[t].pc = "open"
        PROVE  InStepOf(socks'[t].queue, t, live', announced', page')
    BY <2>2, <2>3, <2>4, <2>5 DEF InStepOf
  <2> QED BY <1>2, <2>5 DEF SocketsInStep
<1>10. ASSUME NEW c \in Calls, ServeLive(c) \/ Refuse(c) \/ SaveThrows(c) \/ Hit(c)
       PROVE  SocketsInStep'
  BY <1>3, <1>10 DEF ServeLive, Refuse, SaveThrows, Hit, CountedCall, Counted, serverVars
<1>11. CASE Restart
  BY <1>11 DEF Restart, SocketsInStep
<1> QED BY <1>6, <1>7, <1>8, <1>9, <1>10, <1>11 DEF ServerStep

-----------------------------------------------------------------------------
(* The inductive invariant *)

\* The invariant holds at first.
LEMMA InitIInv == Init => IInv
<1> SUFFICES ASSUME Init PROVE IInv
  OBVIOUS
<1>1. TypeOK
  <2>1. page \in PageType
    BY DEF Init, PageType
  <2>2. socks \in [Socks -> SockType]
    BY NoSockTyped DEF Init
  <2>3. calls \in [Calls -> CallType]
    BY DEF Init, IdleCall, CallType
  <2> QED BY <2>1, <2>2, <2>3 DEF Init, TypeOK
<1>2. AnswersAreReady /\ CountCovers /\ FieldIsNonce /\ NeverStranded
  BY DEF Init, AnswersAreReady, IdleCall, CountCovers, FieldIsNonce, NeverStranded
<1>3. SocketsInStep
  BY DEF Init, SocketsInStep
<1> QED BY <1>1, <1>2, <1>3 DEF IInv

\* A step of the page leaves the answers and the count as they are.
LEMMA MovesReady ==
  ASSUME TypeOK, AnswersAreReady, CountCovers, CallMoves, UNCHANGED <<serverVars, announced>>
  PROVE  AnswersAreReady' /\ CountCovers'
<1>1. saved' = saved /\ saved' \in Nat /\ saved' >= saved /\ CountCovers'
  BY DEF TypeOK, serverVars, CountCovers
<1>2. CASE calls' = calls
  BY <1>1, <1>2 DEF AnswersAreReady
<1>3. ASSUME NEW c \in Calls, NEW d \in CallType, calls' = [calls EXCEPT ![c] = d],
             d.pc \in {"idle", "sent"}
      PROVE  AnswersAreReady'
  BY <1>1, <1>3, OneCall
<1> QED BY <1>1, <1>2, <1>3 DEF CallMoves

\* Every step keeps IInv.
LEMMA NextIInv == IInv /\ [Next]_vars => IInv'
<1> SUFFICES ASSUME IInv, [Next]_vars PROVE IInv'
  OBVIOUS
<1>1. TypeOK /\ AnswersAreReady /\ CountCovers /\ FieldIsNonce /\ SocketsInStep /\ NeverStranded
  BY DEF IInv
<1>2. ASSUME NEW s \in Socks, SockStep(s)
      PROVE  IInv'
  <2>1. TypeOK'
    BY <1>1, <1>2, SockStepTyped
  <2>2. UNCHANGED <<serverVars, announced>> /\ FieldIsNonce' /\ CallMoves
    BY <1>1, <1>2, SockStepMoves
  <2>3. AnswersAreReady' /\ CountCovers'
    BY <1>1, <2>2, MovesReady
  <2>4. SocketsInStep'
    BY <1>1, <1>2, <2>1, SockStepInStep
  <2>5. NeverStranded'
    BY <1>1, <1>2, NextStranded DEF Next
  <2> QED BY <2>1, <2>2, <2>3, <2>4, <2>5 DEF IInv
<1>3. CASE PageStep
  <2>1. TypeOK'
    BY <1>1, <1>3, PageStepTyped
  <2>2. /\ UNCHANGED <<serverVars, announced, socks, timers>> /\ FieldIsNonce' /\ CallMoves
        /\ page'.shows = page.shows /\ page'.last = page.last
        /\ page'.overruled = page.overruled
    BY <1>1, <1>3, PageStepMoves
  <2>3. AnswersAreReady' /\ CountCovers'
    BY <1>1, <2>2, MovesReady
  <2>4. SocketsInStep'
    <3>1. page'.last >= page.last /\ page' \in PageType
      BY <1>1, <2>1, <2>2 DEF TypeOK, PageType
    <3> QED BY <1>1, <2>2, <3>1, StepsOn DEF serverVars
  <2>5. NeverStranded'
    BY <1>1, <1>3, NextStranded DEF Next
  <2> QED BY <2>1, <2>2, <2>3, <2>4, <2>5 DEF IInv
<1>4. CASE ServerStep
  <2>1. TypeOK' /\ AnswersAreReady' /\ CountCovers'
    BY <1>1, <1>4, ServerStepTyped
  <2>2. FieldIsNonce' /\ SocketsInStep'
    BY <1>1, <1>4, ServerStepMoves, ServerStepInStep
  <2>3. NeverStranded'
    BY <1>1, <1>4, NextStranded DEF Next
  <2> QED BY <2>1, <2>2, <2>3 DEF IInv
<1>5. CASE UNCHANGED vars
  <2>1. TypeOK' /\ AnswersAreReady' /\ CountCovers' /\ FieldIsNonce' /\ NeverStranded'
    BY <1>1, <1>5 DEF vars, serverVars, TypeOK, AnswersAreReady, CountCovers, FieldIsNonce,
                      NeverStranded, InUse
  <2>2. SocketsInStep'
    BY <1>1, <1>5 DEF vars, serverVars, SocketsInStep, InStep
  <2> QED BY <2>1, <2>2 DEF IInv
<1> QED BY <1>2, <1>3, <1>4, <1>5 DEF Next

\* IInv is inductive.
THEOREM SpecIInv == Spec => []IInv
BY InitIInv, NextIInv, PTL DEF Spec

-----------------------------------------------------------------------------
(* What follows from it *)

\* Every variable keeps its type: in particular whatever a socket or a call
\* still holds is a message that the page can apply.
THEOREM TypeCorrect == Spec => []TypeOK
BY SpecIInv, PTL DEF IInv

\* A page that has read everything on an open socket shows the live candidate
\* and knows of every hash announced, unless some other candidate reached it
\* another way.
THEOREM TabsAgree == Spec => []SocketTabsAgree
<1>1. IInv => SocketTabsAgree
  <2> SUFFICES ASSUME IInv, NEW s \in Socks \ page.overruled, Drained(s), live # 0
               PROVE  page.shows = live /\ page.last >= announced
    BY DEF SocketTabsAgree
  <2>1. DOMAIN socks[s].queue = {}
    BY DEF Drained
  <2>2. InStep(s)
    BY DEF IInv, SocketsInStep, Drained
  <2> QED BY <2>1, <2>2 DEF InStep, Carries, Brings
<1> QED BY <1>1, SpecIInv, PTL

\* A page that has tried to connect has a socket or a timer.
THEOREM AlwaysReconnects == Spec => []NeverStranded
BY SpecIInv, PTL DEF IInv

\* A page posts a nonce only if the user has typed it since the field was last
\* updated.
THEOREM PostsOnlyTyped == Spec => OnlyTypedNonces
<1>1. ASSUME IInv, [Next]_vars
      PROVE  [\A c \in Calls :
                calls'[c] # calls[c] /\ calls'[c].pc = "sent" /\ calls'[c].posted # Null
                  => page'.edited]_vars
  <2> SUFFICES ASSUME Next, NEW c \in Calls,
                      calls'[c] # calls[c], calls'[c].pc = "sent", calls'[c].posted # Null
               PROVE  page'.edited
    BY <1>1
  <2>1. TypeOK /\ AnswersAreReady /\ FieldIsNonce /\ calls \in [Calls -> CallType]
    BY <1>1 DEF IInv, TypeOK
  <2>2. ~ServerStep
    BY <2>1, ServerStepMoves
  <2>3. CallMoves
    BY <2>1, <2>2, SockStepMoves, PageStepMoves DEF Next
  <2>4. PICK e \in Calls, d \in CallType :
          /\ calls' = [calls EXCEPT ![e] = d]
          /\ d.pc = "sent" /\ d.posted # Null => page'.edited
    BY <2>3 DEF CallMoves
  <2>5. calls'[c] = d
    BY <2>1, <2>4
  <2> QED BY <2>4, <2>5, Zenon
<1> QED BY <1>1, SpecIInv, PTL DEF Spec, OnlyTypedNonces
=============================================================================
