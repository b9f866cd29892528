------------------------------- MODULE RpcCall -------------------------------
(***************************************************************************)
(* The JSON-RPC client, server/rpc.js.  A call reads the settings when it  *)
(* is made, is refused before anything is sent if they do not allow it, and*)
(* is settled by what becomes of its HTTP exchange with the node.          *)
(*                                                                         *)
(* The node, the cookie file and the network are external: the node carries*)
(* a request out at most once, anybody may answer in its place, and an     *)
(* exchange may end at any point.                                          *)
(***************************************************************************)
EXTENDS Settings

CONSTANTS
  Slots,     \* one slot for each request that may be making a call
  Verdicts   \* what the node may make of a request

VARIABLE calls  \* the call of each slot

\* "sent": before the response headers; "head": inside the response; "stuck":
\* the exchange is over and the promise was neither resolved nor rejected.
CallType == [pc   : {"idle", "sent", "head", "stuck", "refused", "failed", "answered"},
             host : Domain["host"] \cup {Absent},
             port : Domain["port"] \cup {Absent},
             auth : {"none", "password", "cookie"},
             done : Verdicts \cup {"no"}]

RpcTypeOK == calls \in [Slots -> CallType]

NoCall == [pc |-> "idle", host |-> Absent, port |-> Absent, auth |-> "none", done |-> "no"]

RpcInit == calls = [s \in Slots |-> NoCall]

-----------------------------------------------------------------------------

\* Mutant of Allowed: the settings are trusted, since saveSettings() validated
\* them.
AllowedAsSaved(settings) == TRUE

\* assertConnectionAllowed(): the environment and a hand-edited file never saw
\* validate().
Allowed(settings) ==
  /\ Trimmed[settings["host"]] \in Acceptable["host"]
  /\ settings["port"] \in Acceptable["port"]

UsesCookie(settings) == settings["cookiePath"] # Absent

\* rpcCall() throws before its promise exists: 400 from assertConnectionAllowed(),
\* 502 from resolveAuth() if the cookie file cannot be read or holds no ":".
CallRefused(s) ==
  /\ Allowed(Effective) => UsesCookie(Effective)
  /\ calls' = [calls EXCEPT ![s] = [NoCall EXCEPT !.pc = "refused"]]

\* rpcCall() sends its request.
CallSent(s) ==
  /\ Allowed(Effective)
  /\ calls' = [calls EXCEPT ![s] =
       [pc   |-> "sent", host |-> Effective["host"], port |-> Effective["port"],
        auth |-> IF UsesCookie(Effective) THEN "cookie" ELSE "password",
        done |-> "no"]]

Called(s) == CallRefused(s) \/ CallSent(s)

InFlight(s) == calls[s].pc \in {"sent", "head"}

\* Only a call under way is anywhere.
Become(s, pc) ==
  calls' = [calls EXCEPT ![s] = IF pc = "head" THEN [@ EXCEPT !.pc = pc]
                                ELSE [NoCall EXCEPT !.pc = pc, !.done = calls[s].done]]

\* The node carries the request out, whether its answer arrives or the call has
\* failed by then.
NodeCarriesOut(s, verdict) ==
  /\ calls[s].pc \in {"sent", "failed"} /\ calls[s].done = "no"
  /\ calls' = [calls EXCEPT ![s].done = verdict]

\* The response headers arrive: from the node, or from whatever else listens.
HeadersArrive(s) == calls[s].pc = "sent" /\ Become(s, "head")

\* 'end' with a JSON-RPC result: the promise is resolved.
Answered(s) ==
  /\ calls[s].pc = "head" /\ calls[s].done \in Verdicts
  /\ Become(s, "answered")

\* 'end' with a body that is not JSON or that holds an error: rejected.  A body
\* with neither error nor result resolves to undefined, of which every caller
\* makes a failure of its own.
Rejected(s) == calls[s].pc = "head" /\ Become(s, "failed")

\* 'end' with the JSON text `null`: parsed.error throws inside the listener,
\* index.js:583 only logs it, and nothing settles the promise.
NullBody(s) == calls[s].pc = "head" /\ Become(s, "stuck")

\* Mutant of Broken: the request is made again.
BrokenRetried(s) ==
  /\ InFlight(s)
  /\ calls' = [calls EXCEPT ![s].pc = "sent", ![s].done = "no"]

\* 'error' on the request: refused, reset, no name, or destroyed by 'timeout'
\* after 15 s of silence, 45 s over Tor.
Broken(s) == InFlight(s) /\ Become(s, "failed")

\* The peer closes the connection: before the headers the request emits an
\* error, inside the response it emits nothing that is listened to.
PeerCloses(s) ==
  \/ calls[s].pc = "sent" /\ Become(s, "failed")
  \/ calls[s].pc = "head" /\ Become(s, "stuck")

CallEnds(s) == Answered(s) \/ Rejected(s) \/ NullBody(s) \/ Broken(s) \/ PeerCloses(s)

RpcStep(s) ==
  /\ \/ \E verdict \in Verdicts : NodeCarriesOut(s, verdict)
     \/ HeadersArrive(s)
     \/ CallEnds(s)
  /\ UNCHANGED settingsVars
=============================================================================
