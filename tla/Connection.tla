----------------------------- MODULE Connection -----------------------------
(***************************************************************************)
(* The settings form of a page, the HTTP API that serves it, the settings  *)
(* store and the JSON-RPC client together: what a save leaves in           *)
(* config.json, which settings a call is made with, and that every request *)
(* is answered.                                                            *)
(*                                                                         *)
(* One page is followed.  Other pages and other clients post bodies of     *)
(* their own, the operator edits config.json by hand, and the process      *)
(* restarts with another environment.  A step is the code between two      *)
(* awaits.                                                                 *)
(***************************************************************************)
EXTENDS RpcCall

CONSTANTS
  Bodies,  \* the settings other clients post
  Typed,   \* for each field of the form, the values the user types
  Falsy    \* the values that are shown as an empty field: "" and port 0

FormKeys == Keys \ {"protocol"}

\* The values of a key as the text of its field, which may be empty.
ASSUME ConnectionConstantsOK ==
  /\ Bodies \subseteq Config
  /\ DOMAIN Typed = FormKeys
  /\ \A k \in FormKeys : Typed[k] \subseteq Domain[k] /\ "" \in Domain[k]
  /\ \A k \in FormKeys \ {"port"} : Falsy \cap Domain[k] = {""}
  /\ "" \notin Acceptable["port"]

VARIABLES
  reqs,  \* the HTTP requests and their handlers
  form   \* the settings form of the page

vars == <<settingsVars, calls, reqs, form>>

Kinds == {"load", "save", "status", "submit"}

\* `base` and `edited` are history: the settings the page's form was loaded
\* with and the fields the user changed since.
Sending == [kind : Kinds, page : BOOLEAN, body : Config, base : Config, edited : SUBSET FormKeys]

Answers == {"none", "failed", "ok", "accepted", "rejected"}

ReqType == [pc : {"idle", "posted", "calling", "replied"}, of : Sending,
            answer : Answers, shown : Config]

\* The text of each field.
Fields ==
  {f \in [FormKeys -> UNION {Domain[k] : k \in FormKeys}] :
     \A k \in FormKeys : f[k] \in Domain[k]}

FormType == [base : Config, fields : Fields, edited : SUBSET FormKeys]

NoSending == [kind |-> "load", page |-> FALSE, body |-> Nothing, base |-> Nothing, edited |-> {}]

NoReq == [pc |-> "idle", of |-> NoSending, answer |-> "none", shown |-> Nothing]

BlankForm == [base |-> Nothing, fields |-> [k \in FormKeys |-> ""], edited |-> {}]

TypeOK ==
  /\ SettingsTypeOK
  /\ RpcTypeOK
  /\ reqs \in [Slots -> ReqType]
  /\ form \in FormType

Init ==
  /\ SettingsInit
  /\ RpcInit
  /\ reqs = [s \in Slots |-> NoReq]
  /\ form = BlankForm

-----------------------------------------------------------------------------
(* Requests *)

Posted(s, sending) ==
  /\ reqs[s].pc = "idle"
  /\ reqs' = [reqs EXCEPT ![s] = [NoReq EXCEPT !.pc = "posted", !.of = sending]]

Replied(s, answer, shown) ==
  reqs' = [reqs EXCEPT ![s] = [pc |-> "replied", answer |-> answer, shown |-> shown,
                               of |-> [NoSending EXCEPT !.kind = reqs[s].of.kind,
                                                    !.page = reqs[s].of.page]]]

\* handleApi() before the handler, or readJsonBody(): a foreign origin or Host,
\* no such route, a body that is no JSON, too long or cut off.  A body that is
\* too long is destroyed with its connection, so that its 413 never arrives.
TurnedAway(s) ==
  /\ reqs[s].pc = "posted"
  /\ Replied(s, "failed", Nothing)
  /\ UNCHANGED <<settingsVars, calls, form>>

\* GET /api/settings.  The password itself is masked and shown blank.
SettingsShown(s) ==
  /\ reqs[s].pc = "posted" /\ reqs[s].of.kind = "load"
  /\ Replied(s, "ok", Effective)
  /\ UNCHANGED <<settingsVars, calls, form>>

\* POST /api/settings: written, refused by validate(), or failed at the disk.
Save(s) ==
  /\ reqs[s].pc = "posted" /\ reqs[s].of.kind = "save"
  /\ \/ Written(reqs[s].of.body) /\ Replied(s, "ok", Effective')
     \/ WriteTorn(reqs[s].of.body) /\ Replied(s, "failed", Nothing)
     \/ UNCHANGED settingsVars /\ Replied(s, "failed", Nothing)
  /\ UNCHANGED <<calls, form>>

\* GET /api/status up to its await, or a hash that found a block at
\* submitBlock().
CallMade(s) ==
  /\ reqs[s].pc = "posted" /\ reqs[s].of.kind \in {"status", "submit"}
  /\ Called(s)
  /\ reqs' = [reqs EXCEPT ![s].pc = "calling"]
  /\ UNCHANGED <<settingsVars, form>>

\* Mutant of Reported: the detail in the place of the verdict.
ReportedDetail(call) == call.done

\* Mutant of Reported: a block is taken as accepted unless the node says no.
ReportedUnlessRejected(call) == IF call.done = "rejected" THEN "rejected" ELSE "accepted"

\* handleHash(): `accepted` is submitResult === null, and false after an error.
Reported(call) ==
  IF call.pc = "answered" /\ call.done = "accepted" THEN "accepted" ELSE "rejected"

\* Mutant of CallSettled: no catch around the handler.
CallSettledUncaught(s) ==
  /\ reqs[s].pc = "calling" /\ calls[s].pc = "answered"
  /\ Replied(s, IF reqs[s].of.kind = "submit" THEN Reported(calls[s]) ELSE "ok", Nothing)
  /\ UNCHANGED <<settingsVars, calls, form>>

\* The handler continues after its call; computeStatus() answers with what the
\* node said, or with the error.
CallSettled(s) ==
  /\ reqs[s].pc = "calling" /\ calls[s].pc \in {"refused", "failed", "answered"}
  /\ Replied(s, IF reqs[s].of.kind = "submit" THEN Reported(calls[s]) ELSE "ok", Nothing)
  /\ UNCHANGED <<settingsVars, calls, form>>

\* The connection of a client breaks; its handler runs on.
ReplyLost(s) ==
  /\ reqs[s].pc = "replied" /\ reqs[s].answer # "failed"
  /\ Replied(s, "failed", Nothing)
  /\ UNCHANGED <<settingsVars, calls, form>>

\* A client other than the page has its answer, or has given up.
OtherReceives(s) ==
  /\ reqs[s].pc = "replied" /\ ~reqs[s].of.page
  /\ reqs' = [reqs EXCEPT ![s] = NoReq]
  /\ calls' = [calls EXCEPT ![s] = NoCall]
  /\ UNCHANGED <<settingsVars, form>>

\* Another client mines, and has found a block.
OtherPosts(s) ==
  /\ Posted(s, [NoSending EXCEPT !.kind = "submit"])
  /\ UNCHANGED <<settingsVars, calls, form>>

\* Another client saves settings; its request needs no slot, since saveSettings()
\* runs in one step.
OtherSaves ==
  /\ \E body \in Bodies : Written(body) \/ WriteTorn(body)
  /\ UNCHANGED <<calls, reqs, form>>

-----------------------------------------------------------------------------
(* The page *)

\* The page is opened or reloaded: init() calls loadSettings().
PageLoads(s) ==
  /\ \A t \in Slots : ~reqs[t].of.page
  /\ Posted(s, [NoSending EXCEPT !.page = TRUE])
  /\ form' = BlankForm
  /\ UNCHANGED <<settingsVars, calls>>

\* The user changes a field.
Type(k, value) ==
  /\ form.fields[k] # value
  /\ form' = [form EXCEPT !.fields[k] = value, !.edited = @ \cup {k}]
  /\ UNCHANGED <<settingsVars, calls, reqs>>

\* Mutant of SentAs: a blank password field is sent like any other.
SentAsTyped(k, text) == Trimmed[text]

\* What is sent of a field: a blank port or password is not.
SentAs(k, text) ==
  IF k \in {"port", "password"} /\ text = "" THEN Absent ELSE Trimmed[text]

\* The submit handler: the form has no field for the protocol.
FormBody == [k \in AllKeys |-> IF k \in FormKeys THEN SentAs(k, form.fields[k]) ELSE Absent]

\* The button is not disabled while a save is under way.
FormSubmitted(s) ==
  /\ Posted(s, [kind |-> "save", page |-> TRUE, body |-> FormBody,
                base |-> form.base, edited |-> form.edited])
  /\ UNCHANGED <<settingsVars, calls, form>>

\* What loadSettings() puts into the field of k: the password is never shown.
Shown(k, settings) == IF k = "password" \/ settings[k] \in Falsy THEN "" ELSE settings[k]

Loaded(settings) ==
  [base |-> settings, fields |-> [k \in FormKeys |-> Shown(k, settings)], edited |-> {}]

\* loadSettings() fills the form; after a save the password field is emptied, no
\* other is filled again, and the status is asked for; an error only shows a
\* message.
PageReceives(s) ==
  /\ reqs[s].pc = "replied" /\ reqs[s].of.page
  /\ LET kind == reqs[s].of.kind
         ok == reqs[s].answer = "ok"
     IN /\ reqs' = [reqs EXCEPT ![s] =
             IF ok /\ kind = "save"
             THEN [NoReq EXCEPT !.pc = "posted", !.of.kind = "status", !.of.page = TRUE]
             ELSE NoReq]
        /\ form' =
             CASE ok /\ kind = "load" -> Loaded(reqs[s].shown)
               [] ok /\ kind = "save" ->
                    [form EXCEPT !.fields["password"] = "", !.edited = @ \ {"password"}]
               [] OTHER -> form
  /\ calls' = [calls EXCEPT ![s] = NoCall]
  /\ UNCHANGED settingsVars

\* The process dies and is started again; the page stays open.
Restart ==
  /\ env' \in Envs
  /\ calls' = [s \in Slots |-> NoCall]
  /\ reqs' = [s \in Slots |-> NoReq]
  /\ UNCHANGED <<file, ours, form>>

OperatorEdits == \E config \in Files : HandEdit(config) /\ UNCHANGED <<calls, reqs, form>>

-----------------------------------------------------------------------------

ServerStep(s) == TurnedAway(s) \/ SettingsShown(s) \/ Save(s) \/ CallMade(s) \/ CallSettled(s)

ClientStep(s) ==
  \/ OtherPosts(s) \/ OtherReceives(s) \/ ReplyLost(s)
  \/ PageLoads(s) \/ FormSubmitted(s) \/ PageReceives(s)

Next ==
  \/ \E s \in Slots : ServerStep(s) \/ ClientStep(s)
  \/ \E s \in Slots : RpcStep(s) /\ UNCHANGED <<reqs, form>>
  \/ \E k \in FormKeys : \E value \in Typed[k] : Type(k, value)
  \/ OtherSaves \/ OperatorEdits
  \/ Restart

Spec == Init /\ [][Next]_vars

\* The process runs every handler whose turn it is, and every exchange with
\* bitcoind ends: rpcCall() sets a timeout on silence, and that no node goes on
\* for ever without falling silent is assumed.  A slot never has both to do.
Fairness ==
  \A s \in Slots :
    WF_vars(ServerStep(s) \/ (CallEnds(s) /\ UNCHANGED <<settingsVars, reqs, form>>))

FairSpec == Spec /\ Fairness

-----------------------------------------------------------------------------

\* What saveSettings() wrote passes validate(), whatever part of it came from a
\* request, from a config.json edited by hand or from the defaults
\* (settings.js:13-14, "a malformed write can't persist").
SavedIsValid == ours => \A k \in Keys : file[k] \in Acceptable[k]

\* A call is only ever under way to a host and a port that validate() would
\* accept, whichever of the file, the environment and the operator they come
\* from (rpc.js:55-57), and it carries the cookie only in a process whose
\* environment names a cookie file (settings.js:9-12).
CallsWhereAllowed ==
  \A s \in Slots : InFlight(s) =>
    /\ Trimmed[calls[s].host] \in Acceptable["host"]
    /\ calls[s].port \in Acceptable["port"]
    /\ calls[s].auth = "cookie" => env["cookiePath"] # Absent

\* A block is reported as accepted only if the node accepted it (index.js:336-337).
AcceptedWasAccepted ==
  \A s \in Slots : reqs[s].answer = "accepted" => calls[s].done = "accepted"

\* A save by the form of a page changes what is in force in a field the user
\* did not edit only if that has changed since the form was loaded, if it was,
\* and never the password the page has not seen (app.js:316, 341) nor the
\* protocol it has no field for, whatever is overridden by the environment, edited by hand or
\* saved by others meanwhile.
FormKeepsRest ==
  [][\A s \in Slots :
       /\ file' # file /\ ours'
       /\ reqs[s].pc = "posted" /\ reqs'[s].pc = "replied" /\ reqs[s].of.page
       => \A k \in Keys \ reqs[s].of.edited :
            k \in {"protocol", "password"} \/ reqs[s].of.base[k] = Effective[k]
              => Trimmed[Effective'[k]] = Trimmed[Effective[k]]]_vars

\* A request is answered, or its connection ends, unless its call can never
\* settle (rpc.js:116, 131).
EveryRequestEnds ==
  \A s \in Slots :
    reqs[s].pc \in {"posted", "calling"} ~>
      reqs[s].pc \notin {"posted", "calling"} \/ calls[s].pc = "stuck"

\* rpcCall() is what its callers take it for (rpc.js:73-151).
Service == INSTANCE RpcService WITH
  Calls <- Slots,
  outcome <- [s \in Slots |->
     CASE calls[s].pc = "idle" -> "none"
       [] calls[s].pc = "answered" -> calls[s].done
       [] calls[s].pc \in {"refused", "failed"} -> calls[s].pc
       [] OTHER -> "pending"],
  done <- [s \in Slots |-> calls[s].done]

ImplementsRpcService == Service!Spec

-----------------------------------------------------------------------------
(* The inductive invariant behind them *)

\* A slot's call is under way exactly while its handler waits for it, and only
\* a handler that is done has an answer.
SlotsMatch ==
  \A s \in Slots :
    /\ reqs[s].pc \in {"idle", "posted"} => calls[s] = NoCall
    /\ reqs[s].pc = "calling" =>
         calls[s].pc # "idle" /\ reqs[s].of.kind \in {"status", "submit"}
    /\ reqs[s].pc = "replied" => calls[s].pc \notin {"sent", "head", "stuck"}
    /\ reqs[s].pc # "replied" => reqs[s].answer = "none"
    /\ reqs[s].answer = "ok" /\ reqs[s].of.kind = "load" => \A k \in Keys : reqs[s].shown[k] # Absent

\* A field the user did not edit holds what was loaded into it, if anything was.
Untouched(base, edited) ==
  {k \in FormKeys \ edited : k = "password" \/ base[k] # Absent}

FormMatches ==
  /\ \A k \in Untouched(form.base, form.edited) : form.fields[k] = Shown(k, form.base)
  /\ \A s \in Slots :
       reqs[s].pc = "posted" /\ reqs[s].of.kind = "save" =>
         /\ \A k \in AllKeys \ FormKeys : reqs[s].of.body[k] = Absent
         /\ \A k \in Untouched(reqs[s].of.base, reqs[s].of.edited) :
              reqs[s].of.body[k] = SentAs(k, Shown(k, reqs[s].of.base))

IInv ==
  /\ TypeOK
  /\ SlotsMatch
  /\ FormMatches
  /\ SavedIsValid
  /\ CallsWhereAllowed
  /\ AcceptedWasAccepted
=============================================================================
