-------------------------- MODULE ConnectionProofs ---------------------------
(***************************************************************************)
(* Proofs about Connection.tla, for any settings, environments and files   *)
(* an operator writes, any number of requests and calls, and any verdicts. *)
(* IInv is inductive; the safety properties of the module follow from it,  *)
(* and so does the refinement of RpcService.                               *)
(***************************************************************************)
EXTENDS Connection, TLAPS

-----------------------------------------------------------------------------
(* Settings *)

\* A configuration is a function that is typed for each key.
LEMMA ConfigByKey ==
  ASSUME NEW f, f = [k \in AllKeys |-> f[k]],
         \A k \in AllKeys : f[k] \in Domain[k] \cup {Absent}
  PROVE  f \in Config
<1> DEFINE Values == (UNION {Domain[k] : k \in AllKeys}) \cup {Absent}
<1>1. \A k \in AllKeys : f[k] \in Values
  OBVIOUS
<1> HIDE DEF Values
<1>2. f \in [AllKeys -> Values]
  BY <1>1
<1> QED BY <1>2 DEF Config, Values

\* A key of a configuration has a value of its own domain, or none.
LEMMA ValueOfConfig ==
  ASSUME NEW c \in Config, NEW k \in AllKeys
  PROVE  c[k] \in Domain[k] \cup {Absent}
BY DEF Config

\* The empty configuration, and what a file reads as, are configurations.
LEMMA NothingIsConfig == Nothing \in Config
BY DEF Nothing, Config

\* A file that cannot be read counts as an empty one.
LEMMA InFileIsConfig == file \in Config \cup {Torn} => InFile \in Config
BY NothingIsConfig DEF InFile

\* What is in force for a key is there and a value of that key.
LEMMA EffectiveTyped ==
  ASSUME SettingsTypeOK
  PROVE  /\ Effective \in Config
         /\ Effective["cookiePath"] = env["cookiePath"]
         /\ \A k \in Keys : /\ Effective[k] \in Domain[k]
                            /\ Effective[k] = Or(env[k], Or(InFile[k], Default[k]))
<1> USE SettingsConstantsOK
<1>1. env \in Config /\ InFile \in Config
  BY InFileIsConfig DEF SettingsTypeOK
<1>2. ASSUME NEW k \in Keys
      PROVE  Or(env[k], Or(InFile[k], Default[k])) \in Domain[k]
  <2>1. k \in AllKeys /\ Default[k] \in Domain[k]
    BY DEF AllKeys
  <2>2. env[k] \in Domain[k] \cup {Absent} /\ InFile[k] \in Domain[k] \cup {Absent}
    BY <1>1, <2>1, ValueOfConfig
  <2> QED BY <2>1, <2>2 DEF Or
<1>3. env["cookiePath"] \in Domain["cookiePath"] \cup {Absent}
  BY <1>1, ValueOfConfig DEF AllKeys
<1>4. \A k \in AllKeys : Effective[k] \in Domain[k] \cup {Absent}
  BY <1>2, <1>3 DEF Effective, AllKeys
<1>5. Effective \in Config
  <2>1. Effective = [k \in AllKeys |-> Effective[k]]
    BY DEF Effective
  <2> QED BY <1>4, <2>1, ConfigByKey
<1>6. \A k \in Keys : k \in AllKeys /\ k # "cookiePath"
  BY DEF AllKeys
<1>7. "cookiePath" \in AllKeys
  BY DEF AllKeys
<1> QED BY <1>2, <1>5, <1>6, <1>7 DEF Effective

\* What saveSettings() is about to write has a value of its own for every key.
LEMMA MergedTyped ==
  ASSUME SettingsTypeOK, NEW body \in Config
  PROVE  /\ Merged(body) \in Config
         /\ \A k \in Keys :
              /\ Merged(body)[k] \in Domain[k]
              /\ Merged(body)[k] = Trimmed[Or(body[k], Or(InFile[k], Default[k]))]
<1> USE SettingsConstantsOK
<1>1. InFile \in Config
  BY InFileIsConfig DEF SettingsTypeOK
<1>2. ASSUME NEW k \in Keys
      PROVE  Trimmed[Or(body[k], Or(InFile[k], Default[k]))] \in Domain[k]
  <2>1. k \in AllKeys /\ Default[k] \in Domain[k]
    BY DEF AllKeys
  <2>2. body[k] \in Domain[k] \cup {Absent} /\ InFile[k] \in Domain[k] \cup {Absent}
    BY <1>1, <2>1, ValueOfConfig
  <2>3. Or(body[k], Or(InFile[k], Default[k])) \in Domain[k]
    BY <2>1, <2>2 DEF Or
  <2> QED BY <2>3
<1>3. \A k \in AllKeys : Merged(body)[k] \in Domain[k] \cup {Absent}
  BY <1>2 DEF Merged, AllKeys
<1>4. Merged(body) \in Config
  <2>1. Merged(body) = [k \in AllKeys |-> Merged(body)[k]]
    BY DEF Merged
  <2> QED BY <1>3, <2>1, ConfigByKey
<1>5. \A k \in Keys : k \in AllKeys /\ k # "cookiePath"
  BY DEF AllKeys
<1> QED BY <1>2, <1>4, <1>5 DEF Merged

\* A save, whole or torn, keeps the types, and what it wrote is valid.
LEMMA SaveTyped ==
  ASSUME SettingsTypeOK, NEW body \in Config, Written(body) \/ WriteTorn(body)
  PROVE  SettingsTypeOK' /\ SavedIsValid' /\ env' = env
<1>1. CASE Written(body)
  BY <1>1, MergedTyped DEF Written, Validates, SettingsTypeOK, SavedIsValid
<1>2. CASE WriteTorn(body)
  BY <1>2 DEF WriteTorn, SettingsTypeOK, SavedIsValid
<1> QED BY <1>1, <1>2

-----------------------------------------------------------------------------
(* Slots *)

\* What IInv says of one slot: its request r, its call c, and the environment e.
SlotOK(r, c, e) ==
  /\ r \in ReqType /\ c \in CallType
  /\ r.pc \in {"idle", "posted"} => c = NoCall
  /\ r.pc = "calling" => c.pc # "idle" /\ r.of.kind \in {"status", "submit"}
  /\ r.pc = "replied" => c.pc \notin {"sent", "head", "stuck"}
  /\ r.pc # "replied" => r.answer = "none"
  /\ r.answer = "ok" /\ r.of.kind = "load" => \A k \in Keys : r.shown[k] # Absent
  /\ r.pc = "posted" /\ r.of.kind = "save" =>
       /\ \A k \in AllKeys \ FormKeys : r.of.body[k] = Absent
       /\ \A k \in Untouched(r.of.base, r.of.edited) :
            r.of.body[k] = SentAs(k, Shown(k, r.of.base))
  /\ c.pc \in {"sent", "head"} =>
       /\ Trimmed[c.host] \in Acceptable["host"]
       /\ c.port \in Acceptable["port"]
       /\ c.auth = "cookie" => e["cookiePath"] # Absent
  /\ r.answer = "accepted" => c.done = "accepted"

FormOK(f) ==
  /\ f \in FormType
  /\ \A k \in Untouched(f.base, f.edited) : f.fields[k] = Shown(k, f.base)

Slotwise ==
  /\ SettingsTypeOK
  /\ SavedIsValid
  /\ FormOK(form)
  /\ reqs = [s \in Slots |-> reqs[s]] /\ calls = [s \in Slots |-> calls[s]]
  /\ \A s \in Slots : SlotOK(reqs[s], calls[s], env)

\* IInv speaks of one slot at a time; an action disturbs one of them.
LEMMA IInvBySlot == IInv <=> Slotwise
<1>1. TypeOK <=> /\ SettingsTypeOK
                 /\ form \in FormType
                 /\ reqs = [s \in Slots |-> reqs[s]] /\ calls = [s \in Slots |-> calls[s]]
                 /\ \A s \in Slots : reqs[s] \in ReqType /\ calls[s] \in CallType
  BY DEF TypeOK, RpcTypeOK
<1> QED
  BY <1>1, Zenon
     DEF IInv, Slotwise, SlotOK, FormOK, SlotsMatch, FormMatches, CallsWhereAllowed, InFlight,
         AcceptedWasAccepted

\* A step that touches one slot.
LEMMA OneSlot ==
  ASSUME IInv, NEW s \in Slots, NEW r, NEW c,
         reqs' = [reqs EXCEPT ![s] = r], calls' = [calls EXCEPT ![s] = c],
         SlotOK(r, c, env), env' = env,
         SettingsTypeOK', SavedIsValid', FormOK(form')
  PROVE  IInv'
<1>1. /\ reqs = [t \in Slots |-> reqs[t]] /\ calls = [t \in Slots |-> calls[t]]
      /\ \A t \in Slots : SlotOK(reqs[t], calls[t], env)
  BY IInvBySlot DEF Slotwise
<1>2. reqs' = [t \in Slots |-> IF t = s THEN r ELSE reqs[t]]
  BY <1>1, Zenon
<1>3. calls' = [t \in Slots |-> IF t = s THEN c ELSE calls[t]]
  BY <1>1, Zenon
<1>4. \A t \in Slots : SlotOK(reqs'[t], calls'[t], env')
  BY <1>1, <1>2, <1>3
<1>5. reqs' = [t \in Slots |-> reqs'[t]] /\ calls' = [t \in Slots |-> calls'[t]]
  BY <1>2, <1>3
<1>6. Slotwise'
  BY <1>4, <1>5 DEF Slotwise
<1> QED BY <1>6, IInvBySlot, PTL

\* An idle slot satisfies everything.
LEMMA NoneTyped ==
  /\ NoSending \in Sending /\ NoReq \in ReqType /\ NoCall \in CallType
  /\ \A e : SlotOK(NoReq, NoCall, e)
<1>1. NoSending \in Sending
  BY NothingIsConfig DEF NoSending, Sending, Kinds
<1>2. NoReq \in ReqType
  BY <1>1, NothingIsConfig DEF NoReq, ReqType, Answers
<1>3. NoCall \in CallType
  BY DEF NoCall, CallType
<1> QED BY <1>2, <1>3, <1>1 DEF SlotOK, NoReq, NoCall

\* A handler replies, after its call if it made one.
LEMMA ReplyKeeps ==
  ASSUME IInv, NEW s \in Slots, NEW answer \in Answers, NEW shown \in Config,
         Replied(s, answer, shown), calls' = calls, env' = env, form' = form,
         SettingsTypeOK', SavedIsValid',
         calls[s].pc \notin {"sent", "head", "stuck"},
         answer = "ok" /\ reqs[s].of.kind = "load" => \A k \in Keys : shown[k] # Absent,
         answer = "accepted" => calls[s].done = "accepted"
  PROVE  IInv'
<1> DEFINE r == [pc |-> "replied", answer |-> answer, shown |-> shown,
                 of |-> [NoSending EXCEPT !.kind = reqs[s].of.kind,
                                          !.page = reqs[s].of.page]]
<1>1. /\ reqs[s] \in ReqType /\ SlotOK(reqs[s], calls[s], env) /\ FormOK(form)
      /\ calls = [t \in Slots |-> calls[t]]
  BY IInvBySlot DEF Slotwise, SlotOK
<1>2. r.of \in Sending /\ r.of.kind = reqs[s].of.kind
  <2>1. reqs[s].of.kind \in Kinds /\ reqs[s].of.page \in BOOLEAN
    BY <1>1 DEF ReqType, Sending
  <2> QED BY <2>1, NoneTyped DEF NoSending, Sending
<1>3. r \in ReqType
  BY <1>2 DEF ReqType
<1>4. SlotOK(r, calls[s], env)
  BY <1>1, <1>2, <1>3 DEF SlotOK
<1>5. reqs' = [reqs EXCEPT ![s] = r]
  BY DEF Replied
<1>6. calls' = [calls EXCEPT ![s] = calls[s]]
  BY <1>1
<1> HIDE DEF r
<1> QED BY <1>1, <1>4, <1>5, <1>6, OneSlot

\* A request that is posted into an idle slot keeps IInv, if a save brings what
\* the form or its history allows.
LEMMA PostKeeps ==
  ASSUME IInv, NEW s \in Slots, NEW sending \in Sending, Posted(s, sending),
         UNCHANGED <<settingsVars, calls>>, FormOK(form'),
         sending.kind = "save" =>
           /\ \A k \in AllKeys \ FormKeys : sending.body[k] = Absent
           /\ \A k \in Untouched(sending.base, sending.edited) :
                sending.body[k] = SentAs(k, Shown(k, sending.base))
  PROVE  IInv'
<1> DEFINE r == [NoReq EXCEPT !.pc = "posted", !.of = sending]
<1>1. /\ SlotOK(reqs[s], calls[s], env) /\ calls = [t \in Slots |-> calls[t]]
      /\ SettingsTypeOK' /\ SavedIsValid' /\ env' = env
  BY IInvBySlot DEF Slotwise, settingsVars, SettingsTypeOK, SavedIsValid
<1>2. calls[s] = NoCall
  BY <1>1 DEF SlotOK, Posted
<1>3. r \in ReqType /\ r.of = sending /\ r.pc = "posted" /\ r.answer = "none"
  BY NoneTyped DEF ReqType, NoReq
<1>4. SlotOK(r, NoCall, env)
  BY <1>3, NoneTyped DEF SlotOK, NoCall
<1>5. reqs' = [reqs EXCEPT ![s] = r] /\ calls' = [calls EXCEPT ![s] = NoCall]
  BY <1>1, <1>2 DEF Posted
<1> HIDE DEF r
<1> QED BY <1>1, <1>4, <1>5, OneSlot

\* The parts of the settings that a step on other variables leaves alone.
LEMMA SettingsKept ==
  ASSUME IInv, UNCHANGED settingsVars
  PROVE  SettingsTypeOK' /\ SavedIsValid' /\ env' = env
BY DEF IInv, TypeOK, settingsVars, SettingsTypeOK, SavedIsValid

-----------------------------------------------------------------------------
(* The inductive invariant *)

\* The text of every field is a value of its key.
LEMMA FieldsByKey ==
  ASSUME NEW f, f = [k \in FormKeys |-> f[k]], \A k \in FormKeys : f[k] \in Domain[k]
  PROVE  f \in Fields
<1> DEFINE Values == UNION {Domain[k] : k \in FormKeys}
<1>1. \A k \in FormKeys : f[k] \in Values
  OBVIOUS
<1> HIDE DEF Values
<1>2. f \in [FormKeys -> Values]
  BY <1>1
<1> QED BY <1>2 DEF Fields, Values

\* The form before loadSettings(), which matches whatever is loaded later.
LEMMA BlankFormOK == FormOK(BlankForm)
<1>1. /\ BlankForm.fields = [k \in FormKeys |-> ""]
      /\ BlankForm.base = Nothing /\ BlankForm.edited = {}
  BY DEF BlankForm
<1>2. BlankForm.fields \in Fields
  BY <1>1, FieldsByKey, ConnectionConstantsOK
<1>3. BlankForm \in FormType
  BY <1>2, NothingIsConfig DEF BlankForm, FormType
<1>4. \A k \in FormKeys : Nothing[k] = Absent
  BY DEF Nothing, FormKeys, AllKeys
<1> QED BY <1>1, <1>3, <1>4 DEF FormOK, Untouched, Shown

\* The invariant holds at first.
LEMMA InitIInv == Init => IInv
<1> SUFFICES ASSUME Init PROVE IInv
  OBVIOUS
<1>1. SettingsTypeOK /\ SavedIsValid
  BY NothingIsConfig DEF Init, SettingsInit, SettingsTypeOK, SavedIsValid
<1>2. FormOK(form)
  BY BlankFormOK DEF Init
<1>3. \A s \in Slots : SlotOK(reqs[s], calls[s], env)
  BY NoneTyped DEF Init, RpcInit
<1> QED BY <1>1, <1>2, <1>3, IInvBySlot DEF Slotwise, Init, RpcInit

\* The handlers.
LEMMA ServerStepIInv ==
  ASSUME IInv, NEW s \in Slots, ServerStep(s)
  PROVE  IInv'
<1>1. /\ SlotOK(reqs[s], calls[s], env) /\ reqs[s] \in ReqType /\ calls[s] \in CallType
      /\ FormOK(form) /\ SettingsTypeOK
      /\ reqs = [t \in Slots |-> reqs[t]] /\ calls = [t \in Slots |-> calls[t]]
  BY IInvBySlot DEF Slotwise, SlotOK
<1>2. reqs[s].pc = "posted" => calls[s].pc = "idle"
  BY <1>1 DEF SlotOK, NoCall
<1>3. "failed" \in Answers /\ "ok" \in Answers
  BY DEF Answers
<1>4. CASE TurnedAway(s)
  BY <1>2, <1>3, <1>4, SettingsKept, ReplyKeeps, NothingIsConfig DEF TurnedAway
<1>5. CASE SettingsShown(s)
  <2>1. Effective \in Config /\ \A k \in Keys : Effective[k] # Absent
    BY <1>1, EffectiveTyped, SettingsConstantsOK DEF AllKeys
  <2> QED BY <1>2, <1>3, <1>5, <2>1, SettingsKept, ReplyKeeps DEF SettingsShown
<1>6. CASE Save(s)
  <2>1. reqs[s].of.body \in Config /\ reqs[s].of.kind = "save"
    BY <1>1, <1>6 DEF Save, ReqType, Sending
  <2>2. CASE Written(reqs[s].of.body) /\ Replied(s, "ok", Effective')
    <3>1. SettingsTypeOK' /\ SavedIsValid' /\ env' = env
      BY <1>1, <2>1, <2>2, SaveTyped
    <3>2. (SettingsTypeOK => Effective \in Config)'
      BY EffectiveTyped, PTL
    <3> QED BY <1>2, <1>3, <1>6, <2>1, <2>2, <3>1, <3>2, ReplyKeeps DEF Save
  <2>3. CASE WriteTorn(reqs[s].of.body) /\ Replied(s, "failed", Nothing)
    BY <1>1, <1>2, <1>3, <1>6, <2>1, <2>3, SaveTyped, ReplyKeeps, NothingIsConfig DEF Save
  <2>4. CASE UNCHANGED settingsVars /\ Replied(s, "failed", Nothing)
    BY <1>2, <1>3, <1>6, <2>4, SettingsKept, ReplyKeeps, NothingIsConfig DEF Save
  <2> QED BY <1>6, <2>2, <2>3, <2>4 DEF Save
<1>7. CASE CallMade(s)
  <2> DEFINE r == [reqs[s] EXCEPT !.pc = "calling"]
  <2>1. /\ r \in ReqType /\ r.pc = "calling" /\ r.answer = "none"
        /\ r.of.kind \in {"status", "submit"}
    BY <1>1, <1>7 DEF CallMade, ReqType, SlotOK
  <2>2. reqs' = [reqs EXCEPT ![s] = r] /\ UNCHANGED <<settingsVars, form>>
    BY <1>7 DEF CallMade
  <2>3. /\ Effective["host"] \in Domain["host"] /\ Effective["port"] \in Domain["port"]
        /\ Effective["cookiePath"] = env["cookiePath"]
    BY <1>1, EffectiveTyped, SettingsConstantsOK
  <2>4. PICK c \in CallType : /\ calls' = [calls EXCEPT ![s] = c]
                              /\ c.pc \in {"sent", "refused"}
                              /\ c.pc = "sent" => /\ Allowed(Effective)
                                                  /\ c.host = Effective["host"]
                                                  /\ c.port = Effective["port"]
                                                  /\ c.auth = "cookie" => UsesCookie(Effective)
    <3>1. CASE CallRefused(s)
      <4> DEFINE c == [NoCall EXCEPT !.pc = "refused"]
      <4>1. c \in CallType /\ c.pc = "refused"
        BY NoneTyped DEF CallType, NoCall
      <4> QED BY <3>1, <4>1 DEF CallRefused
    <3>2. CASE CallSent(s)
      <4> DEFINE c == [pc   |-> "sent", host |-> Effective["host"], port |-> Effective["port"],
                       auth |-> IF UsesCookie(Effective) THEN "cookie" ELSE "password",
                       done |-> "no"]
      <4>1. c \in CallType
        BY <2>3 DEF CallType
      <4> QED BY <3>2, <4>1 DEF CallSent
    <3> QED BY <1>7, <3>1, <3>2 DEF CallMade, Called
  <2>5. SlotOK(r, c, env)
    BY <2>1, <2>3, <2>4 DEF SlotOK, Allowed, UsesCookie
  <2> HIDE DEF r
  <2> QED BY <1>1, <2>2, <2>4, <2>5, SettingsKept, OneSlot
<1>8. CASE CallSettled(s)
  <2>1. /\ calls[s].pc \notin {"sent", "head", "stuck"}
        /\ UNCHANGED <<settingsVars, calls, form>>
    BY <1>8 DEF CallSettled
  <2>2. /\ Reported(calls[s]) \in {"accepted", "rejected"}
        /\ Reported(calls[s]) = "accepted" => calls[s].done = "accepted"
    BY DEF Reported
  <2>3. CASE reqs[s].of.kind = "submit"
    <3>1. Replied(s, Reported(calls[s]), Nothing)
      BY <1>8, <2>3 DEF CallSettled
    <3>2. Reported(calls[s]) \in Answers /\ Reported(calls[s]) # "ok"
      BY <2>2 DEF Answers
    <3> QED BY <2>1, <2>2, <3>1, <3>2, SettingsKept, ReplyKeeps, NothingIsConfig
  <2>4. CASE reqs[s].of.kind # "submit"
    <3>1. reqs[s].pc = "calling" /\ reqs[s].of.kind # "load"
      BY <1>1, <1>8 DEF CallSettled, SlotOK
    <3>2. PICK answer \in {"ok", "failed"} : Replied(s, answer, Nothing)
      BY <1>8, <2>4 DEF CallSettled
    <3> QED BY <1>3, <2>1, <3>1, <3>2, SettingsKept, ReplyKeeps, NothingIsConfig
  <2> QED BY <2>3, <2>4
<1> QED BY <1>4, <1>5, <1>6, <1>7, <1>8 DEF ServerStep

\* The form after each of the steps that change it.
LEMMA LoadedOK ==
  ASSUME NEW settings \in Config, \A k \in Keys : settings[k] # Absent
  PROVE  FormOK(Loaded(settings))
<1> DEFINE f == [k \in FormKeys |-> Shown(k, settings)]
<1>1. ASSUME NEW k \in FormKeys
      PROVE  Shown(k, settings) \in Domain[k]
  <2>1. k \in AllKeys /\ k \in Keys /\ "" \in Domain[k]
    BY ConnectionConstantsOK DEF FormKeys, AllKeys
  <2>2. settings[k] \in Domain[k]
    BY <2>1, ValueOfConfig
  <2> QED BY <2>1, <2>2 DEF Shown
<1>2. f \in Fields
  BY <1>1, FieldsByKey
<1>3. /\ Loaded(settings).base = settings /\ Loaded(settings).fields = f
      /\ Loaded(settings).edited = {}
      /\ Loaded(settings) \in FormType
  BY <1>2 DEF Loaded, FormType
<1> QED BY <1>3 DEF FormOK, Untouched

\* A form keeps its invariant when one of its fields changes and is marked as
\* edited, and when the password is emptied and unmarked.
LEMMA TypedOK ==
  ASSUME FormOK(form), NEW k \in FormKeys, NEW value \in Domain[k], NEW edited \in SUBSET FormKeys,
         edited = form.edited \cup {k} \/ (k = "password" /\ value = "" /\ edited = form.edited \ {k}),
         NEW f, f = [form EXCEPT !.fields[k] = value, !.edited = edited]
  PROVE  FormOK(f)
<1>1. /\ form.fields \in Fields /\ form.base \in Config /\ form.edited \subseteq FormKeys
      /\ f = [base |-> form.base, fields |-> [form.fields EXCEPT ![k] = value], edited |-> edited]
  BY DEF FormOK, FormType
<1>2. /\ form.fields = [j \in FormKeys |-> form.fields[j]]
      /\ \A j \in FormKeys : form.fields[j] \in Domain[j]
  BY <1>1 DEF Fields
<1>3. f.fields = [j \in FormKeys |-> IF j = k THEN value ELSE form.fields[j]]
  BY <1>1, <1>2
<1>4. f.fields \in Fields
  BY <1>2, <1>3, FieldsByKey
<1>5. f \in FormType
  BY <1>1, <1>4 DEF FormType
<1>6. ASSUME NEW j \in Untouched(f.base, f.edited)
      PROVE  f.fields[j] = Shown(j, f.base)
  <2>1. j \in FormKeys /\ f.base = form.base /\ j \notin edited
    BY <1>1 DEF Untouched
  <2>2. CASE j = k
    BY <1>3, <2>1, <2>2 DEF Shown
  <2>3. CASE j # k
    <3>1. j \in Untouched(form.base, form.edited)
      BY <1>6, <1>1, <2>1, <2>3 DEF Untouched
    <3> QED BY <1>3, <2>1, <2>3, <3>1 DEF FormOK
  <2> QED BY <2>2, <2>3
<1> QED BY <1>5, <1>6 DEF FormOK

\* The body of the form's save, field by field.
LEMMA FormBodyTyped ==
  ASSUME FormOK(form)
  PROVE  /\ FormBody \in Config
         /\ \A k \in AllKeys \ FormKeys : FormBody[k] = Absent
         /\ \A k \in FormKeys : FormBody[k] = SentAs(k, form.fields[k])
<1>1. ASSUME NEW k \in FormKeys
      PROVE  k \in AllKeys /\ SentAs(k, form.fields[k]) \in Domain[k] \cup {Absent}
  <2>1. k \in Keys /\ form.fields[k] \in Domain[k]
    BY DEF FormOK, FormType, Fields, FormKeys
  <2> QED BY <2>1, SettingsConstantsOK DEF SentAs, AllKeys
<1>2. \A k \in AllKeys : FormBody[k] \in Domain[k] \cup {Absent}
  BY <1>1 DEF FormBody
<1>3. FormBody = [k \in AllKeys |-> FormBody[k]]
  BY DEF FormBody
<1> QED BY <1>1, <1>2, <1>3, ConfigByKey DEF FormBody

\* The clients.
LEMMA ClientStepIInv ==
  ASSUME IInv, NEW s \in Slots, ClientStep(s)
  PROVE  IInv'
<1>1. /\ SlotOK(reqs[s], calls[s], env) /\ reqs[s] \in ReqType /\ calls[s] \in CallType
      /\ FormOK(form)
      /\ reqs = [t \in Slots |-> reqs[t]] /\ calls = [t \in Slots |-> calls[t]]
  BY IInvBySlot DEF Slotwise, SlotOK
<1>2. CASE OtherPosts(s)
  <2>1. [NoSending EXCEPT !.kind = "submit"] \in Sending
    BY NoneTyped DEF NoSending, Sending, Kinds
  <2> QED BY <1>1, <1>2, <2>1, PostKeeps DEF OtherPosts, NoSending
<1>3. CASE OtherReceives(s)
  BY <1>1, <1>3, NoneTyped, SettingsKept, OneSlot DEF OtherReceives
<1>4. CASE ReplyLost(s)
  <2>1. "failed" \in Answers
    BY DEF Answers
  <2>2. calls[s].pc \notin {"sent", "head", "stuck"}
    BY <1>1, <1>4 DEF ReplyLost, SlotOK
  <2> QED BY <1>4, <2>1, <2>2, SettingsKept, ReplyKeeps, NothingIsConfig DEF ReplyLost
<1>5. CASE PageLoads(s)
  <2>1. [NoSending EXCEPT !.page = TRUE] \in Sending
    BY NoneTyped DEF NoSending, Sending
  <2> QED BY <1>5, <2>1, PostKeeps, BlankFormOK DEF PageLoads, NoSending
<1>6. CASE FormSubmitted(s)
  <2> DEFINE sending == [kind |-> "save", page |-> TRUE, body |-> FormBody,
                         base |-> form.base, edited |-> form.edited]
  <2>1. sending \in Sending
    BY <1>1, FormBodyTyped DEF Sending, Kinds, FormOK, FormType
  <2>2. ASSUME NEW k \in Untouched(form.base, form.edited)
        PROVE  FormBody[k] = SentAs(k, Shown(k, form.base))
    BY <1>1, <2>2, FormBodyTyped DEF FormOK, Untouched
  <2> QED BY <1>1, <1>6, <2>1, <2>2, FormBodyTyped, PostKeeps DEF FormSubmitted
<1>7. CASE PageReceives(s)
  <2> DEFINE posted == [NoReq EXCEPT !.pc = "posted", !.of.kind = "status", !.of.page = TRUE]
  <2>1. /\ reqs[s].pc = "replied" /\ calls' = [calls EXCEPT ![s] = NoCall]
        /\ UNCHANGED settingsVars
    BY <1>7 DEF PageReceives
  <2>2. FormOK(form')
    <3>1. CASE reqs[s].answer = "ok" /\ reqs[s].of.kind = "load"
      <4>1. form' = Loaded(reqs[s].shown)
        BY <1>7, <3>1 DEF PageReceives
      <4>2. reqs[s].shown \in Config /\ \A k \in Keys : reqs[s].shown[k] # Absent
        BY <1>1, <3>1 DEF SlotOK, ReqType
      <4> QED BY <4>1, <4>2, LoadedOK
    <3>2. CASE reqs[s].answer = "ok" /\ reqs[s].of.kind = "save"
      <4>1. form' = [form EXCEPT !.fields["password"] = "", !.edited = @ \ {"password"}]
        BY <1>7, <3>2 DEF PageReceives
      <4>2. "password" \in FormKeys /\ "" \in Domain["password"]
        BY SettingsConstantsOK, ConnectionConstantsOK DEF FormKeys
      <4>3. form.edited \ {"password"} \in SUBSET FormKeys
        BY <1>1 DEF FormOK, FormType
      <4> QED BY <1>1, <4>1, <4>2, <4>3, TypedOK
    <3>3. CASE ~(reqs[s].answer = "ok" /\ reqs[s].of.kind \in {"load", "save"})
      BY <1>1, <1>7, <3>3 DEF PageReceives
    <3> QED BY <3>1, <3>2, <3>3
  <2>3. posted \in ReqType /\ SlotOK(posted, NoCall, env)
    <3>1. /\ posted.pc = "posted" /\ posted.of.kind = "status" /\ posted.answer = "none"
          /\ posted \in ReqType
      BY NoneTyped DEF NoReq, ReqType, NoSending, Sending, Kinds
    <3> QED BY <3>1, NoneTyped DEF SlotOK, NoCall
  <2>4. PICK r : reqs' = [reqs EXCEPT ![s] = r] /\ r \in {posted, NoReq}
    BY <1>7 DEF PageReceives
  <2> HIDE DEF posted
  <2> QED BY <2>1, <2>2, <2>3, <2>4, NoneTyped, SettingsKept, OneSlot
<1> QED BY <1>2, <1>3, <1>4, <1>5, <1>6, <1>7 DEF ClientStep

\* A call c that is carried out by the node, gets the headers of its answer, or
\* is over, is then d.
CallBecomes(c, d) ==
  /\ c.pc \in {"sent", "head", "failed"}
  /\ \/ /\ d = [c EXCEPT !.done = d.done]
        /\ c.pc # "head" /\ c.done = "no" /\ d.done \in Verdicts
     \/ d = [c EXCEPT !.pc = "head"] /\ c.pc = "sent"
     \/ /\ d.pc \in {"failed", "stuck", "answered"} /\ d.done = c.done
        /\ d.pc = "answered" => d.done \in Verdicts
        /\ c.pc # "failed"

\* A step of a call changes the call of its slot, in one of the ways CallBecomes
\* lists.
LEMMA RpcStepIs ==
  ASSUME IInv, NEW s \in Slots, RpcStep(s)
  PROVE  \E c \in CallType :
           calls' = [calls EXCEPT ![s] = c] /\ CallBecomes(calls[s], c)
<1> USE DEF CallBecomes
<1>1. calls[s] \in CallType
  BY DEF IInv, TypeOK, RpcTypeOK
<1>2. ASSUME NEW verdict \in Verdicts, NodeCarriesOut(s, verdict)
      PROVE  \E c \in CallType :
               /\ calls' = [calls EXCEPT ![s] = c]
               /\ c = [calls[s] EXCEPT !.done = c.done]
               /\ calls[s].pc \in {"sent", "failed"} /\ calls[s].done = "no"
               /\ c.done \in Verdicts
  <2> DEFINE c == [calls[s] EXCEPT !.done = verdict]
  <2>1. c \in CallType /\ c.done = verdict
    BY <1>1 DEF CallType
  <2> QED BY <1>2, <2>1 DEF NodeCarriesOut
<1>3. CASE HeadersArrive(s)
  <2> DEFINE c == [calls[s] EXCEPT !.pc = "head"]
  <2>1. c \in CallType
    BY <1>1 DEF CallType
  <2> QED BY <1>3, <2>1 DEF HeadersArrive, Become
<1>4. ASSUME NEW pc \in {"failed", "stuck", "answered"}, Become(s, pc), InFlight(s),
             pc = "answered" => calls[s].done \in Verdicts
      PROVE  \E c \in CallType :
               /\ calls' = [calls EXCEPT ![s] = c]
               /\ c.pc \in {"failed", "stuck", "answered"} /\ c.done = calls[s].done
               /\ c.pc = "answered" => c.done \in Verdicts
  <2> DEFINE c == [NoCall EXCEPT !.pc = pc, !.done = calls[s].done]
  <2>1. c \in CallType /\ c.pc = pc /\ c.done = calls[s].done
    BY <1>1, NoneTyped DEF CallType, NoCall
  <2>2. calls' = [calls EXCEPT ![s] = c]
    BY <1>4 DEF Become
  <2> QED BY <1>4, <2>1, <2>2
<1>5. CASE CallEnds(s)
  <2>1. PICK pc \in {"failed", "stuck", "answered"} :
          Become(s, pc) /\ InFlight(s) /\ (pc = "answered" => calls[s].done \in Verdicts)
    BY <1>5 DEF CallEnds, Answered, Rejected, NullBody, Broken, PeerCloses, InFlight
  <2> QED BY <1>4, <2>1 DEF InFlight
<1> QED BY <1>2, <1>3, <1>5 DEF RpcStep

\* No step of a call breaks it.
LEMMA RpcStepIInv ==
  ASSUME IInv, NEW s \in Slots, RpcStep(s), UNCHANGED <<reqs, form>>
  PROVE  IInv'
<1>1. /\ SlotOK(reqs[s], calls[s], env) /\ FormOK(form)
      /\ reqs = [t \in Slots |-> reqs[t]]
  BY IInvBySlot DEF Slotwise
<1>2. PICK c \in CallType : calls' = [calls EXCEPT ![s] = c] /\ CallBecomes(calls[s], c)
  BY RpcStepIs
<1> USE DEF CallBecomes
<1>3. reqs[s].pc \in {"calling", "replied"} /\ calls[s] \in CallType
  BY <1>1, <1>2 DEF SlotOK, NoCall, ReqType
<1>4. SlotOK(reqs[s], c, env)
  <2>1. CASE c = [calls[s] EXCEPT !.done = c.done] /\ calls[s].done = "no"
    <3>1. /\ c.pc = calls[s].pc /\ c.host = calls[s].host /\ c.port = calls[s].port
          /\ c.auth = calls[s].auth
      BY <1>3, <2>1 DEF CallType
    <3>2. reqs[s].answer # "accepted"
      BY <1>1, <2>1 DEF SlotOK
    <3> QED BY <1>1, <1>2, <1>3, <3>1, <3>2 DEF SlotOK
  <2>2. CASE c = [calls[s] EXCEPT !.pc = "head"] /\ calls[s].pc = "sent"
    <3>1. /\ c.pc = "head" /\ c.host = calls[s].host /\ c.port = calls[s].port
          /\ c.auth = calls[s].auth /\ c.done = calls[s].done
      BY <1>3, <2>2 DEF CallType
    <3> QED BY <1>1, <1>2, <1>3, <2>2, <3>1 DEF SlotOK
  <2>3. CASE /\ c.pc \in {"failed", "stuck", "answered"} /\ c.done = calls[s].done
             /\ calls[s].pc # "failed"
    BY <1>1, <1>2, <1>3, <2>3 DEF SlotOK
  <2> QED BY <1>2, <2>1, <2>2, <2>3
<1>5. UNCHANGED settingsVars /\ reqs' = [reqs EXCEPT ![s] = reqs[s]]
  BY <1>1 DEF RpcStep
<1> QED BY <1>1, <1>2, <1>4, <1>5, SettingsKept, OneSlot

\* Every step keeps IInv.
LEMMA NextIInv == IInv /\ [Next]_vars => IInv'
<1> SUFFICES ASSUME IInv, [Next]_vars PROVE IInv'
  OBVIOUS
<1>1. Slotwise
  BY IInvBySlot
<1>2. ASSUME UNCHANGED <<calls, reqs>>, env' = env, SettingsTypeOK', SavedIsValid', FormOK(form')
      PROVE  IInv'
  <2>1. Slotwise'
    BY <1>1, <1>2 DEF Slotwise
  <2> QED BY <2>1, IInvBySlot, PTL
<1>3. ASSUME NEW k \in FormKeys, NEW value \in Typed[k], Type(k, value)
      PROVE  IInv'
  <2>1. value \in Domain[k] /\ form.edited \cup {k} \in SUBSET FormKeys
    BY <1>1, ConnectionConstantsOK DEF Slotwise, FormOK, FormType
  <2>2. FormOK(form')
    BY <1>1, <1>3, <2>1, TypedOK DEF Type, Slotwise
  <2> QED BY <1>2, <1>3, <2>2, SettingsKept DEF Type
<1>4. CASE OtherSaves
  <2>1. PICK body \in Bodies : Written(body) \/ WriteTorn(body)
    BY <1>4 DEF OtherSaves
  <2>2. SettingsTypeOK' /\ SavedIsValid' /\ env' = env
    BY <1>1, <2>1, SaveTyped, ConnectionConstantsOK DEF Slotwise
  <2> QED BY <1>1, <1>2, <1>4, <2>2 DEF OtherSaves, Slotwise
<1>5. CASE OperatorEdits
  <2>1. PICK config \in Files : HandEdit(config) /\ UNCHANGED <<calls, reqs, form>>
    BY <1>5 DEF OperatorEdits
  <2>2. SettingsTypeOK' /\ SavedIsValid' /\ env' = env
    BY <1>1, <2>1, SettingsConstantsOK DEF Slotwise, HandEdit, SettingsTypeOK, SavedIsValid
  <2> QED BY <1>1, <1>2, <2>1, <2>2 DEF Slotwise
<1>6. CASE Restart
  <2>1. SettingsTypeOK' /\ SavedIsValid' /\ FormOK(form')
    BY <1>1, <1>6 DEF Restart, Slotwise, SettingsTypeOK, SavedIsValid
  <2>2. \A s \in Slots : SlotOK(reqs'[s], calls'[s], env')
    BY <1>6, NoneTyped DEF Restart
  <2>3. Slotwise'
    BY <1>6, <2>1, <2>2 DEF Restart, Slotwise
  <2> QED BY <2>3, IInvBySlot, PTL
<1>7. CASE UNCHANGED vars
  BY <1>1, <1>2, <1>7, SettingsKept DEF vars, Slotwise
<1> QED BY <1>3, <1>4, <1>5, <1>6, <1>7, ServerStepIInv, ClientStepIInv, RpcStepIInv DEF Next

\* IInv is inductive.
THEOREM SpecIInv == Spec => []IInv
BY InitIInv, NextIInv, PTL DEF Spec

-----------------------------------------------------------------------------
(* What follows from it *)

\* Every variable keeps its type: in particular the settings in force have a
\* value of its own for every key, whatever the file and the environment hold.
THEOREM TypeCorrect == Spec => []TypeOK
BY SpecIInv, PTL DEF IInv

\* What saveSettings() wrote passes validate().
THEOREM SavedValid == Spec => []SavedIsValid
BY SpecIInv, PTL DEF IInv

\* A call is under way only where the settings may lead, and carries the cookie
\* only in a process that names a cookie file.
THEOREM CallsAllowed == Spec => []CallsWhereAllowed
BY SpecIInv, PTL DEF IInv

\* A block is reported as accepted only if the node accepted it.
THEOREM ReportsTruly == Spec => []AcceptedWasAccepted
BY SpecIInv, PTL DEF IInv

\* A whole save leaves the value in force of every key for which the body has
\* nothing, or what is in force already.
LEMMA SaveKeeps ==
  ASSUME SettingsTypeOK, SettingsTypeOK', NEW body \in Config, Written(body), NEW k \in Keys,
         body[k] \in {Absent, Trimmed[Effective[k]]}
  PROVE  Trimmed[Effective'[k]] = Trimmed[Effective[k]]
<1> USE SettingsConstantsOK
<1> DEFINE current == Or(InFile[k], Default[k])
<1>1. /\ Effective[k] = Or(env[k], current) /\ Effective[k] \in Domain[k]
      /\ k \in AllKeys
  BY EffectiveTyped DEF AllKeys
<1>2. current \in Domain[k] /\ current # Absent
  <2>1. InFile \in Config
    BY InFileIsConfig DEF SettingsTypeOK
  <2>2. InFile[k] \in Domain[k] \cup {Absent} /\ Default[k] \in Domain[k]
    BY <1>1, <2>1, ValueOfConfig
  <2> QED BY <1>1, <2>2 DEF Or
<1>3. /\ file' = Merged(body) /\ env' = env
      /\ Merged(body)[k] = Trimmed[Or(body[k], current)]
      /\ Merged(body)[k] \in Domain[k]
      /\ Merged(body) # Torn
  BY MergedTyped DEF Written
<1>4. Effective'[k] = Or(env[k], Merged(body)[k])
  <2>1. k # "cookiePath" /\ k \in AllKeys
    BY <1>1
  <2>2. Effective'[k] = Or(env[k], Or(InFile'[k], Default[k]))
    BY <1>3, <2>1 DEF Effective, Or
  <2>3. InFile' = Merged(body) /\ Merged(body)[k] # Absent
    BY <1>1, <1>3 DEF InFile
  <2> QED BY <2>2, <2>3 DEF Or
<1> HIDE DEF current
<1>5. CASE env[k] # Absent
  BY <1>1, <1>4, <1>5 DEF Or
<1>6. CASE env[k] = Absent
  <2>1. Effective[k] = current /\ Effective'[k] = Trimmed[Or(body[k], current)]
    BY <1>1, <1>3, <1>4, <1>6 DEF Or
  <2>2. Or(body[k], current) \in {current, Trimmed[current]}
    BY <2>1 DEF Or
  <2>3. Trimmed[Trimmed[current]] = Trimmed[current] /\ Trimmed[current] \in Domain[k]
    BY <1>2
  <2> QED BY <2>1, <2>2, <2>3
<1> QED BY <1>5, <1>6

\* The save of a page, unless it was refused.
LEMMA SaveOfThePage ==
  ASSUME IInv, [Next]_vars, file' # file, ours', NEW s \in Slots,
         reqs[s].pc = "posted", reqs'[s].pc = "replied"
  PROVE  reqs[s].of.kind = "save" /\ Written(reqs[s].of.body)
<1>1. reqs = [t \in Slots |-> reqs[t]]
  BY DEF IInv, TypeOK
<1>2. UNCHANGED settingsVars => file' = file
  BY DEF settingsVars
<1>3. ASSUME NEW t \in Slots, ServerStep(t)
      PROVE  t = s /\ Save(s)
  <2>1. Save(t)
    BY <1>2, <1>3 DEF ServerStep, TurnedAway, SettingsShown, CallMade, CallSettled
  <2>2. reqs'[s] = reqs[s] \/ t = s
    BY <1>1, <2>1 DEF Save, Replied
  <2> QED BY <2>1, <2>2
<1>4. ASSUME Save(s)
      PROVE  reqs[s].of.kind = "save" /\ Written(reqs[s].of.body)
  <2>1. ~ours' \/ Written(reqs[s].of.body) \/ UNCHANGED settingsVars
    BY <1>4 DEF Save, WriteTorn
  <2> QED BY <1>2, <1>4, <2>1 DEF Save
<1>5. ASSUME NEW t \in Slots, ClientStep(t)
      PROVE  FALSE
  BY <1>2, <1>5 DEF ClientStep, OtherPosts, OtherReceives, ReplyLost, PageLoads, FormSubmitted,
                    PageReceives
<1>6. ~OtherSaves /\ ~OperatorEdits /\ ~Restart /\ ~UNCHANGED vars
  BY <1>2 DEF OtherSaves, OperatorEdits, Restart, vars
<1>7. \A k \in FormKeys : \A value \in Typed[k] : ~Type(k, value)
  BY <1>2 DEF Type
<1>8. \A t \in Slots : ~RpcStep(t)
  BY <1>2 DEF RpcStep
<1> QED BY <1>3, <1>4, <1>5, <1>6, <1>7, <1>8 DEF Next

\* A field the user did not edit is sent as what was loaded into it, or not at
\* all.
LEMMA SentIsLoaded ==
  ASSUME SettingsTypeOK, NEW base \in Config, NEW k \in FormKeys,
         k = "password" \/ base[k] = Effective[k]
  PROVE  SentAs(k, Shown(k, base)) \in {Absent, Trimmed[Effective[k]]}
<1>1. k \in Keys /\ Effective[k] \in Domain[k]
  BY EffectiveTyped DEF FormKeys
<1>2. CASE k = "password"
  BY <1>2 DEF SentAs, Shown
<1>3. CASE k # "password" /\ Effective[k] \in Falsy
  <2>1. k # "port" => Effective[k] = ""
    BY <1>1, <1>3, ConnectionConstantsOK
  <2> QED BY <1>3, <2>1 DEF SentAs, Shown
<1>4. CASE k # "password" /\ Effective[k] \notin Falsy
  BY <1>4 DEF SentAs, Shown
<1> QED BY <1>2, <1>3, <1>4

\* Of all steps, only a save by the form is what FormKeepsRest speaks of.
LEMMA StepKeepsRest ==
  ASSUME IInv, IInv', [Next]_vars, file' # file, ours', NEW s \in Slots,
         reqs[s].pc = "posted", reqs'[s].pc = "replied",
         NEW k \in Keys \ reqs[s].of.edited,
         k \in {"protocol", "password"} \/ reqs[s].of.base[k] = Effective[k]
  PROVE  Trimmed[Effective'[k]] = Trimmed[Effective[k]]
<1> DEFINE of == reqs[s].of
<1>1. of.kind = "save" /\ Written(of.body)
  BY SaveOfThePage
<1>2. of.body \in Config /\ of.base \in Config /\ SettingsTypeOK /\ SettingsTypeOK'
  BY DEF IInv, TypeOK, ReqType, Sending
<1>3. /\ \A j \in AllKeys \ FormKeys : of.body[j] = Absent
      /\ \A j \in Untouched(of.base, of.edited) : of.body[j] = SentAs(j, Shown(j, of.base))
  BY <1>1 DEF IInv, FormMatches
<1>4. Effective[k] # Absent /\ k \in AllKeys
  BY <1>2, EffectiveTyped, SettingsConstantsOK DEF AllKeys
<1>5. of.body[k] \in {Absent, Trimmed[Effective[k]]}
  <2>1. CASE k = "protocol"
    BY <1>3, <1>4, <2>1 DEF FormKeys
  <2>2. CASE k # "protocol"
    <3>1. k \in FormKeys /\ (k = "password" \/ of.base[k] = Effective[k])
      BY <2>2 DEF FormKeys
    <3>2. k \in Untouched(of.base, of.edited)
      BY <1>4, <3>1 DEF Untouched
    <3> QED BY <1>2, <1>3, <3>1, <3>2, SentIsLoaded
  <2> QED BY <2>1, <2>2
<1> HIDE DEF of
<1> QED BY <1>1, <1>2, <1>5, SaveKeeps

\* A save by the form of a page leaves what is in force alone in every field
\* the user did not edit, unless that has changed since the form was loaded.
THEOREM FormKeeps == Spec => FormKeepsRest
<1>1. IInv /\ IInv' /\ [Next]_vars =>
        [\A s \in Slots :
           /\ file' # file /\ ours'
           /\ reqs[s].pc = "posted" /\ reqs'[s].pc = "replied" /\ reqs[s].of.page
           => \A k \in Keys \ reqs[s].of.edited :
                k \in {"protocol", "password"} \/ reqs[s].of.base[k] = Effective[k]
                  => Trimmed[Effective'[k]] = Trimmed[Effective[k]]]_vars
  BY StepKeepsRest
<1> QED BY <1>1, SpecIInv, PTL DEF Spec, FormKeepsRest

-----------------------------------------------------------------------------
(* The refinement of RpcService *)

\* What a caller sees of a call c.
Outcome(c) ==
  CASE c.pc = "idle" -> "none"
    [] c.pc = "answered" -> c.done
    [] c.pc \in {"refused", "failed"} -> c.pc
    [] OTHER -> "pending"

Outcomes == [s \in Slots |-> Outcome(calls[s])]

Done == [s \in Slots |-> calls[s].done]

\* The map with Outcomes and Done for the refinement's expressions.
LEMMA ServiceIs ==
  /\ Service!Init <=> Outcomes = [s \in Slots |-> "none"] /\ Done = [s \in Slots |-> "no"]
  /\ \A s \in Slots :
       /\ Service!Begin(s) <=> /\ Outcomes[s] = "none" /\ Done' = Done
                               /\ Outcomes' = [Outcomes EXCEPT ![s] = "pending"]
       /\ Service!Refuse(s) <=> /\ Outcomes[s] = "none" /\ Done' = Done
                                /\ Outcomes' = [Outcomes EXCEPT ![s] = "refused"]
       /\ Service!Fail(s) <=> /\ Outcomes[s] = "pending" /\ Done' = Done
                              /\ Outcomes' = [Outcomes EXCEPT ![s] = "failed"]
       /\ Service!Answer(s) <=> /\ Outcomes[s] = "pending" /\ Done[s] \in Verdicts
                                /\ Done' = Done
                                /\ Outcomes' = [Outcomes EXCEPT ![s] = Done[s]]
       /\ \A v \in Verdicts :
            Service!CarryOut(s, v) <=>
              /\ Outcomes[s] \in {"pending", "failed"} /\ Done[s] = "no"
              /\ Done' = [Done EXCEPT ![s] = v] /\ Outcomes' = Outcomes
  /\ \A S \in SUBSET Slots :
       Service!Forget(S) <=>
         /\ S # {}
         /\ Outcomes' = [s \in Slots |-> IF s \in S THEN "none" ELSE Outcomes[s]]
         /\ Done' = [s \in Slots |-> IF s \in S THEN "no" ELSE Done[s]]
BY DEF Service!Init, Service!Begin, Service!Refuse, Service!Fail, Service!Answer,
       Service!CarryOut, Service!Forget, Outcomes, Outcome, Done

\* One call becomes c.
LEMMA OutcomeOfOne ==
  ASSUME NEW s \in Slots, NEW c, calls = [t \in Slots |-> calls[t]],
         calls' = [calls EXCEPT ![s] = c]
  PROVE  /\ Outcomes' = [Outcomes EXCEPT ![s] = Outcome(c)]
         /\ Done' = [Done EXCEPT ![s] = c.done]
         /\ Outcomes[s] = Outcome(calls[s]) /\ Done[s] = calls[s].done
         /\ Outcome(c) = Outcomes[s] => Outcomes' = Outcomes
         /\ c.done = Done[s] => Done' = Done
<1>1. \A t \in Slots : calls'[t] = IF t = s THEN c ELSE calls[t]
  OBVIOUS
<1>2. Outcomes' = [t \in Slots |-> Outcome(calls'[t])] /\ Done' = [t \in Slots |-> calls'[t].done]
  BY DEF Outcomes, Outcome, Done
<1> QED BY <1>1, <1>2 DEF Outcomes, Done

\* A step of a call is a step of RpcService, or none.
LEMMA RpcStepImplements ==
  ASSUME IInv, NEW s \in Slots, RpcStep(s)
  PROVE  Service!Next \/ UNCHANGED <<Outcomes, Done>>
<1>1. calls = [t \in Slots |-> calls[t]] /\ calls[s] \in CallType
  BY DEF IInv, TypeOK, RpcTypeOK
<1>2. PICK c \in CallType : calls' = [calls EXCEPT ![s] = c] /\ CallBecomes(calls[s], c)
  BY RpcStepIs
<1> USE DEF CallBecomes
<1>3. CASE c = [calls[s] EXCEPT !.done = c.done] /\ calls[s].pc # "head"
           /\ calls[s].done = "no" /\ c.done \in Verdicts
  <2>1. c.pc = calls[s].pc /\ calls[s].pc \in {"sent", "failed"}
    BY <1>1, <1>2, <1>3 DEF CallType
  <2>2. Outcome(c) = Outcome(calls[s]) /\ Outcome(c) \in {"pending", "failed"}
    BY <2>1 DEF Outcome
  <2>3. Service!CarryOut(s, c.done)
    BY <1>1, <1>2, <1>3, <2>2, OutcomeOfOne, ServiceIs
  <2> QED BY <1>3, <2>3 DEF Service!Next
<1>4. CASE c = [calls[s] EXCEPT !.pc = "head"] /\ calls[s].pc = "sent"
  <2>1. c.pc = "head" /\ c.done = calls[s].done
    BY <1>1, <1>4 DEF CallType
  <2>2. Outcome(c) = "pending" /\ Outcome(calls[s]) = "pending"
    BY <1>4, <2>1 DEF Outcome
  <2> QED BY <1>1, <1>2, <2>1, <2>2, OutcomeOfOne
<1>5. CASE /\ c.pc \in {"failed", "stuck", "answered"} /\ c.done = calls[s].done
           /\ c.pc = "answered" => c.done \in Verdicts
           /\ calls[s].pc \in {"sent", "head"}
  <2>1. Outcome(calls[s]) = "pending"
    BY <1>5 DEF Outcome
  <2>2. CASE c.pc = "failed"
    <3>1. Outcome(c) = "failed"
      BY <2>2 DEF Outcome
    <3>2. Service!Fail(s)
      BY <1>1, <1>2, <1>5, <2>1, <3>1, OutcomeOfOne, ServiceIs
    <3> QED BY <3>2 DEF Service!Next
  <2>3. CASE c.pc = "stuck"
    <3>1. Outcome(c) = "pending"
      BY <2>3 DEF Outcome
    <3> QED BY <1>1, <1>2, <1>5, <2>1, <3>1, OutcomeOfOne
  <2>4. CASE c.pc = "answered"
    <3>1. Outcome(c) = c.done /\ calls[s].done \in Verdicts
      BY <1>5, <2>4 DEF Outcome
    <3>2. Service!Answer(s)
      BY <1>1, <1>2, <1>5, <2>1, <3>1, OutcomeOfOne, ServiceIs
    <3> QED BY <3>2 DEF Service!Next
  <2> QED BY <1>5, <2>2, <2>3, <2>4
<1> QED BY <1>2, <1>3, <1>4, <1>5

\* A handler that makes its call begins one, and may be refused at once.
LEMMA CalledImplements ==
  ASSUME IInv, NEW s \in Slots, CallMade(s)
  PROVE  Service!Next
<1>1. calls = [t \in Slots |-> calls[t]] /\ calls[s] = NoCall
  BY DEF IInv, TypeOK, RpcTypeOK, SlotsMatch, CallMade
<1>2. Outcome(NoCall) = "none" /\ NoCall.done = "no"
  BY DEF Outcome, NoCall
<1>3. CASE CallRefused(s)
  <2> DEFINE c == [NoCall EXCEPT !.pc = "refused"]
  <2>1. Outcome(c) = "refused" /\ c.done = "no"
    BY DEF Outcome, NoCall
  <2>2. calls' = [calls EXCEPT ![s] = c]
    BY <1>3 DEF CallRefused
  <2> HIDE DEF c
  <2>3. Service!Refuse(s)
    BY <1>1, <1>2, <2>1, <2>2, OutcomeOfOne, ServiceIs
  <2> QED BY <2>3 DEF Service!Next
<1>4. CASE CallSent(s)
  <2> DEFINE c == [pc   |-> "sent", host |-> Effective["host"], port |-> Effective["port"],
                   auth |-> IF UsesCookie(Effective) THEN "cookie" ELSE "password",
                   done |-> "no"]
  <2>1. calls' = [calls EXCEPT ![s] = c] /\ c.done = "no"
    BY <1>4 DEF CallSent
  <2>2. Outcome(c) = "pending"
    BY DEF Outcome
  <2> HIDE DEF c
  <2>3. Service!Begin(s)
    BY <1>1, <1>2, <2>1, <2>2, OutcomeOfOne, ServiceIs
  <2> QED BY <2>3 DEF Service!Next
<1> QED BY <1>3, <1>4 DEF CallMade, Called

\* Whoever waited has the answers of the slots S.
LEMMA Forgotten ==
  ASSUME NEW S \in SUBSET Slots,
         calls' = [t \in Slots |-> IF t \in S THEN NoCall ELSE calls[t]]
  PROVE  Service!Next \/ UNCHANGED <<Outcomes, Done>>
<1>1. Outcome(NoCall) = "none" /\ NoCall.done = "no"
  BY DEF Outcome, NoCall
<1>2. Outcomes' = [t \in Slots |-> Outcome(calls'[t])] /\ Done' = [t \in Slots |-> calls'[t].done]
  BY DEF Outcomes, Outcome, Done
<1>3. /\ Outcomes' = [t \in Slots |-> IF t \in S THEN "none" ELSE Outcomes[t]]
      /\ Done' = [t \in Slots |-> IF t \in S THEN "no" ELSE Done[t]]
  BY <1>1, <1>2 DEF Outcomes, Done
<1>4. CASE S = {}
  BY <1>3, <1>4 DEF Outcomes, Done
<1>5. CASE S # {}
  <2>1. Service!Forget(S)
    BY <1>3, <1>5, ServiceIs
  <2> QED BY <2>1 DEF Service!Next
<1> QED BY <1>4, <1>5

\* Every step is a step of RpcService, or none.
LEMMA StepImplements == IInv /\ [Next]_vars => [Service!Next]_(Service!vars)
<1> SUFFICES ASSUME IInv, [Next]_vars
             PROVE  Service!Next \/ UNCHANGED <<Outcomes, Done>>
  BY DEF Service!vars, Outcomes, Outcome, Done
<1>1. calls = [t \in Slots |-> calls[t]]
  BY DEF IInv, TypeOK, RpcTypeOK
<1>2. ASSUME calls' = calls
      PROVE  UNCHANGED <<Outcomes, Done>>
  BY <1>2 DEF Outcomes, Outcome, Done
<1>3. ASSUME NEW s \in Slots, calls' = [calls EXCEPT ![s] = NoCall]
      PROVE  Service!Next \/ UNCHANGED <<Outcomes, Done>>
  <2>1. calls' = [t \in Slots |-> IF t \in {s} THEN NoCall ELSE calls[t]]
    BY <1>1, <1>3
  <2> QED BY <2>1, Forgotten
<1>4. ASSUME NEW s \in Slots, ServerStep(s)
      PROVE  Service!Next \/ UNCHANGED <<Outcomes, Done>>
  BY <1>2, <1>4, CalledImplements DEF ServerStep, TurnedAway, SettingsShown, Save, CallSettled
<1>5. ASSUME NEW s \in Slots, ClientStep(s)
      PROVE  Service!Next \/ UNCHANGED <<Outcomes, Done>>
  BY <1>2, <1>3, <1>5 DEF ClientStep, OtherPosts, OtherReceives, ReplyLost, PageLoads,
                          FormSubmitted, PageReceives
<1>6. CASE Restart
  <2>1. calls' = [t \in Slots |-> IF t \in Slots THEN NoCall ELSE calls[t]]
    BY <1>6 DEF Restart
  <2> QED BY <2>1, Forgotten
<1>7. CASE OtherSaves \/ OperatorEdits \/ UNCHANGED vars
  BY <1>2, <1>7 DEF OtherSaves, OperatorEdits, vars
<1>8. ASSUME NEW k \in FormKeys, NEW value \in Typed[k], Type(k, value)
      PROVE  UNCHANGED <<Outcomes, Done>>
  BY <1>2, <1>8 DEF Type
<1> QED BY <1>4, <1>5, <1>6, <1>7, <1>8, RpcStepImplements DEF Next

\* rpcCall() is what its callers take it for: the module implements RpcService,
\* whatever the network, the node and the process's restarts do.
THEOREM Implements == Spec => ImplementsRpcService
<1>1. Init => Service!Init
  <2>1. Init => /\ Outcomes = [s \in Slots |-> "none"]
                /\ Done = [s \in Slots |-> "no"]
    BY DEF Init, RpcInit, NoCall, Outcomes, Outcome, Done
  <2> QED BY <2>1, ServiceIs
<1> QED BY <1>1, SpecIInv, StepImplements, PTL
        DEF Spec, ImplementsRpcService, Service!Spec
=============================================================================
