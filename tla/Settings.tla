------------------------------ MODULE Settings ------------------------------
(***************************************************************************)
(* The settings store, server/settings.js: config.json, the environment    *)
(* laid over it, and the defaults under it.  Every call of getSettings()   *)
(* reads the file again.                                                   *)
(*                                                                         *)
(* A setting is a value out of a small set for its key; which values       *)
(* validate() accepts is a constant, whose content for hosts and addresses *)
(* NetGuard.tla and Address.tla model.                                     *)
(***************************************************************************)
EXTENDS Naturals

CONSTANTS
  Keys,        \* the settable keys: "host", "port", "password", ...
  Domain,      \* for each key, and for "cookiePath", the values it may have
  Default,     \* DEFAULTS
  Acceptable,  \* for each key, the values validate() accepts; ALLOW_PUBLIC_RPC_HOST, on
               \* which they depend, is the same at every start
  Trimmed,     \* trim() of a value; the identity on keys that are not trimmed
  Absent,      \* undefined, or an environment variable that is not set
  Torn,        \* config.json is not valid JSON
  Files,       \* the config.json an operator may write by hand
  Envs         \* the environments the process may be started with

AllKeys == Keys \cup {"cookiePath"}

\* A value for each key, or none.
Config ==
  {c \in [AllKeys -> (UNION {Domain[k] : k \in AllKeys}) \cup {Absent}] :
     \A k \in AllKeys : c[k] \in Domain[k] \cup {Absent}}

ASSUME SettingsConstantsOK ==
  /\ "host" \in Keys /\ "port" \in Keys /\ "password" \in Keys /\ "cookiePath" \notin Keys
  /\ DOMAIN Domain = AllKeys
  /\ DOMAIN Default = Keys /\ \A k \in Keys : Default[k] \in Domain[k]
  /\ DOMAIN Acceptable = Keys /\ \A k \in Keys : Acceptable[k] \subseteq Domain[k]
  /\ \A k \in AllKeys : Absent \notin Domain[k] /\ Torn \notin Domain[k]
  /\ \A k \in Keys : \A v \in Domain[k] :
       Trimmed[v] \in Domain[k] /\ Trimmed[Trimmed[v]] = Trimmed[v]
  /\ Files \subseteq Config /\ Envs \subseteq Config
  /\ Torn \notin Config

VARIABLES
  file,  \* what config.json holds
  env,   \* the environment of the process
  ours   \* history: saveSettings() wrote what config.json holds

settingsVars == <<file, env, ours>>

SettingsTypeOK ==
  /\ file \in Config \cup {Torn}
  /\ env \in Envs
  /\ ours \in BOOLEAN

Nothing == [k \in AllKeys |-> Absent]

\* There is no config.json yet.
SettingsInit ==
  /\ file = Nothing
  /\ env \in Envs
  /\ ours = FALSE

-----------------------------------------------------------------------------

Or(value, other) == IF value # Absent THEN value ELSE other

\* readConfigFile(): an unreadable file counts as empty.
InFile == IF file = Torn THEN Nothing ELSE file

\* getSettings(): the file over the defaults and the environment over both;
\* cookiePath is the environment's alone.
Effective ==
  [k \in AllKeys |-> IF k = "cookiePath" THEN env[k] ELSE Or(env[k], Or(InFile[k], Default[k]))]

\* What saveSettings() is about to write, its `next`: the keys of the body over
\* those of the file over the defaults.
Merged(body) ==
  [k \in AllKeys |-> IF k = "cookiePath" THEN Absent
                     ELSE Trimmed[Or(body[k], Or(InFile[k], Default[k]))]]

\* Mutant of Validates: only what the body brings is looked at.
ValidatesBody(body) == \A k \in Keys : body[k] = Absent \/ body[k] \in Acceptable[k]

\* validate() accepts what the body leads to.
Validates(body) == \A k \in Keys : Merged(body)[k] \in Acceptable[k]

\* saveSettings() writes.
Written(body) ==
  /\ Validates(body)
  /\ file' = Merged(body)
  /\ ours' = TRUE
  /\ UNCHANGED env

\* The write ends, by an error or with the process, after the file was
\* truncated.
WriteTorn(body) ==
  /\ Validates(body)
  /\ file' = Torn
  /\ ours' = FALSE
  /\ UNCHANGED env

\* The operator edits config.json.
HandEdit(config) ==
  /\ file' = config
  /\ ours' = FALSE
  /\ UNCHANGED env
=============================================================================
