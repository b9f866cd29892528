---------------------------- MODULE MCConnection ----------------------------
(***************************************************************************)
(* An instance of Connection for TLC.  Two protocols; a private host, the  *)
(* same after a blank, and a public one; ports 8332 and 0; one password.   *)
(* The operator may edit config.json to a public host or to a cookie path, *)
(* and start the process with a password and a bad port or with a host and *)
(* a cookie.                                                               *)
(***************************************************************************)
EXTENDS Connection

MCKeys == {"protocol", "host", "port", "password"}

MCDomain ==
  [protocol |-> {"http", "https"}, host |-> {"", "127.0.0.1", " 127.0.0.1", "example.com"},
   port |-> {"", "8332", "0"}, password |-> {"", "secret"}, cookiePath |-> {"/cookie"}]

MCDefault == [protocol |-> "http", host |-> "127.0.0.1", port |-> "8332", password |-> ""]

MCAcceptable ==
  [protocol |-> {"http", "https"}, host |-> {"127.0.0.1"}, port |-> {"8332"},
   password |-> {"", "secret"}]

MCTrimmed == [v \in UNION {MCDomain[k] : k \in DOMAIN MCDomain} |->
                IF v = " 127.0.0.1" THEN "127.0.0.1" ELSE v]

MCFiles ==
  {[Nothing EXCEPT !["protocol"] = "https", !["host"] = "example.com"],
   [Nothing EXCEPT !["password"] = "secret", !["cookiePath"] = "/cookie"]}

MCEnvs ==
  {Nothing,
   [Nothing EXCEPT !["password"] = "secret", !["port"] = "0"],
   [Nothing EXCEPT !["host"] = " 127.0.0.1", !["cookiePath"] = "/cookie"]}

MCBodies ==
  {[Nothing EXCEPT !["password"] = "secret"],
   [Nothing EXCEPT !["host"] = "example.com"]}

MCTyped == [host |-> {" 127.0.0.1"}, port |-> {"0"}, password |-> {"secret"}]
=============================================================================
