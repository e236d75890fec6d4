------------------------------ MODULE Upstream -----------------------------
(***************************************************************************)
(* The HTTP client that the forwarding handlers share (jci.py): the target,*)
(* the secrets that become headers, the client certificate that may come   *)
(* from a command as text and then has to be a file, the request, and the  *)
(* response that is streamed back.  Keychain, commands, files, TLS and the *)
(* upstream are external: each form of a setting has an outcome.           *)
(***************************************************************************)
EXTENDS Naturals, Sequences

CONSTANT Configs \* sections of backends.conf, see ConfigShape

\* A secret has three forms; "empty" is a value, but an empty one.
Outcomes == {"absent", "ok", "empty", "bad"}
Secrets  == [plain : Outcomes, keychain : Outcomes, cmd : Outcomes]

\* A path, a path to nothing, an unset ${VAR}; a command that prints a path, or
\* the PEM itself, or that fails.
Pems == {"none", "path", "gone", "unset", "cmd_path", "cmd_pem", "cmd_fails"}

ConfigShape ==
  [scheme : {"none", "other", "http", "https"}, ca : {"none", "path", "gone", "cmd"},
   cert : Pems, key : Pems, auth : Secrets,
   header : Secrets, name : {"x-key", "authorization", "host"}]

ASSUME UpstreamAssumption == Configs \subseteq ConfigShape

VARIABLES
  conf,  \* the section
  came,  \* the headers of the client's request
  glue,  \* which handler: proxy answers 502 to everything, others leave it to main()
  at,    \* the next step
  temp,  \* temporary PEM files that exist: cert, key
  trust, \* whose certificates the context trusts: nobody's yet, system, configured
  out,   \* the headers that go upstream: name and where the value came from
  said   \* the status answered; "theirs": the upstream's

upVars == <<conf, came, glue, at, temp, trust, out, said>>

HopByHop == {"host", "connection"}

UpInit ==
  /\ conf \in Configs
  /\ came \in SUBSET {"authorization", "x-key", "host", "connection"}
  /\ glue \in {"proxy", "graphql"} /\ (glue = "graphql" => came = {})
  /\ at = "target" /\ temp = {} /\ trust = "nobody" /\ out = {} /\ said = "nothing"

GoesTo(next) == at' = next /\ UNCHANGED said

Fails == at' = "done" /\ said' = IF glue = "proxy" THEN "502" ELSE "500"

\* resolve_secret(): the first form that is configured; none is no failure.
Resolve(s) ==
  IF s.plain # "absent" THEN s.plain
  ELSE IF s.keychain # "absent" THEN s.keychain ELSE s.cmd
-----------------------------------------------------------------------------
\* upstream_target(), outside every handler's try block: 500 config.
Target ==
  /\ at = "target"
  /\ IF conf.scheme \in {"none", "other"} THEN at' = "done" /\ said' = "500" ELSE GoesTo("inject")
  /\ UNCHANGED <<conf, came, glue, temp, trust, out>>

\* Out of headers hs, those of name n give way to the configured one.
Put(hs, n, from) == {h \in hs : h[1] # n} \cup {<<n, from>>}

Passed == {<<n, "client">> : n \in came \ HopByHop} \cup {<<"host", "upstream">>}

WithAuth == IF Resolve(conf.auth) = "ok" THEN Put(Passed, "authorization", "auth") ELSE Passed

\* header_*: a value replaces, even an empty one; of authorization, only a
\* value that is not.
Injected ==
  IF Resolve(conf.header) \in {"ok", "empty"} THEN Put(WithAuth, conf.name, "header") ELSE WithAuth

Inject ==
  /\ at = "inject"
  /\ IF "bad" \in {Resolve(conf.auth), Resolve(conf.header)}
       THEN Fails /\ UNCHANGED out
       ELSE /\ out' = Injected
            /\ GoesTo(IF conf.scheme = "https" THEN "ca" ELSE "request")
  /\ UNCHANGED <<conf, came, glue, temp, trust>>

\* create_default_context(cafile=cfg.get("ca_cert")): no other form is read.
LoadCa ==
  /\ at = "ca"
  /\ IF conf.ca = "gone" THEN Fails /\ UNCHANGED trust
     ELSE /\ trust' = IF conf.ca = "path" THEN "configured" ELSE "system"
          /\ GoesTo("cert")
  /\ UNCHANGED <<conf, came, glue, temp, out>>

\* resolve_pem(): what a command prints is a path, or goes to a new file.  Both
\* calls stand before the try block that unlinks.
ResolvePem(which, next) ==
  /\ at = which
  /\ IF conf[which] \in {"unset", "cmd_fails"} THEN Fails /\ UNCHANGED temp
     ELSE /\ temp' = temp \cup IF conf[which] = "cmd_pem" THEN {which} ELSE {}
          /\ GoesTo(next)
  /\ UNCHANGED <<conf, came, glue, trust, out>>

Chainable ==
  /\ (conf.cert = "none") = (conf.key = "none")
  /\ "gone" \notin {conf.cert, conf.key}

\* Mutated form: no finally.
LoadChainKeeps ==
  /\ at = "load"
  /\ \/ Chainable /\ temp' = {} /\ GoesTo("request")
     \/ (~Chainable \/ conf.cert # "none") /\ UNCHANGED temp /\ Fails
  /\ UNCHANGED <<conf, came, glue, trust, out>>

\* Set together, there, and loadable - or not; finally: os.unlink().
LoadChain ==
  /\ at = "load"
  /\ temp' = {}
  /\ \/ Chainable /\ GoesTo("request")
     \/ (~Chainable \/ conf.cert # "none") /\ Fails
  /\ UNCHANGED <<conf, came, glue, trust, out>>

\* connect, handshake, request and response head; then forward_response().
Exchange ==
  /\ at = "request"
  /\ \/ at' = "done" /\ said' = "theirs"
     \/ Fails
  /\ UNCHANGED <<conf, came, glue, temp, trust, out>>

UpNext ==
  \/ Target \/ Inject \/ LoadCa \/ ResolvePem("cert", "key") \/ ResolvePem("key", "load")
  \/ LoadChain \/ Exchange

UpSpec == UpInit /\ [][UpNext]_upVars
-----------------------------------------------------------------------------
(* Properties                                                              *)

\* No temporary PEM file is there when the upstream is asked, and none is left
\* at the end - but for the certificate whose key cannot be had: that failure
\* comes after the one file was made and before the try block.
PemsGone ==
  /\ at = "request" => temp = {}
  /\ at = "done" => temp \subseteq {"cert"}
  /\ at = "done" /\ temp # {} => conf.key \in {"unset", "cmd_fails"}

\* What is sent has one value for a name.  A configured one wins over the
\* client's, and the client never names the host or the connection.
ConfiguredWins ==
  said = "theirs" =>
    /\ \A g, h \in out : g[1] = h[1] => g = h
    /\ Resolve(conf.header) = "ok" => <<conf.name, "header">> \in out
    /\ Resolve(conf.auth) = "ok" => <<"authorization", "client">> \notin out
    /\ \A n \in HopByHop : <<n, "client">> \notin out

\* Configured secrets go where they belong, and nothing stays behind.
SecretsKept == PemsGone /\ ConfiguredWins

\* An upstream that is asked over TLS is checked against the private CA that
\* the section configures (docs/recipes/kubernetes.md:18-22).
ConfiguredCaTrusted == at = "request" /\ conf.ca # "none" /\ trust # "nobody" => trust = "configured"
=============================================================================
