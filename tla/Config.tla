------------------------------- MODULE Config -------------------------------
(***************************************************************************)
(* What becomes of a configuration: Load and validate                      *)
(* (internal/config/config.go), then the constructors that main            *)
(* (cmd/ocsp-responder/main.go) calls with it one after the other, each of *)
(* which parses its durations again and applies defaults of its own.       *)
(*                                                                         *)
(* A duration as written is empty, does not parse, or parses to d.         *)
(* Everything outside the configuration (files, certificates, the CA) can  *)
(* fail a step as well; such a failure is told from one that the           *)
(* configuration causes.                                                   *)
(***************************************************************************)
EXTENDS Integers

CONSTANTS Configs,   \* the configurations that may be written
          Backoff    \* 500ms

Text == [empty : BOOLEAN, parses : BOOLEAN, d : Int]

\* time.ParseDuration takes no empty text.
Durations == {t \in Text : t.empty => ~t.parses}

ConfigType ==
    [decodes : BOOLEAN,        \* YAML, and no unknown key
     signerFiles : BOOLEAN,    \* the three signer files are named
     validity : Durations,     \* signer.response_validity
     type : {"file", "http", "static", "other"},
     location : BOOLEAN,       \* crl_path or base_url is set
     reloadInterval : Durations,
     expiryGrace : Durations,
     timeout : Durations,
     retryMax : Int,           \* 0 when it is left out
     retryBackoff : Durations,
     cacheTTL : Durations,     \* source.http.cache_ttl
     status : {"", "good", "revoked", "unknown", "other"},
     ttl : Durations,          \* cache.ttl
     tls : {"plain", "cert", "acme", "none"}]

ASSUME ConfigAssumption == Configs \subseteq ConfigType /\ Backoff \in Nat \ {0}

VARIABLES cfg,       \* the configuration
          stage,     \* the step main is at
          blame,     \* what made it stop: "", "config" or "world"
          settings   \* what the components run with

configVars == <<cfg, stage, blame, settings>>

-----------------------------------------------------------------------------
(* validate *)

Optional(t) == t.empty \/ t.parses

\* Mutant: the interval only has to parse.
fileParses(c) ==
    c.location /\ c.reloadInterval.parses /\ Optional(c.expiryGrace)

fileValid(c) ==
    /\ c.location
    /\ c.reloadInterval.parses /\ c.reloadInterval.d > 0
    /\ Optional(c.expiryGrace)
    /\ c.expiryGrace.parses => c.expiryGrace.d >= 0

httpValid(c) ==
    /\ c.location
    /\ c.timeout.parses
    /\ Optional(c.retryBackoff)
    /\ Optional(c.cacheTTL)

staticValid(c) == c.status \in {"good", "revoked", "unknown"}

sourceValid(c) ==
    \/ c.type = "file" /\ fileValid(c)
    \/ c.type = "http" /\ httpValid(c)
    \/ c.type = "static" /\ staticValid(c)

\* Mutant: cache.ttl is checked where it is used.
validUpToTTL(c) ==
    c.signerFiles /\ sourceValid(c) /\ c.validity.parses /\ c.validity.d > 0

valid(c) ==
    /\ c.signerFiles
    /\ sourceValid(c)
    /\ c.validity.parses /\ c.validity.d > 0
    /\ c.ttl.parses

\* The defaults that validate writes into the HTTP source's section.
withDefaults(c) ==
    IF c.type = "http"
    THEN [c EXCEPT !.retryMax = IF @ = 0 THEN 3 ELSE @,
                   !.retryBackoff = IF @.empty THEN [empty |-> FALSE, parses |-> TRUE, d |-> Backoff]
                                    ELSE @]
    ELSE c

-----------------------------------------------------------------------------
(* main, one step for each thing it constructs. *)

SettingsType == [validity : Int, interval : Int, grace : Int, attempts : Int, backoff : Int]

NoSettings == [validity |-> 0, interval |-> 0, grace |-> 0, attempts |-> 0, backoff |-> 0]

ConfigInit ==
    /\ cfg \in Configs
    /\ stage = "load"
    /\ blame = ""
    /\ settings = NoSettings

Stop(why) == stage' = "exit" /\ blame' = why /\ UNCHANGED <<cfg, settings>>

\* A step that the configuration allows, or fails.
Step(from, to, allowed, result) ==
    /\ stage = from
    /\ IF allowed
       THEN stage' = to /\ settings' = result /\ UNCHANGED <<cfg, blame>>
       ELSE Stop("config")

\* config.Load
Load ==
    /\ stage = "load"
    /\ \/ ~(cfg.decodes /\ valid(cfg)) /\ Stop("config")
       \/ /\ cfg.decodes /\ valid(cfg)
          /\ cfg' = withDefaults(cfg)
          /\ stage' = "signer"
          /\ UNCHANGED <<blame, settings>>

NewSigner ==
    Step("signer", "source", cfg.validity.parses, [settings EXCEPT !.validity = cfg.validity.d])

\* newSource for a CRL, and NewFileSource.
NewFileSource ==
    /\ cfg.type = "file"
    /\ Step("source", "responder",
            cfg.location /\ cfg.reloadInterval.parses /\ Optional(cfg.expiryGrace),
            [settings EXCEPT !.interval = cfg.reloadInterval.d,
                             !.grace = IF cfg.expiryGrace.empty THEN 0 ELSE cfg.expiryGrace.d])

\* newSource for a CA, and NewHTTPSource with its defaults.
NewHTTPSource ==
    /\ cfg.type = "http"
    /\ Step("source", "responder",
            cfg.location /\ cfg.timeout.parses /\ Optional(cfg.retryBackoff) /\ Optional(cfg.cacheTTL),
            [settings EXCEPT !.attempts = IF cfg.retryMax <= 0 THEN 3 ELSE cfg.retryMax,
                             !.backoff = IF cfg.retryBackoff.empty \/ cfg.retryBackoff.d <= 0
                                         THEN Backoff ELSE cfg.retryBackoff.d])

\* The static source, and the default case of newSource.
NewStaticSource ==
    /\ cfg.type \in {"static", "other"}
    /\ Step("source", "responder",
            cfg.type = "static" /\ cfg.status \in {"good", "revoked", "unknown"}, settings)

\* main parses cache.ttl for NewResponder, and Start for the handlers.
NewResponder == Step("responder", "listen", cfg.ttl.parses, settings)

\* The listener goroutine of Start chooses by the TLS settings.
UseTLS == Step("listen", "running", cfg.tls # "none", settings)

\* What no configuration prevents: the configuration file, a signer file, the
\* CRL or the root certificate of the CA cannot be read, the certificates do
\* not belong together (NewSigner), or the address cannot be bound.
Mishap ==
    /\ stage \in {"load", "signer", "source", "listen"}
    /\ stage = "source" => cfg.type # "static"
    /\ Stop("world")

ConfigNext ==
    \/ Load
    \/ NewSigner
    \/ NewFileSource
    \/ NewHTTPSource
    \/ NewStaticSource
    \/ NewResponder
    \/ UseTLS
    \/ Mishap

ConfigSpec == ConfigInit /\ [][ConfigNext]_configVars

-----------------------------------------------------------------------------
(* Properties. *)

\* Every variable has its type.
ConfigTypeOK ==
    /\ cfg \in ConfigType
    /\ stage \in {"load", "signer", "source", "responder", "listen", "running", "exit"}
    /\ blame \in {"", "config", "world"}
    /\ settings \in SettingsType

\* Once Load has accepted a configuration, no constructor finds fault with it:
\* what the constructors parse and reject, validate has parsed and rejected.
\* The one exception is TLS without a certificate or an ACME host.
AcceptedConstructs ==
    [][stage \notin {"load", "exit"} /\ blame' = "config" => stage = "listen" /\ cfg.tls = "none"]_configVars

\* The components run with values they can take: the reload ticker panics on
\* an interval that is not positive, no attempt at all would make every lookup
\* of the CA fail, and the signer, the backoff and the grace are what modules
\* Signer, HTTPSource and CRLValidity assume of them.
SettingsUsable ==
    stage = "running" =>
        /\ settings.validity > 0
        /\ cfg.type = "file" => settings.interval > 0 /\ settings.grace >= 0
        /\ cfg.type = "http" => settings.attempts > 0 /\ settings.backoff > 0
=============================================================================
