---------------------------- MODULE StartupProofs ----------------------------
(***************************************************************************)
(* The properties of Config, for every set of configurations, and those of *)
(* ACMEProbe, for any number of responders that share the directory and    *)
(* any set of file names.                                                  *)
(*                                                                         *)
(* The argument for Config: what valid establishes of a configuration      *)
(* outlives the defaults that Load writes into it, and implies what each   *)
(* constructor asks.                                                       *)
(***************************************************************************)
EXTENDS Config, ACMEProbe, TLAPS

(* Config. *)

Accepted == {"signer", "source", "responder", "listen", "running"}

\* The inductive invariant: past Load the configuration is valid, and each
\* step has left the settings it makes.
ConfigInv ==
    /\ ConfigTypeOK
    /\ stage # "exit" => blame = ""
    /\ stage \in Accepted => valid(cfg)
    /\ stage \in {"source", "responder", "listen", "running"} => settings.validity > 0
    /\ stage \in {"responder", "listen", "running"} =>
          /\ cfg.type = "file" => settings.interval > 0 /\ settings.grace >= 0
          /\ cfg.type = "http" => settings.attempts > 0 /\ settings.backoff > 0

LEMMA BackoffPositive == Backoff \in Int /\ Backoff > 0
BY ConfigAssumption

\* The defaults keep a configuration what it is.
LEMMA DefaultsKeep ==
    ASSUME NEW c \in ConfigType, valid(c)
    PROVE  withDefaults(c) \in ConfigType /\ valid(withDefaults(c))
<1> DEFINE b == [empty |-> FALSE, parses |-> TRUE, d |-> Backoff]
<1>1. b \in Durations
    BY BackoffPositive DEF Durations, Text
<1>2. CASE c.type # "http"
    BY <1>2 DEF withDefaults
<1>3. CASE c.type = "http"
    <2> DEFINE n == IF c.retryMax = 0 THEN 3 ELSE c.retryMax
               t == IF c.retryBackoff.empty THEN b ELSE c.retryBackoff
               w == [c EXCEPT !.retryMax = n, !.retryBackoff = t]
    <2>1. n \in Int /\ t \in Durations
        <3>1. c.retryMax \in Int /\ c.retryBackoff \in Durations
            BY Zenon DEF ConfigType
        <3> HIDE DEF b
        <3>2. n \in Int
            BY <3>1
        <3>3. t \in Durations
            BY <1>1, <3>1, Zenon
        <3> QED BY <3>2, <3>3
    <2>2. t.parses
        BY <1>3 DEF valid, sourceValid, httpValid, Optional
    <2>3. withDefaults(c) = w
        BY <1>3 DEF withDefaults
    <2> HIDE DEF n, t
    <2>4. w \in ConfigType
        BY <2>1, Zenon DEF ConfigType
    <2>5. /\ w.signerFiles = c.signerFiles /\ w.type = c.type /\ w.location = c.location
          /\ w.validity = c.validity /\ w.timeout = c.timeout
          /\ w.cacheTTL = c.cacheTTL /\ w.ttl = c.ttl /\ w.retryBackoff = t
        BY Zenon DEF ConfigType
    <2> HIDE DEF w
    <2>6. valid(w)
        BY <1>3, <2>2, <2>5 DEF valid, sourceValid, httpValid, Optional
    <2> QED BY <2>3, <2>4, <2>6
<1> QED BY <1>2, <1>3

LEMMA InitConfigInv == ConfigInit => ConfigInv
<1> SUFFICES ASSUME ConfigInit PROVE ConfigInv
    OBVIOUS
<1>1. cfg \in ConfigType
    BY ConfigAssumption, Zenon DEF ConfigInit
<1>2. settings \in SettingsType
    <2>1. settings = NoSettings
        BY Zenon DEF ConfigInit
    <2>2. NoSettings \in SettingsType
        BY DEF NoSettings, SettingsType
    <2> QED BY <2>1, <2>2
<1> QED BY <1>1, <1>2, Zenon DEF ConfigInit, ConfigInv, ConfigTypeOK, Accepted

\* No constructor refuses what Load accepted, TLS apart.
LEMMA Constructs ==
    ASSUME ConfigInv
    PROVE  /\ stage = "signer" => cfg.validity.parses
           /\ stage = "source" /\ cfg.type = "file" =>
                 cfg.location /\ cfg.reloadInterval.parses /\ Optional(cfg.expiryGrace)
           /\ stage = "source" /\ cfg.type = "http" =>
                 /\ cfg.location /\ cfg.timeout.parses
                 /\ Optional(cfg.retryBackoff) /\ Optional(cfg.cacheTTL)
           /\ stage = "source" /\ cfg.type \in {"static", "other"} =>
                 cfg.type = "static" /\ cfg.status \in {"good", "revoked", "unknown"}
           /\ stage = "responder" => cfg.ttl.parses
BY Zenon DEF ConfigInv, Accepted, valid, sourceValid, fileValid, httpValid, staticValid

\* The durations of a configuration are integers.
LEMMA DurationsInt ==
    ASSUME NEW c \in ConfigType
    PROVE  /\ c.validity.d \in Int /\ c.reloadInterval.d \in Int /\ c.expiryGrace.d \in Int
           /\ c.retryBackoff.d \in Int /\ c.retryMax \in Int
BY Zenon DEF ConfigType, Durations, Text

LEMMA StopKeeps ==
    ASSUME ConfigInv, NEW why \in {"config", "world"}, Stop(why)
    PROVE  ConfigInv'
BY Zenon DEF ConfigInv, ConfigTypeOK, Stop, Accepted, SettingsType

LEMMA NextConfigInv == ConfigInv /\ [ConfigNext]_configVars => ConfigInv'
<1> SUFFICES ASSUME ConfigInv, [ConfigNext]_configVars PROVE ConfigInv'
    OBVIOUS
<1> DEFINE v == cfg.validity.d
           i == cfg.reloadInterval.d
           g == IF cfg.expiryGrace.empty THEN 0 ELSE cfg.expiryGrace.d
           a == IF cfg.retryMax <= 0 THEN 3 ELSE cfg.retryMax
           k == IF cfg.retryBackoff.empty \/ cfg.retryBackoff.d <= 0
                THEN Backoff ELSE cfg.retryBackoff.d
<1>0. /\ v \in Int /\ i \in Int /\ g \in Int /\ a \in Int /\ k \in Int
      /\ a > 0 /\ k > 0
    <2>1. /\ cfg.validity.d \in Int /\ cfg.reloadInterval.d \in Int
          /\ cfg.expiryGrace.d \in Int /\ cfg.retryBackoff.d \in Int /\ cfg.retryMax \in Int
        BY DurationsInt, Zenon DEF ConfigInv, ConfigTypeOK
    <2>2. v \in Int /\ i \in Int
        BY <2>1
    <2>3. g \in Int
        <3>1. CASE cfg.expiryGrace.empty
            BY <3>1
        <3>2. CASE ~cfg.expiryGrace.empty
            BY <2>1, <3>2
        <3> QED BY <3>1, <3>2
    <2>4. a \in Int /\ a > 0
        BY <2>1
    <2>5. k \in Int /\ k > 0
        <3>1. CASE cfg.retryBackoff.empty \/ cfg.retryBackoff.d <= 0
            BY <3>1, BackoffPositive
        <3>2. CASE ~(cfg.retryBackoff.empty \/ cfg.retryBackoff.d <= 0)
            BY <2>1, <3>2
        <3> QED BY <3>1, <3>2
    <2> QED BY <2>2, <2>3, <2>4, <2>5
<1>1. CASE Load
    <2>1. CASE Stop("config")
        BY <2>1, StopKeeps
    <2>2. CASE /\ valid(cfg) /\ cfg' = withDefaults(cfg) /\ stage' = "signer"
               /\ stage = "load" /\ UNCHANGED <<blame, settings>>
        <3>1. cfg' \in ConfigType /\ valid(cfg')
            BY <2>2, DefaultsKeep, Zenon DEF ConfigInv, ConfigTypeOK
        <3>2. blame = ""
            BY <2>2, Zenon DEF ConfigInv
        <3> QED BY <2>2, <3>1, <3>2, Zenon DEF ConfigInv, ConfigTypeOK, Accepted
    <2> QED BY <1>1, <2>1, <2>2 DEF Load
<1>2. CASE NewSigner
    <2>1. /\ stage = "signer" /\ stage' = "source" /\ UNCHANGED <<cfg, blame>>
          /\ settings' = [settings EXCEPT !.validity = v]
        BY <1>2, Constructs DEF NewSigner, Step
    <2>2. v > 0
        BY <2>1, Zenon DEF ConfigInv, Accepted, valid
    <2> HIDE DEF v
    <2>3. settings' \in SettingsType /\ settings'.validity = v
        BY <1>0, <2>1, Zenon DEF ConfigInv, ConfigTypeOK, SettingsType
    <2> QED BY <2>1, <2>2, <2>3, Zenon DEF ConfigInv, ConfigTypeOK, Accepted, valid, sourceValid, fileValid,
                 httpValid, staticValid, Optional
<1>3. CASE NewFileSource
    <2>1. /\ stage = "source" /\ stage' = "responder" /\ UNCHANGED <<cfg, blame>>
          /\ cfg.type = "file"
          /\ settings' = [settings EXCEPT !.interval = i, !.grace = g]
        BY <1>3, Constructs DEF NewFileSource, Step
    <2>2. i > 0 /\ g >= 0
        <3>1. valid(cfg)
            BY <2>1, Zenon DEF ConfigInv, Accepted
        <3>2. fileValid(cfg)
            BY <2>1, <3>1 DEF valid, sourceValid
        <3>3. i > 0
            BY <3>2 DEF fileValid
        <3>4. CASE cfg.expiryGrace.empty
            BY <3>3, <3>4
        <3>5. CASE ~cfg.expiryGrace.empty
            <4>1. cfg.expiryGrace.d >= 0
                BY <3>2, <3>5 DEF fileValid, Optional
            <4> QED BY <3>3, <3>5, <4>1
        <3> QED BY <3>4, <3>5
    <2> HIDE DEF i, g
    <2>3. /\ settings' \in SettingsType
          /\ settings'.interval = i /\ settings'.grace = g
          /\ settings'.validity = settings.validity
        BY <1>0, <2>1, Zenon DEF ConfigInv, ConfigTypeOK, SettingsType
    <2>4. valid(cfg')
        BY <2>1, Zenon DEF ConfigInv, Accepted
    <2> QED BY <2>1, <2>2, <2>3, <2>4, Zenon DEF ConfigInv, ConfigTypeOK, Accepted
<1>4. CASE NewHTTPSource
    <2>1. /\ stage = "source" /\ stage' = "responder" /\ UNCHANGED <<cfg, blame>>
          /\ cfg.type = "http"
          /\ settings' = [settings EXCEPT !.attempts = a, !.backoff = k]
        BY <1>4, Constructs DEF NewHTTPSource, Step
    <2> HIDE DEF a, k
    <2>2. /\ settings' \in SettingsType
          /\ settings'.attempts = a /\ settings'.backoff = k
          /\ settings'.validity = settings.validity
        BY <1>0, <2>1, Zenon DEF ConfigInv, ConfigTypeOK, SettingsType
    <2>3. valid(cfg')
        BY <2>1, Zenon DEF ConfigInv, Accepted
    <2> QED BY <1>0, <2>1, <2>2, <2>3, Zenon DEF ConfigInv, ConfigTypeOK, Accepted
<1>5. CASE NewStaticSource
    <2>1. /\ stage = "source" /\ stage' = "responder" /\ UNCHANGED <<cfg, blame, settings>>
          /\ cfg.type = "static"
        BY <1>5, Constructs DEF NewStaticSource, Step
    <2>2. valid(cfg')
        BY <2>1, Zenon DEF ConfigInv, Accepted
    <2> QED BY <2>1, <2>2, Zenon DEF ConfigInv, ConfigTypeOK, Accepted
<1>6. CASE NewResponder
    <2>1. stage = "responder" /\ stage' = "listen" /\ UNCHANGED <<cfg, blame, settings>>
        BY <1>6, Constructs DEF NewResponder, Step
    <2>2. valid(cfg')
        BY <2>1, Zenon DEF ConfigInv, Accepted
    <2> QED BY <2>1, <2>2, Zenon DEF ConfigInv, ConfigTypeOK, Accepted
<1>7. CASE UseTLS
    <2>1. CASE Stop("config")
        BY <2>1, StopKeeps
    <2>2. CASE stage = "listen" /\ stage' = "running" /\ UNCHANGED <<cfg, blame, settings>>
        <3>1. valid(cfg')
            BY <2>2, Zenon DEF ConfigInv, Accepted
        <3> QED BY <2>2, <3>1, Zenon DEF ConfigInv, ConfigTypeOK, Accepted
    <2> QED BY <1>7, <2>1, <2>2 DEF UseTLS, Step
<1>8. CASE Mishap
    BY <1>8, StopKeeps DEF Mishap
<1>9. CASE UNCHANGED configVars
    <2>1. stage \in Accepted => valid(cfg')
        BY <1>9, Zenon DEF configVars, ConfigInv
    <2> QED BY <1>9, <2>1, Zenon DEF configVars, ConfigInv, ConfigTypeOK
<1> QED BY <1>1, <1>2, <1>3, <1>4, <1>5, <1>6, <1>7, <1>8, <1>9 DEF ConfigNext

LEMMA AlwaysConfigInv == ConfigSpec => []ConfigInv
BY InitConfigInv, NextConfigInv, PTL DEF ConfigSpec

\* A component never runs with an interval, a grace, a number of attempts, a
\* backoff or a validity that it cannot take, whatever was configured.
THEOREM RunsUsable == ConfigSpec => []SettingsUsable
<1>1. ConfigInv => SettingsUsable
    BY Zenon DEF ConfigInv, SettingsUsable
<1> QED BY AlwaysConfigInv, <1>1, PTL

\* What Load accepts, no constructor refuses, TLS without a certificate apart.
THEOREM AcceptedNeverRefused == ConfigSpec => AcceptedConstructs
<1> DEFINE A == stage \notin {"load", "exit"} /\ blame' = "config"
                    => stage = "listen" /\ cfg.tls = "none"
<1>1. ConfigInv /\ [ConfigNext]_configVars => [A]_configVars
    <2> SUFFICES ASSUME ConfigInv, ConfigNext, stage \notin {"load", "exit"}, blame' = "config"
                 PROVE  stage = "listen" /\ cfg.tls = "none"
        OBVIOUS
    <2>1. stage \in Accepted => blame = ""
        BY Zenon DEF ConfigInv, Accepted
    <2>2. CASE Load
        BY <2>2 DEF Load
    <2>3. CASE NewSigner \/ NewFileSource \/ NewHTTPSource \/ NewStaticSource \/ NewResponder
        <3>1. UNCHANGED blame /\ stage \in Accepted
            BY <2>3, Constructs DEF NewSigner, NewFileSource, NewHTTPSource, NewStaticSource,
               NewResponder, Step, Accepted
        <3> QED BY <2>1, <3>1, Zenon
    <2>4. CASE UseTLS
        BY <2>1, <2>4, Zenon DEF UseTLS, Step, Accepted
    <2>5. CASE Mishap
        BY <2>5 DEF Mishap, Stop
    <2> QED BY <2>2, <2>3, <2>4, <2>5 DEF ConfigNext
<1> QED BY AlwaysConfigInv, <1>1, PTL DEF ConfigSpec, AcceptedConstructs

-----------------------------------------------------------------------------
(* ACMEProbe. *)

\* A responder has no file before CreateTemp.
NoProbeYet == \A p \in Responders : pc[p] \in {"start", "create"} => probe[p] = {}

\* The inductive invariant: an unfit directory is on record for every
\* responder, and a file is some probe's or accounted for.
ProbeInv ==
    /\ ProbeTypeOK
    /\ dir \in Unfit => \A p \in Responders : bad[p]
    /\ NoProbeYet
    /\ FailsOnlyForCause
    /\ NoLitter

LEMMA InitProbeInv == ProbeInit => ProbeInv
<1> SUFFICES ASSUME ProbeInit PROVE ProbeInv
    OBVIOUS
<1>1. bad \in [Responders -> BOOLEAN] /\ (dir \in Unfit => \A p \in Responders : bad[p])
    <2>1. bad = [p \in Responders |-> dir \in Unfit]
        BY DEF ProbeInit
    <2>2. CASE dir \in Unfit
        BY <2>1, <2>2, Zenon
    <2>3. CASE dir \notin Unfit
        BY <2>1, <2>3
    <2> QED BY <2>2, <2>3
<1>2. ProbeTypeOK
    BY <1>1 DEF ProbeInit, ProbeTypeOK
<1> QED BY <1>1, <1>2 DEF ProbeInit, ProbeInv, NoProbeYet, FailsOnlyForCause, NoLitter

\* Where a step of one probe leads: the parts of the invariant about pc.
LEMMA GotoKeeps ==
    ASSUME ProbeInv, NEW p \in Responders, NEW from, NEW to, Goto(p, from, to),
           to \in {"start", "create", "close", "remove", "ok", "failed"},
           to = "failed" => dir \in Unfit,
           UNCHANGED bad
    PROVE  /\ pc' \in [Responders -> {"start", "create", "close", "remove", "ok", "failed"}]
           /\ FailsOnlyForCause'
BY DEF ProbeInv, ProbeTypeOK, Goto, FailsOnlyForCause

\* Unlink leaves no file that nobody answers for.
LEMMA UnlinkKeeps ==
    ASSUME ProbeInv, NEW p \in Responders, Unlink(p)
    PROVE  /\ files' \in SUBSET Names
           /\ probe' \in [Responders -> SUBSET Names]
           /\ abandoned' \in SUBSET Names
           /\ NoLitter'
<1> USE DEF ProbeInv, ProbeTypeOK, Unlink
<1>1. probe[p] \in SUBSET Names
    OBVIOUS
<1>2. files' \in SUBSET Names /\ abandoned' \in SUBSET Names
    BY <1>1
<1>3. probe' \in [Responders -> SUBSET Names]
    OBVIOUS
<1>4. ASSUME NEW n \in files'
      PROVE  n \in abandoned' \/ \E q \in Responders : n \in probe'[q]
    <2>1. n \in files
        BY <1>4
    <2>2. CASE n \in probe[p]
        BY <1>4, <2>1, <2>2
    <2>3. CASE n \notin probe[p] /\ n \in abandoned
        BY <2>3
    <2>4. CASE \E q \in Responders : q # p /\ n \in probe[q]
        BY <2>4
    <2> QED BY <2>1, <2>2, <2>3, <2>4 DEF NoLitter
<1> QED BY <1>2, <1>3, <1>4 DEF NoLitter

LEMMA NextProbeInv == ProbeInv /\ [ProbeNext]_probeVars => ProbeInv'
<1> SUFFICES ASSUME ProbeInv, [ProbeNext]_probeVars PROVE ProbeInv'
    OBVIOUS
<1>1. ASSUME NEW p \in Responders, MkdirAll(p) PROVE ProbeInv'
    <2>1. /\ pc' \in [Responders -> {"start", "create", "close", "remove", "ok", "failed"}]
          /\ FailsOnlyForCause'
        BY <1>1, GotoKeeps DEF MkdirAll, Unfit
    <2> QED BY <1>1, <2>1 DEF MkdirAll, Goto, ProbeInv, ProbeTypeOK, NoProbeYet, NoLitter, Missing, Present, Unfit
<1>2. ASSUME NEW p \in Responders, CreateTemp(p) PROVE ProbeInv'
    <2>1. CASE dir = "readonly" /\ CreateFails(p)
        <3>1. /\ pc' \in [Responders -> {"start", "create", "close", "remove", "ok", "failed"}]
              /\ FailsOnlyForCause'
            BY <2>1, GotoKeeps DEF CreateFails, Unfit
        <3> QED BY <2>1, <3>1 DEF CreateFails, Goto, ProbeInv, ProbeTypeOK, NoProbeYet, NoLitter
    <2>2. ASSUME NEW n \in Names \ files, pc[p] = "create", Create(p, n) PROVE ProbeInv'
        <3>1. /\ pc' \in [Responders -> {"start", "create", "close", "remove", "ok", "failed"}]
              /\ FailsOnlyForCause'
            BY <2>2, GotoKeeps DEF Create
        <3>2. probe' \in [Responders -> SUBSET Names]
            BY <2>2 DEF Create, ProbeInv, ProbeTypeOK
        <3>3. NoLitter'
            <4>1. ASSUME NEW m \in files'
                  PROVE  m \in abandoned' \/ \E q \in Responders : m \in probe'[q]
                <5>1. CASE m = n
                    <6>1. n \in probe'[p]
                        BY <2>2 DEF Create, ProbeInv, ProbeTypeOK
                    <6> QED BY <5>1, <6>1
                <5>2. CASE m \in files /\ m \in abandoned
                    BY <2>2, <5>2 DEF Create
                <5>3. ASSUME m \in files, NEW q \in Responders, m \in probe[q]
                      PROVE  m \in abandoned' \/ \E q1 \in Responders : m \in probe'[q1]
                    BY <2>2, <5>3 DEF Create, ProbeInv, ProbeTypeOK, NoProbeYet
                <5> QED BY <2>2, <4>1, <5>1, <5>2, <5>3 DEF Create, ProbeInv, NoLitter
            <4> QED BY <4>1 DEF NoLitter
        <3> QED BY <2>2, <3>1, <3>2, <3>3 DEF Create, Goto, ProbeInv, ProbeTypeOK, NoProbeYet
    <2> QED BY <1>2, <2>1, <2>2 DEF CreateTemp, Create, Goto
<1>3. ASSUME NEW p \in Responders, Close(p) PROVE ProbeInv'
    <2>1. CASE Closed(p)
        <3>1. /\ pc' \in [Responders -> {"start", "create", "close", "remove", "ok", "failed"}]
              /\ FailsOnlyForCause'
            BY <2>1, GotoKeeps DEF Closed
        <3> QED BY <2>1, <3>1 DEF Closed, Goto, ProbeInv, ProbeTypeOK, NoProbeYet, NoLitter
    <2>2. CASE dir = "full" /\ Goto(p, "close", "failed") /\ Unlink(p)
        <3>1. /\ pc' \in [Responders -> {"start", "create", "close", "remove", "ok", "failed"}]
              /\ FailsOnlyForCause'
            BY <2>2, GotoKeeps DEF Unlink, Unfit
        <3> QED BY <2>2, <3>1, UnlinkKeeps, Zenon DEF Goto, ProbeInv, ProbeTypeOK, NoProbeYet, Unlink
    <2> QED BY <1>3, <2>1, <2>2 DEF Close
<1>4. ASSUME NEW p \in Responders, Remove(p) PROVE ProbeInv'
    <2>1. /\ pc' \in [Responders -> {"start", "create", "close", "remove", "ok", "failed"}]
          /\ FailsOnlyForCause'
        BY <1>4, GotoKeeps DEF Remove, Unlink, Unfit
    <2> QED BY <1>4, <2>1, UnlinkKeeps, Zenon DEF Remove, Goto, ProbeInv, ProbeTypeOK, NoProbeYet, Unlink
<1>5. ASSUME NEW p \in Responders, Restart(p) PROVE ProbeInv'
    <2> USE DEF ProbeInv, ProbeTypeOK, Restart
    <2>1. ProbeTypeOK'
        BY <1>5
    <2>2. NoLitter'
        BY <1>5 DEF NoLitter
    <2> QED BY <1>5, <2>1, <2>2 DEF FailsOnlyForCause, NoProbeYet
<1>6. CASE Change
    BY <1>6, Zenon DEF Change, ProbeInv, ProbeTypeOK, NoProbeYet, FailsOnlyForCause, NoLitter
<1>7. CASE Sweep
    BY <1>7 DEF Sweep, ProbeInv, ProbeTypeOK, NoProbeYet, FailsOnlyForCause, NoLitter
<1>8. CASE UNCHANGED probeVars
    BY <1>8 DEF probeVars, ProbeInv, ProbeTypeOK, NoProbeYet, FailsOnlyForCause, NoLitter
<1> QED
    BY <1>1, <1>2, <1>3, <1>4, <1>5, <1>6, <1>7, <1>8 DEF ProbeNext, ensureACMECacheDir

LEMMA AlwaysProbeInv == ProbeSpec => []ProbeInv
BY InitProbeInv, NextProbeInv, PTL DEF ProbeSpec

\* A responder is refused the directory only if the directory was unfit at
\* some moment since it started, however many others probe it.
THEOREM ProbeFailsForCause == ProbeSpec => []FailsOnlyForCause
<1>1. ProbeInv => FailsOnlyForCause
    BY DEF ProbeInv
<1> QED BY AlwaysProbeInv, <1>1, PTL

\* A file in the directory belongs to a probe under way, or to one that was
\* killed or could not remove it.
THEOREM ProbeLeavesNothing == ProbeSpec => []NoLitter
<1>1. ProbeInv => NoLitter
    BY DEF ProbeInv
<1> QED BY AlwaysProbeInv, <1>1, PTL
=============================================================================
