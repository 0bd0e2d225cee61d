--------------------------- MODULE Configuration ---------------------------
(***************************************************************************)
(* The settings of the commands: how a YAML file becomes a barrage         *)
(* configuration (config/config.go), what the validators accept            *)
(* (config/validate.go, cmd/barrage.go, web/web.go) and, apart from them,  *)
(* what the pipelines take for granted of the settings they are given.     *)
(*                                                                         *)
(* An address is one of the classes of IPs, or a string net.ParseIP        *)
(* refuses; a CIDR range likewise.  An int and a time.Duration are signed  *)
(* and end at MaxInt, and a product of them wraps.                         *)
(***************************************************************************)
EXTENDS Integers, Sequences

CONSTANTS
    MaxInt,         \* 2^63 - 1: the largest int, and the longest time.Duration
    Millisecond,    \* 10^6 and 10^9: time.Millisecond and time.Second
    Second,
    MaxCounter      \* 2^31 - 1: the largest counter of a sync.WaitGroup

ASSUME IntegersAssumption ==
    /\ MaxInt \in Nat /\ MaxCounter \in Nat
    /\ Millisecond \in Nat \ {0} /\ Second \in Nat \ {0}

MaxTargets == 10

IPs == {"ip4", "ip6", "loopback4", "loopback6"}
ParseIP(s) == s \in IPs
IsLoopback(s) == s \in {"loopback4", "loopback6"}
ParseCIDR(s) == s \in {"cidr4", "cidr6"}
ValidPort(p) == p \in 1..65535

-----------------------------------------------------------------------------
(* LoadBarrageConfig.  A value of the target's map is [kind, v]: "int" (int, *)
(* int64, or a float64 without a fraction), "fraction", "digits" (a string   *)
(* that Atoi reads as v), "text" (any other string), "bool" or "other".      *)

GetString(m, key, def) ==
    IF key \in DOMAIN m /\ m[key].kind = "text" THEN m[key].v
    ELSE IF key \in DOMAIN m /\ m[key].kind = "digits" THEN "digits" ELSE def

GetIntFails(m, key) == key \in DOMAIN m /\ m[key].kind \notin {"int", "digits"}
GetInt(m, key, def) == IF key \in DOMAIN m THEN m[key].v ELSE def

GetBool(m, key, def) ==
    IF key \notin DOMAIN m THEN def
    ELSE CASE m[key].kind = "bool" -> m[key].v
           [] m[key].kind = "text" -> m[key].v \in {"true", "yes"}
           [] m[key].kind = "digits" -> m[key].v = 1
           [] OTHER -> def

IntKeys == {"port", "workers", "delay", "template-interval", "web-port"}

LoadFails(m) == \E key \in IntKeys : GetIntFails(m, key)

\* The certificate and the profile are flags in either case.
LoadBarrageConfig(m, flags) ==
    [server |-> GetString(m, "ip", "loopback4"),
     port |-> GetInt(m, "port", 9995),
     workers |-> GetInt(m, "workers", 4),
     delay |-> GetInt(m, "delay", 100),
     srcRange |-> GetString(m, "src-range", "cidr4"),
     dstRange |-> GetString(m, "dst-range", "cidr4"),
     templateInterval |-> GetInt(m, "template-interval", 30),
     webIP |-> GetString(m, "web-ip", "loopback4"),
     webPort |-> GetInt(m, "web-port", 8080),
     web |-> GetBool(m, "web", FALSE),
     protocol |-> GetString(m, "protocol", "netflow"),
     username |-> GetString(m, "web-username", ""),
     password |-> GetString(m, "web-password", ""),
     tls |-> flags.tls]

-----------------------------------------------------------------------------
(* The validators *)

ValidateRecord(c) == ParseIP(c.ip) /\ ValidPort(c.port) /\ c.db # ""

ValidateReplay(c) ==
    /\ ParseIP(c.server) /\ ValidPort(c.port)
    /\ c.delay > 0
    /\ c.db # ""
    /\ c.workers >= 1

\* A target without a port, or with one that is no number, has port 0 here.
ValidateProxy(c) ==
    /\ ParseIP(c.ip) /\ ValidPort(c.port)
    /\ Len(c.targets) \in 1..MaxTargets
    /\ \A i \in DOMAIN c.targets : ParseIP(c.targets[i].host) /\ ValidPort(c.targets[i].port)

ValidateProtocol(c) == c.protocol \in {"netflow", "ipfix"}

ValidateTemplateInterval(c) == c.templateInterval >= 0

ValidateBarrage(c) ==
    /\ ParseIP(c.server) /\ ValidPort(c.port)
    /\ ParseCIDR(c.srcRange) /\ ParseCIDR(c.dstRange)
    /\ c.workers >= 1
    /\ c.delay > 0
    /\ c.templateInterval >= 0

EffectiveWebIP(ip) == IF ip = "" THEN "loopback4" ELSE ip

\* cmd's validateWebBinding; env: the environment names a user or a password.
ValidateCredentials(c, env) ==
    LET ip == EffectiveWebIP(c.webIP)
    IN  ParseIP(ip) /\ (IsLoopback(ip) \/ c.username # "" \/ c.password # "" \/ env)

ValidateWeb(c) == ParseIP(EffectiveWebIP(c.webIP)) /\ ValidPort(c.webPort)

\* c.tls: "none", "one" (certificate or key alone), "missing" (both named, one
\* is not there) or "both".
UseTLS(c) == c.tls \in {"missing", "both"}

\* Mutant of ValidateWebBinding: the certificate alone counts as TLS.
ValidateWebBindingHalf(c) == c.tls \in {"one", "both"} \/ IsLoopback(EffectiveWebIP(c.webIP))

\* web.ValidateWebBinding
ValidateWebBinding(c) ==
    /\ c.tls # "one"
    /\ UseTLS(c) \/ IsLoopback(EffectiveWebIP(c.webIP))
    /\ c.tls # "missing"

\* What the command checks before it sets anything up; `single` and `ipfix`
\* check nothing.
Valid(command, c, env) ==
    /\ command = "record" => ValidateRecord(c)
    /\ command = "replay" => ValidateReplay(c)
    /\ command = "proxy" => ValidateProxy(c)
    /\ command = "barrage" =>
          /\ ValidateProtocol(c) /\ ValidateTemplateInterval(c) /\ ValidateBarrage(c)
          /\ c.web => ValidateCredentials(c, env) /\ ValidateWeb(c) /\ ValidateWebBinding(c)

-----------------------------------------------------------------------------
(* What the pipelines take for granted *)

\* net.ListenUDP with the nil address of a failed ParseIP listens everywhere.
Listens(ip, port) == ParseIP(ip) /\ ValidPort(port)

\* The result of net.ParseIP is used unchecked.
Sends(server, port) == ParseIP(server) /\ ValidPort(port)

\* time.Duration(n) * unit, of 64 bits.
Duration(n, unit) == ((n * unit + MaxInt + 1) % (2 * (MaxInt + 1))) - (MaxInt + 1)

\* time.NewTicker panics unless its period is positive.
Ticks(n, unit) == Duration(n, unit) > 0

\* The tickers of a pipeline's workers.
Ticking(command, c) ==
    /\ command \in {"replay", "barrage"} => Ticks(c.delay, Millisecond)
    /\ command = "barrage" /\ c.templateInterval > 0 => Ticks(c.templateInterval, Second)

\* Who shares the WaitGroup with the workers: replay's reader, or barrage's
\* collector and web server.
Companions(command, c) == IF command = "barrage" /\ c.web THEN 2 ELSE 1

\* A WaitGroup panics when its counter overflows or goes below zero, and make(chan)
\* for lengths a counter is far from; with no worker nobody empties replay's channel.
Employs(command, c) == c.workers >= 1 /\ c.workers + Companions(command, c) <= MaxCounter

\* `single` and `ipfix` listen on a port of their own, 0 for a random one, and
\* need the ranges once there is a packet of flows to fill.
Opens(c) == Sends(c.server, c.port) /\ c.srcPort \in 0..65535
Generates(c) == c.count >= 1 => ParseCIDR(c.srcRange) /\ ParseCIDR(c.dstRange)

\* RunWebServer goes on after its own check, with certificates it can read.
WebStarts(c) ==
    LET ip == EffectiveWebIP(c.webIP)
    IN  /\ UseTLS(c) \/ IsLoopback(ip)
        /\ UseTLS(c) => c.tls = "both"

\* proxy.RunCtx refuses other targets itself.
Relays(targets) ==
    /\ targets # <<>> /\ Len(targets) <= MaxTargets
    /\ \A i \in DOMAIN targets : Sends(targets[i].host, targets[i].port)

Runnable(command, c) ==
    /\ command = "record" => Listens(c.ip, c.port)
    /\ command = "proxy" => Listens(c.ip, c.port) /\ Relays(c.targets)
    /\ command \in {"replay", "barrage"} =>
          Sends(c.server, c.port) /\ Ticking(command, c) /\ Employs(command, c)
    /\ command = "barrage" =>
          /\ ParseCIDR(c.srcRange) /\ ParseCIDR(c.dstRange)
          /\ c.web => WebStarts(c)
    /\ command \in {"single", "ipfix"} => Opens(c) /\ Generates(c)

\* A goroutine of the pipeline may panic.
Panics(command, c) ==
    /\ command \in {"replay", "barrage"}
    /\ ~Ticking(command, c) \/ ~Employs(command, c)

\* What no validator asks: that the durations fit 64 bits and the goroutines a
\* WaitGroup.
InRange(command, c) ==
    /\ command \in {"replay", "barrage"} =>
          /\ c.delay \in Nat /\ c.delay * Millisecond <= MaxInt
          /\ c.workers \in Nat /\ c.workers + Companions(command, c) <= MaxCounter
    /\ command = "barrage" => c.templateInterval \in Nat /\ c.templateInterval * Second <= MaxInt

\* listenAddr := ip + ":" + port, which net.Listen splits at its only colon.
Colons(ip) == IF ip \in {"ip6", "loopback6"} THEN 2 ELSE 0
ListenAddrColons(c) == Colons(EffectiveWebIP(c.webIP)) + 1
SplitHostPort(colons) == colons = 1
=============================================================================
