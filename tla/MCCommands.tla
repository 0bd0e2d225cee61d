---------------------------- MODULE MCCommands ----------------------------
(* Model-checking instance of Commands: for every command a good set of     *)
(* flags, and every one that differs from it in up to two settings.         *)
EXTENDS Commands, FiniteSets

GoodRecord == [ip |-> "ip4", port |-> 9995, db |-> "dir"]
GoodReplay == [server |-> "ip4", port |-> 9995, delay |-> 100, db |-> "dir", workers |-> 1]
GoodTarget == [host |-> "ip6", port |-> 9995]
GoodProxy == [ip |-> "loopback4", port |-> 9995, targets |-> <<GoodTarget>>]
GoodBarrage ==
    [server |-> "ip4", port |-> 9995, workers |-> 4, delay |-> 100,
     srcRange |-> "cidr4", dstRange |-> "cidr6", templateInterval |-> 30,
     webIP |-> "loopback4", webPort |-> 8080, web |-> TRUE, protocol |-> "netflow",
     username |-> "", password |-> "", tls |-> "none"]

\* Flags of `single` and `ipfix`.
GoodSingle ==
    [server |-> "ip4", port |-> 9995, srcPort |-> 0, count |-> 1,
     srcRange |-> "cidr4", dstRange |-> "cidr6"]

Addresses == {"ip4", "ip6", "loopback4", "loopback6", "name", ""}

\* On both sides of the numbers whose product with a unit is MaxInt, or has gone
\* once around.
Around(unit) ==
    LET last == MaxInt \div unit  again == (2 * (MaxInt + 1)) \div unit
    IN  {last, last + 1, again, again + 1}

Choices(key) ==
    CASE key \in {"ip", "server", "webIP"} -> Addresses
      [] key \in {"port", "webPort"} -> {0, 1, 65535, 65536}
      [] key = "srcPort" -> {-1, 0, 65535, 65536}
      [] key = "count" -> {-1, 0, 1}
      [] key = "delay" -> {-1, 0, 1} \cup Around(Millisecond) \cup {MaxInt}
      [] key = "templateInterval" -> {-1, 0, 1} \cup Around(Second) \cup {MaxInt}
      [] key = "workers" -> {-1, 0, 1} \cup MaxCounter - 2..MaxCounter + 1 \cup {MaxInt}
      [] key \in {"srcRange", "dstRange"} -> {"cidr4", "cidr6", "ip4"}
      [] key = "protocol" -> {"netflow", "ipfix", "other"}
      [] key = "db" -> {"", "dir"}
      [] key = "web" -> BOOLEAN
      [] key \in {"username", "password"} -> {"", "given"}
      [] key = "tls" -> {"none", "one", "missing", "both"}
      [] key = "targets" ->
            {<<>>} \cup {<<GoodTarget, [host |-> h, port |-> p]>> :
                             h \in Addresses, p \in {0, 1, 65535, 65536}}
                   \cup {[i \in 1..n |-> GoodTarget] : n \in {MaxTargets, MaxTargets + 1}}

Near(good) ==
    UNION {{[[good EXCEPT ![k] = a] EXCEPT ![l] = b] : a \in Choices(k), b \in Choices(l)} :
              k, l \in DOMAIN good}

\* Values of a YAML key, and the files that set up to two of them.
RawKeys == {"ip", "delay", "workers", "src-range", "web", "web-ip", "web-password"}
RawValues ==
    {[kind |-> "int", v |-> 0], [kind |-> "int", v |-> 1], [kind |-> "digits", v |-> 1],
     [kind |-> "fraction", v |-> 1], [kind |-> "text", v |-> "true"],
     [kind |-> "digits", v |-> MaxInt], [kind |-> "text", v |-> "ip6"], [kind |-> "bool", v |-> TRUE], [kind |-> "other", v |-> 0]}
RawMaps == UNION {[ks -> RawValues] : ks \in {s \in SUBSET RawKeys : Cardinality(s) <= 2}}

Invocation(c, settings) ==
    [command |-> c, flags |-> "ok", file |-> "none", env |-> FALSE, raw |-> <<>>, cfg |-> settings]

NearMisses ==
    {Invocation("record", c) : c \in Near(GoodRecord)}
        \cup {Invocation("replay", c) : c \in Near(GoodReplay)}
        \cup {Invocation("proxy", c) : c \in Near(GoodProxy)}
        \cup {Invocation("barrage", c) : c \in Near(GoodBarrage)}
        \cup {Invocation(s, c) : s \in {"single", "ipfix"}, c \in Near(GoodSingle)}

FromFiles ==
    {[Invocation("barrage", [GoodBarrage EXCEPT !.tls = t]) EXCEPT !.file = "target", !.raw = m] :
        t \in {"none", "both"}, m \in RawMaps}

Others ==
    {Invocation(c, <<>>) : c \in {"none", "unknown", "help", "version"}}
        \cup {[Invocation("replay", GoodReplay) EXCEPT !.flags = f] : f \in {"bad", "help"}}
        \cup {[Invocation("barrage", GoodBarrage) EXCEPT !.file = f] : f \in {"unreadable", "no target"}}
        \cup {[Invocation("barrage", [GoodBarrage EXCEPT !.webIP = "ip4", !.tls = "both"])
                  EXCEPT !.env = e] : e \in BOOLEAN}

MCInvocations == NearMisses \cup FromFiles \cup Others
=============================================================================
