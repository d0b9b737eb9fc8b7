---------------------------- MODULE FlowCapture ----------------------------
(***************************************************************************)
(* The flow collector, configured from the environment of supervisord:     *)
(* supervisor_config.py decides which programs run, flowcap.sh writes the  *)
(* collector's sensor.conf, updates the firewall and becomes flowcap.      *)
(*                                                                         *)
(* Composed with OnaConfig, which decides that environment.  A key is a    *)
(* pair: <<i, attribute>> stands for OBSRVBL_IPFIX_PROBE_i_attribute.      *)
(***************************************************************************)
EXTENDS OnaConfig, Sequences

CONSTANTS
    Indices,            \* the probe indices, sorted as strings
    Ifaces,             \* OBSRVBL_PNA_IFACES, sorted
    StartPort,          \* OBSRVBL_YAF_START_PORT
    Number,             \* what int() makes of a value; NotANumber if it raises
    MaxFirewallFailures \* bound on failures of ipset

Yaf == <<"YAF", "CAPTURER">>
Ipfix == <<"IPFIX", "CAPTURER">>
PROBE_TYPES == {"netflow-v9", "netflow-v5", "ipfix", "sflow"}
Protocols == {"udp", "tcp"}
NotANumber == -1

ASSUME ProbesAssumption ==
    Indices \in Seq(STRING) /\ Ifaces \in Seq(STRING) /\ StartPort \in Int
ASSUME FirewallAssumption == MaxFirewallFailures \in Nat
ASSUME KeysAssumption ==
    {Yaf, Ipfix} \union {<<Indices[k], a>> : k \in 1 .. Len(Indices), a \in {"TYPE", "PORT", "PROTOCOL"}}
        \subseteq Keys

VARIABLES
    flowcap,  \* how far flowcap.sh has come
    sensor,   \* the probes of sensor.conf, once flowcap.sh has written it
    created,  \* the protocols whose ipset exists
    opened,   \* the ports in the ipsets, with their protocol
    rules,    \* how often INPUT has the rule of a protocol
    failures

flow == <<flowcap, sensor, created, opened, rules, failures>>
flowVars == <<vars, flow>>

FlowInit ==
    /\ Init
    /\ flowcap = "off" /\ sensor = {} /\ created = {} /\ opened = {}
    /\ rules = [p \in Protocols |-> 0] /\ failures = 0

-----------------------------------------------------------------------------
\* FlowcapConfig.update: the probes of the user come before those of yaf, since
\* digits sort before the names of interfaces.
UserProbe(env, i) ==
    [name |-> i, type |-> env[<<i, "TYPE">>], local |-> FALSE,
     port |-> IF env[<<i, "PORT">>] = Absent THEN 0 ELSE Number[env[<<i, "PORT">>]],
     protocol |-> IF env[<<i, "PROTOCOL">>] = Absent THEN "udp" ELSE env[<<i, "PROTOCOL">>]]

\* Mutant: the protocol of yaf's probes is left to its default.
YafProbeUdp(k) ==
    [name |-> Ifaces[k], type |-> "ipfix", local |-> TRUE, port |-> StartPort + k - 1, protocol |-> "udp"]

YafProbe(k) ==
    [name |-> Ifaces[k], type |-> "ipfix", local |-> TRUE, port |-> StartPort + k - 1, protocol |-> "tcp"]

ProbeConfig(env) ==
    [k \in 1 .. Len(Indices) |-> UserProbe(env, Indices[k])]
        \o (IF env[Yaf] = "true" THEN [k \in 1 .. Len(Ifaces) |-> YafProbe(k)] ELSE << >>)

Typed(p) == p.type \in PROBE_TYPES
ValidPort(port) == 1024 <= port /\ port <= 65535
Valid(p) == Typed(p) /\ ValidPort(p.port) /\ p.protocol \in Protocols

\* valid_probes, by their places among the probes.
valid_probes(env) == {k \in DOMAIN ProbeConfig(env) : Valid(ProbeConfig(env)[k])}

\* The message about a PORT that is no number names the previous probe's port,
\* which the first probe does not have.
Raises(env) ==
    LET ps == ProbeConfig(env)
        typed == {k \in DOMAIN ps : Typed(ps[k])}
    IN  \E k \in typed : ps[k].port = NotANumber /\ \A h \in typed : k <= h

\* Mutant: duplicates are told by their port alone.
SensorConfByPort(env) ==
    LET ps == ProbeConfig(env)
    IN  {ps[k] : k \in {j \in valid_probes(env) :
                          \A h \in valid_probes(env) : h < j => ps[h].port # ps[j].port}}

\* The first probe of a port and a protocol is the one that is written.
SensorConf(env) ==
    LET ps == ProbeConfig(env)
        Same(p, q) == p.port = q.port /\ p.protocol = q.protocol
    IN  {ps[k] : k \in {j \in valid_probes(env) :
                          \A h \in valid_probes(env) : h < j => ~Same(ps[h], ps[j])}}

\* Mutant: probes of the local host are opened too.
PortsOfAll(env, protocol) ==
    LET ps == ProbeConfig(env)
    IN  {<<protocol, ps[k].port>> : k \in {j \in valid_probes(env) : ps[j].protocol = protocol}}

Ports(env, protocol) ==
    LET ps == ProbeConfig(env)
    IN  {<<protocol, ps[k].port>> :
            k \in {j \in valid_probes(env) : ps[j].protocol = protocol /\ ~ps[j].local}}

\* SupervisorConfig.update, as far as the flow services go.
Programs(env) ==
    LET collector == {<<"ona-ipfix-monitor">>, <<"ona-ipfix-pusher">>}
    IN  (IF env[Yaf] = "true"
            THEN collector \union {<<"ona-yaf-monitor", Ifaces[k], StartPort + k - 1>> : k \in 1 .. Len(Ifaces)}
            ELSE {})
        \union (IF env[Ipfix] = "true" THEN collector ELSE {})

-----------------------------------------------------------------------------
\* flowcap_config.py -w, in a shell that ends when a command fails.
WriteSensorConf ==
    /\ flowcap = "off" /\ up /\ <<"ona-ipfix-monitor">> \in Programs(running)
    /\ ~Raises(running)
    /\ sensor' = SensorConf(running)
    /\ flowcap' = "conf"
    /\ UNCHANGED <<vars, created, opened, rules, failures>>

\* flowcap_config.py -f: `ipset restore -exist` adds to the sets where it succeeds.
\* A rule is appended if `iptables -C` does not find it; where there is no set it
\* has another error, so that no rule is added.
Restore(ok) ==
    /\ flowcap = "conf"
    /\ created' = created \union ok
    /\ opened' = opened \union UNION {Ports(running, p) : p \in ok}
    /\ rules' = [p \in Protocols |-> IF p \in created' /\ rules[p] = 0 THEN 1 ELSE rules[p]]
    /\ flowcap' = "on"
    /\ UNCHANGED <<vars, sensor>>

OpenPorts == Restore(Protocols) /\ UNCHANGED failures

\* ipset fails for a protocol or both, and the script goes on.
RestoreFails ==
    /\ failures < MaxFirewallFailures
    /\ failures' = failures + 1
    /\ \E ok \in SUBSET Protocols : ok # Protocols /\ Restore(ok)

Flowcap == WriteSensorConf \/ OpenPorts \/ RestoreFails

\* supervisord takes its programs with it; sensor.conf is written before it is read
\* again.
Beside(Step) ==
    /\ Step
    /\ IF up' THEN UNCHANGED <<flowcap, sensor>> ELSE flowcap' = "off" /\ sensor' = {}
    /\ UNCHANGED <<created, opened, rules, failures>>

Configure == Beside(Next)

FlowNext == Configure \/ Flowcap

FlowSpec == FlowInit /\ [][FlowNext]_flowVars

FlowFairSpec ==
    /\ FlowSpec
    /\ WF_vars(Beside(Execute)) /\ WF_vars(Beside(Scripts))
    /\ SF_vars(Beside(Retrieve)) /\ SF_vars(Beside(Report))
    /\ WF_flow(Flowcap)

-----------------------------------------------------------------------------
\* "one monitor per interface, one IPFIX receiver": supervisor_config.py and
\* flowcap_config.py count the ports of the yaf monitors apart, and agree: the
\* collector listens to every monitor, unless a probe of the user has its port.
\* Monitors with a port that flowcap_config.py takes for invalid have no receiver.
MonitorsHaveReceivers ==
    flowcap = "on" =>
        \A m \in Programs(running) : m[1] = "ona-yaf-monitor" /\ ValidPort(m[3]) =>
            \E s \in sensor :
                /\ s.port = m[3] /\ s.protocol = "tcp"
                /\ s.name = m[2] \/ <<"tcp", m[3]>> \in Ports(running, "tcp")

\* The firewall has one rule per protocol, and every open port is the port config.local
\* or a configuration of the site, now or formerly, gives to a probe on this sensor:
\* a yaf port is never opened, nor one that config.local has replaced by another.
OpenedHaveCauses ==
    /\ \A p \in Protocols : rules[p] <= 1
    /\ \A o \in opened : \E c \in had \union {Empty}, k \in 1 .. Len(Indices) :
           LET port == Effective(c)[<<Indices[k], "PORT">>]
           IN  port # Absent /\ Number[port] = o[2]

\* The services' environment has a PROTOCOL of probe i that the configuration c does
\* not give it: the shell still had it from an earlier one.
LeftOver(c, i) ==
    LET protocol == <<i, "PROTOCOL">>
    IN  /\ Effective(c)[protocol] = Absent
        /\ \E d \in had \ {c} : d[protocol] # Absent /\ running[protocol] = d[protocol]

\* The probes are served: when the site settles on a configuration that, with the
\* defaults and config.local, has a collector, every probe there is then, whether
\* its protocol is given or the default, is at last listened to and open, if it is
\* valid, if no PROTOCOL of an earlier configuration is left over for it, if no other
\* probe of the services' environment has its port and protocol, if the first port of
\* that environment is a number, and if ipset did not fail.
ProbesServed ==
    \A c \in SiteConfigs, k \in 1 .. Len(Indices) :
        LET p == UserProbe(Effective(c), Indices[k])
            Alone == \A q \in 1 .. Len(Indices) :
                        LET r == UserProbe(running, Indices[q])
                        IN  q # k => <<r.port, r.protocol>> # <<p.port, p.protocol>> \/ ~Valid(r)
        IN  Valid(p) /\ Effective(c)[Ipfix] = "true"
            => (<>[](site = c /\ Stable(c) /\ scriptKills = 0 /\ failures = 0)
                  => <>[](\/ Raises(running) \/ ~Alone \/ LeftOver(c, Indices[k])
                          \/ p \in sensor /\ <<p.protocol, p.port>> \in opened))
=============================================================================
