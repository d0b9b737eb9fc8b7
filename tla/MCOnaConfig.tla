---------------------------- MODULE MCOnaConfig ----------------------------
\* A probe of the site, one of the operator, and a yaf monitor.
EXTENDS FlowCapture, TLC

MCKeys == {Yaf, Ipfix} \union ({"1", "2"} \X {"TYPE", "PORT", "PROTOCOL"})

Conf(settings) == [k \in MCKeys |-> IF k \in DOMAIN settings THEN settings[k] ELSE Absent]
Probe(i, type, port) == (<<i, "TYPE">> :> type) @@ (<<i, "PORT">> :> port)
Tcp(i) == <<i, "PROTOCOL">> :> "tcp"

\* config turns both collectors off; the operator turns IPFIX on and adds probe 2.
MCDefaults == Conf((Yaf :> "false") @@ (Ipfix :> "false"))
MCLocal == Conf((Ipfix :> "true") @@ Probe("2", "ipfix", "4740"))

\* The site turns the monitors on and IPFIX off, and has two probes on the port of a
\* monitor, the second of which has another port in config.local; it has a probe with
\* the default protocol, beside that of config.local; and one whose port is no number.
MCConfigs ==
    {Conf((Yaf :> "true") @@ (Ipfix :> "false") @@ Probe("1", "netflow-v9", "4740")
            @@ Probe("2", "ipfix", "2055") @@ Tcp("2")),
     Conf(Probe("1", "netflow-v9", "2055")),
     Conf(Probe("1", "sflow", CR) @@ Tcp("1"))}
MCIndices == <<"1", "2">>
MCIfaces == <<"eth0", "eth1">>
MCNumber ==
    [x \in {"2055", "4740", CR} |->
        CASE x = "2055" -> 2055 [] x = "4740" -> 4740 [] OTHER -> NotANumber]
=============================================================================
