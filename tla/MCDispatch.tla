----------------------------- MODULE MCDispatch -----------------------------
(* Small instances of Dispatch for TLC. *)
EXTENDS Dispatch

MCKeys == {"a"}
MCSources == {"a", "v6"}
MCPorts == {1, 2, 3}
TwoPorts == {1, 2}

\* TCP port 1 is forwarded, port 2 has a handler, port 3 has no rule.  The
\* filter of the first rule ("port 1") also matches UDP, where its target
\* names no handler.
proxyRule == [match |-> {<<"tcp", 1>>, <<"udp", 1>>}, type |-> "proxy_tcp",
              target |-> "upstream"]
handlerRule == [match |-> {<<"tcp", 1>>, <<"tcp", 2>>},
                type |-> "conn_handler", target |-> "http"]
MCRuleList == <<proxyRule, handlerRule>>
MCRules == {proxyRule, handlerRule, fallbackRule("tcp"), fallbackRule("udp")}
MCTCPHandlers == {"http", "proxy_tcp"}
MCUDPHandlers == {"udp"}
=============================================================================
