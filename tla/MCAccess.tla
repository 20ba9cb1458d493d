------------------------------ MODULE MCAccess ------------------------------
(* A restricted prefix inside another one, two consumers, and configurations*)
(* with both rules, with the wide one for both, and with none.              *)
EXTENDS Access

MCWide == <<"p", "a">>
MCDeep == <<"p", "a", "b">>
MCPrefixes == {MCWide, MCDeep}
MCNames == {<<"p", "a", "b", "1">>}

MCRule(p, C) == [prefix |-> p, consumers |-> C]
MCConfigs == {{MCRule(MCWide, {"x"}), MCRule(MCDeep, {"y"})}, {MCRule(MCWide, {"x", "y"})}, {}}
=============================================================================
