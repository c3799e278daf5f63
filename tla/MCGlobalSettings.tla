-------------------------- MODULE MCGlobalSettings --------------------------
(* Small instances of GlobalSettings: up to two resources, a few plans each. *)
EXTENDS GlobalSettings

TwoAccounts == {"admin", "guest"}
Admin == "admin"

OutOfTheBox ==
  [key \in Settings |-> CASE key = "hostname" -> "old"
                          [] key = "address" -> "here"
                          [] key = "admin" -> "first"
                          [] OTHER -> Default(key)]

System(name, telnet, optical, keep) ==
  [hostname |-> name, telnet_server |-> telnet, optical_monitor |-> optical, keep |-> keep]
Management(address, gateway, dns, allow, keep) ==
  [address |-> address, gateway |-> gateway, dns |-> dns, allow |-> allow, keep |-> keep]
NTP(timezone, servers, serve) == [timezone |-> timezone, servers |-> servers, serve |-> serve]
Logging(hosts, facility) == [hosts |-> hosts, facility |-> facility]
SNMP(communities, contact) == [communities |-> communities, contact |-> contact]
AAA(login, console) == [login |-> login, console |-> console]
VE(address, lines) == [ve_address |-> address, ve_lines |-> lines]
VLAN(name, router, stp, priority, lines) ==
  [vlan_name |-> name, router_interface |-> router, spanning_tree |-> stp, stp_priority |-> priority,
   vlan_lines |-> lines]
User(username, password) == [username |-> username, password |-> password]
PoE(power) == [power |-> power]
Raw(lines, destroy, expect) == [lines |-> lines, destroy |-> destroy, expect |-> expect]

FewPlans ==
  [system |-> {System("new", FALSE, TRUE, {}), System(None, FALSE, FALSE, {"hostname"})},
   management_ip |-> {Management("here", None, <<"d1">>, FALSE, {"gateway"}),
                      Management("there", "far", <<"d2", "d1">>, TRUE, {}),
                      Management("there", "near", <<>>, FALSE, {"dns"})},
   ntp |-> {NTP("us pacific", <<"n1">>, FALSE), NTP(None, <<"n2", "n1">>, TRUE)},
   logging |-> {Logging(<<"s1", "s2">>, None), Logging(<<"s2">>, "local7")},
   snmp |-> {SNMP(<<"public">>, "noc"), SNMP(<<"private">>, None)},
   aaa |-> {AAA("local", TRUE), AAA("tacacs", FALSE), AAA(None, TRUE)},
   interface_ve |-> {VE("ten", <<"l1">>), VE("twenty", <<>>), VE(None, <<"l1", "l2">>)},
   vlan |-> {VLAN("lab", "ve7", TRUE, "low", <<"l1">>), VLAN("lab", "ve8", FALSE, "low", <<"l2">>),
             VLAN("shop", None, TRUE, None, <<>>), VLAN(None, "ve7", TRUE, "high", <<"l1">>)},
   user |-> {User("guest", "first"), User("admin", "second")},
   poe |-> {PoE(TRUE), PoE(FALSE)},
   raw_config |-> {Raw(<<"r1", "r2">>, <<>>, {"r1"}), Raw(<<"r2">>, <<"r2", "r3">>, {})}]

Together == {{"system", "management_ip"}, {"ntp", "poe"}, {"user", "raw_config"}, {"logging"},
             {"snmp"}, {"aaa"}, {"interface_ve"}, {"vlan"}}
=============================================================================
