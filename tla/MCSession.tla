------------------------------ MODULE MCSession ------------------------------
(* Small instances of Session: the lines and calls of a few real operations.  *)
EXTENDS Session, TLC

Line(verb, arg, kind) == [verb |-> verb, arg |-> arg, kind |-> kind]
Op(op, lines) == [op |-> op, lines |-> lines]

EnterPort == Line("interface", 1, "enter")
PortName  == Line("port-name", 1, "sub")
Leave     == Line("exit", 0, "exit")
NoVlan2   == Line("no", 2, "global")
NoVlan3   == Line("no", 3, "global")
Optical   == Line("optical-monitor", 0, "shared")
Gateway   == Line("ip", 1, "global")
Address   == Line("ip", 2, "addr")
Hostname  == Line("hostname", 1, "name")
ShowArp   == Line("show", 1, "show")
Injected  == Line("port-name", 9, "ctrl")

Words == {"configure", "end", "write", "show", "none", "interface", "port-name", "exit",
          "no", "optical-monitor", "ip", "hostname"}

GetRunningConfig == Op("show", <<>>)
WriteMemory      == Op("save", <<>>)
CloseClient      == Op("close", <<>>)
PortApply        == Op("config", <<EnterPort, PortName, Leave>>)
PortUnnamed      == Op("config", <<EnterPort, PortName>>)
DropVlan2        == Op("config", <<NoVlan2>>)
DropVlan3        == Op("config", <<NoVlan3>>)
SystemUpdate     == Op("config", <<Optical>>)
Nothing          == Op("config", <<>>)
Unsafe           == Op("config", <<EnterPort, Injected>>)
Rename           == Op("prompt", <<Hostname>>)
Readdress        == Op("sever", <<Gateway, Address>>)
UnsafeReaddress  == Op("sever", <<Gateway, Injected>>)
NoReaddress      == Op("sever", <<>>)
Arp              == Op("execute", <<ShowArp>>)

\* Every kind of call, for runs in which every answer arrives in time.
AllKinds == {GetRunningConfig, WriteMemory, CloseClient, PortUnnamed, Nothing, Unsafe,
             Rename, Readdress, UnsafeReaddress, NoReaddress, Arp}
\* The steps of operations that delete, rename, save and refresh.
DeleteSaveRefresh == {GetRunningConfig, WriteMemory, DropVlan2, DropVlan3, Rename}
\* One call of each shape of conversation: for liveness.
EveryShape == {CloseClient, DropVlan2, Rename, Readdress}
\* A read and a change.
Refresh == {GetRunningConfig, DropVlan2}
\* A port operation that may stop half way, and icx_system's global switch.
PortAndSystem == {PortApply, SystemUpdate, WriteMemory}

SSH == {"ssh"}
EchoingTelnet == {"telnetEcho"}
SSHOrEcho == {"ssh", "telnetEcho"}

AnyCaller == Permutations(Callers)
=============================================================================
