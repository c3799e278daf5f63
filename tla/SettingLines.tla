---------------------------- MODULE SettingLines ----------------------------
(***************************************************************************)
(* The global resources: how each turns a plan and what it knows of the    *)
(* switch into session calls, what its Read records, and what a line does. *)
(*                                                                         *)
(* The running configuration is a function from settings to values; a      *)
(* plan, or a state, is a record of a resource's attributes, which carry   *)
(* the names of their settings.  Attributes that differ only in the words  *)
(* of their line (the other switches of icx_system, a summer time beside a *)
(* time zone) are left out, and `allow' is allow_management_ip_change.     *)
(***************************************************************************)
EXTENDS Integers, SequencesExt

CONSTANTS Accounts,     \* the user names in play
          OwnAccount    \* the account the provider is logged in with

None == "none"
Absent == [absent |-> TRUE]

Lists == {"dns", "servers", "hosts", "communities", "lines", "ve_lines", "vlan_lines"}
OnByDefault == {"telnet_server", "serve", "power"}
OffByDefault == {"optical_monitor", "console", "ve", "vlan", "spanning_tree"}
Named == {"hostname", "address", "gateway", "timezone", "facility", "contact", "login",
          "ve_address", "vlan_name", "router_interface", "stp_priority"}
Unnamed == Lists \cup OnByDefault \cup OffByDefault \cup Named
Settings == Unnamed \cup Accounts

Default(key) ==
  CASE key \in Lists -> <<>>
    [] key \in OnByDefault -> TRUE
    [] key \in OffByDefault -> FALSE
    [] OTHER -> None

\* A line sets a setting (its `no' form sets the default), adds or removes an entry
\* of a list, or enters several entries at once.
Line(op, key, value) == [op |-> op, key |-> key, value |-> value]
ForEach(op, key, s) == [i \in DOMAIN s |-> Line(op, key, s[i])]

\* The entries of s that are not in t.
Without(s, t) ==
  LET kept[n \in 0..Len(s)] == IF n = 0 THEN <<>>
                               ELSE IF s[n] \in ToSet(t) THEN kept[n - 1]
                               ELSE Append(kept[n - 1], s[n])
  IN kept[Len(s)]

\* What goes with a setting that is turned off, and what a setting brings along.
Within(key) ==
  CASE key = "ve" -> {"ve_address", "ve_lines"}
    [] key = "vlan" -> {"vlan_name", "router_interface", "spanning_tree", "stp_priority", "vlan_lines"}
    [] key = "spanning_tree" -> {"stp_priority"}
    [] OTHER -> {}

Set(conf, key, value) ==
  LET gone == IF Within(key) # {} /\ ~value THEN Within(key) ELSE {} IN
  [k \in DOMAIN conf |-> IF k = key THEN value
                        ELSE IF k \in gone THEN Default(k)
                        ELSE IF k = "vlan" /\ key = "vlan_name" THEN TRUE ELSE conf[k]]

Effect(conf, l) ==
  CASE l.op = "set" -> Set(conf, l.key, l.value)
    [] l.op = "add" -> IF Contains(conf[l.key], l.value) THEN conf
                       ELSE [conf EXCEPT ![l.key] = Append(@, l.value)]
    [] l.op = "enter" -> [conf EXCEPT ![l.key] = @ \o Without(l.value, @)]
    [] l.op = "remove" -> [conf EXCEPT ![l.key] = Without(@, <<l.value>>)]

\* The configuration once these lines have run.
After(conf, lines) ==
  LET after[n \in 0..Len(lines)] == IF n = 0 THEN conf ELSE Effect(after[n - 1], lines[n])
  IN after[Len(lines)]

\* A session call: "config" (ExecuteInConfigMode), "hostname"
\* (ExecutePromptChanging), "risky" (ExecuteExpectingDisconnect) or "save".
Call(kind, lines) == [kind |-> kind, lines |-> lines]
Saving == <<Call("save", <<>>)>>
Config(lines) == IF lines = <<>> THEN <<>> ELSE <<Call("config", lines)>>
ConfigAndSave(lines) == IF lines = <<>> THEN <<>> ELSE Config(lines) \o Saving

IsList(s) == s \in Seq(ToSet(s))

\* A configuration the switch can be in.
ProperConf(conf) ==
  /\ DOMAIN conf = Settings
  /\ \A key \in Lists : IsList(conf[key])
  /\ {conf["ve"], conf["vlan"], conf["spanning_tree"]} \subseteq BOOLEAN

-----------------------------------------------------------------------------
(* The resources, and what is known of each.                                 *)

Attributes ==
  [system        |-> {"hostname", "telnet_server", "optical_monitor", "keep"},
   management_ip |-> {"address", "gateway", "dns", "allow", "keep"},
   ntp           |-> {"timezone", "servers", "serve"},
   logging       |-> {"hosts", "facility"},
   snmp          |-> {"communities", "contact"},
   aaa           |-> {"login", "console"},
   interface_ve  |-> {"ve_address", "ve_lines"},
   vlan          |-> {"vlan_name", "router_interface", "spanning_tree", "stp_priority", "vlan_lines"},
   user          |-> {"username", "password"},
   poe           |-> {"power"},
   raw_config    |-> {"lines", "destroy", "expect"}]
Resources == DOMAIN Attributes

\* An account is a setting of its own, under its name.
ASSUME SettingLinesAssumption ==
  /\ OwnAccount \in Accounts
  /\ Accounts \cap (Unnamed \cup UNION {Attributes[r] : r \in Resources}) = {}

\* What a plan, or a state, of a resource looks like.
Proper(r, w) ==
  /\ DOMAIN w = Attributes[r]
  /\ \A a \in (Lists \cup {"destroy"}) \cap DOMAIN w : IsList(w[a])
  /\ r = "user" => w.username \in Accounts
  /\ r = "vlan" => w.spanning_tree \in BOOLEAN
  /\ r = "management_ip" => w.allow \in BOOLEAN

\* What a plan may leave to the device; no name server is named twice.
ProperPlan(r, w) ==
  /\ Proper(r, w)
  /\ r = "system" => w.keep \subseteq {"hostname"}
  /\ r = "management_ip" => w.keep \subseteq {"gateway", "dns"} /\ IsInjective(w.dns)

-----------------------------------------------------------------------------
(* Lines from an old and a new record, and what Read records.                *)

\* The device defaults, which a Create takes for the old record without looking,
\* and a Delete for the new one.
Defaults(w) == [a \in DOMAIN w |-> IF a \in Settings THEN Default(a) ELSE w[a]]

Change(key, new, old) ==
  IF new[key] = old[key] THEN <<>> ELSE <<Line("set", key, new[key])>>
ChangeList(key, new, old) ==
  ForEach("remove", key, Without(old[key], new[key]))
    \o ForEach("add", key, Without(new[key], old[key]))

\* dnsServerCommands: order matters, so all go, one by one, and all come in one line.
ReplaceList(key, new, old) ==
  IF new[key] = old[key] THEN <<>>
  ELSE ForEach("remove", key, old[key])
         \o (IF new[key] = <<>> THEN <<>> ELSE <<Line("enter", key, new[key])>>)

\* The old value goes before a new one comes.
Swap(key, new, old) ==
  IF new[key] = old[key] THEN <<>>
  ELSE (IF old[key] = None THEN <<>> ELSE <<Line("set", key, None)>>)
         \o (IF new[key] = None THEN <<>> ELSE <<Line("set", key, new[key])>>)

\* Mutated: a switch's default is not recorded.
ReadAsSetOnly(state, keys, conf) ==
  [a \in DOMAIN state |-> IF a \in keys /\ conf[a] # Default(a) THEN conf[a] ELSE state[a]]

ReadAs(state, keys, conf) ==
  [a \in DOMAIN state |-> IF a \in keys THEN conf[a] ELSE state[a]]

-----------------------------------------------------------------------------
(* icx_system.                                                               *)

\* An omitted hostname stays what it is, or what the device has.
Keeping(plan, old, conf) ==
  IF "keep" \notin DOMAIN plan THEN plan
  ELSE [a \in DOMAIN plan |->
          IF a \notin plan.keep THEN plan[a] ELSE IF old = Absent THEN conf[a] ELSE old[a]]

SystemLines(new, old) == Change("telnet_server", new, old) \o Change("optical_monitor", new, old)

\* The hostname first, in a call of its own.
ApplyCommands(name, lines) ==
  (IF name = <<>> THEN <<>> ELSE <<Call("hostname", name)>>)
    \o Config(lines) \o (IF name \o lines = <<>> THEN <<>> ELSE Saving)

SystemCreate(plan) ==
  ApplyCommands(IF "hostname" \in plan.keep THEN <<>> ELSE Change("hostname", plan, Defaults(plan)),
                SystemLines(plan, Defaults(plan)))
SystemRead(state, conf) == ReadAs(state, {"hostname", "telnet_server", "optical_monitor"}, conf)
SystemUpdate(new, old) ==
  ApplyCommands(IF "hostname" \in new.keep THEN <<>> ELSE Change("hostname", new, old),
                SystemLines(new, old))
\* The hostname is not reset.
SystemDelete(old) == ConfigAndSave(SystemLines(Defaults(old), old))

-----------------------------------------------------------------------------
(* icx_management_ip.                                                        *)

\* Mutated: the address first.
RiskyAddressFirst(new, old) ==
  Change("address", new, old) \o (IF new.gateway = None THEN <<>> ELSE Change("gateway", new, old))

\* The gateway first, then the address.
Risky(new, old) ==
  (IF new.gateway = None THEN <<>> ELSE Change("gateway", new, old)) \o Change("address", new, old)

\* Mutated: an update of name servers alone is not saved.
ManagementCallsUnsaved(new, old) ==
  LET dns == ReplaceList("dns", new, old) IN
  IF Risky(new, old) = <<>> THEN Config(dns)
  ELSE Config(dns) \o <<Call("risky", Risky(new, old))>>

\* Name servers first; the batch saves by itself.
ManagementCalls(new, old) ==
  LET dns == ReplaceList("dns", new, old) IN
  IF Risky(new, old) = <<>> THEN ConfigAndSave(dns)
  ELSE Config(dns) \o <<Call("risky", Risky(new, old))>>

\* A create starts from the device's own addressing.
OnDevice(plan, conf) ==
  [plan EXCEPT !.address = conf["address"], !.gateway = conf["gateway"], !.dns = conf["dns"]]
ManagementCreate(plan, conf) == ManagementCalls(plan, OnDevice(plan, conf))
ManagementRead(state, conf) == ReadAs(state, {"address", "gateway", "dns"}, conf)
ManagementUpdate(new, old) == ManagementCalls(new, old)
\* The addressing is only forgotten.
ManagementDelete(old) == <<>>

-----------------------------------------------------------------------------
(* icx_ntp.                                                                  *)

NTPLines(new, old) ==
  Change("timezone", new, old) \o ChangeList("servers", new, old) \o Change("serve", new, old)
NTPCreate(plan) == ConfigAndSave(NTPLines(plan, Defaults(plan)))
NTPRead(state, conf) == ReadAs(state, {"timezone", "servers", "serve"}, conf)
NTPUpdate(new, old) == ConfigAndSave(NTPLines(new, old))
NTPDelete(old) == ConfigAndSave(NTPLines(Defaults(old), old))

(* icx_logging.                                                              *)

LoggingLines(new, old) == ChangeList("hosts", new, old) \o Change("facility", new, old)
LoggingCreate(plan) == ConfigAndSave(LoggingLines(plan, Defaults(plan)))
LoggingRead(state, conf) == ReadAs(state, {"hosts", "facility"}, conf)
LoggingUpdate(new, old) == ConfigAndSave(LoggingLines(new, old))
LoggingDelete(old) == ConfigAndSave(LoggingLines(Defaults(old), old))

(* icx_snmp.                                                                 *)

SNMPCreate(plan) ==
  ConfigAndSave(ForEach("add", "communities", plan.communities)
                  \o Change("contact", plan, Defaults(plan)))
\* Communities are not read, but all of them may be seen to be gone.
SNMPRead(state, conf) ==
  ReadAs(state, IF conf["communities"] = <<>> THEN {"contact", "communities"} ELSE {"contact"}, conf)
SNMPUpdate(new, old) ==
  ConfigAndSave(ChangeList("communities", new, old) \o Change("contact", new, old))
SNMPDelete(old) ==
  ConfigAndSave(ForEach("remove", "communities", old.communities)
                  \o Change("contact", Defaults(old), old))

(* icx_aaa.                                                                  *)

AAALines(plan) == Change("login", plan, Defaults(plan)) \o Change("console", plan, Defaults(plan))
AAACreate(plan) == ConfigAndSave(AAALines(plan))
AAARead(state, conf) == ReadAs(state, {"login", "console"}, conf)
\* What goes, then what comes or changes.
AAAUpdate(new, old) ==
  LET login == Change("login", new, old)
      console == Change("console", new, old) IN
  ConfigAndSave((IF new.login = None THEN login ELSE <<>>) \o (IF new.console THEN <<>> ELSE console)
                  \o (IF new.login = None THEN <<>> ELSE login) \o (IF new.console THEN console ELSE <<>>))
AAADelete(old) ==
  ConfigAndSave(Change("login", Defaults(old), old) \o Change("console", Defaults(old), old))

(* icx_interface_ve.                                                         *)

VELines(new, old) ==
  <<Line("set", "ve", TRUE)>> \o Swap("ve_address", new, old) \o ChangeList("ve_lines", new, old)
VECreate(plan) == ConfigAndSave(VELines(plan, Defaults(plan)))
VERead(state, conf) == IF conf["ve"] THEN ReadAs(state, {"ve_address"}, conf) ELSE Absent
VEUpdate(new, old) == ConfigAndSave(VELines(new, old))
VEDelete(old) == ConfigAndSave(<<Line("set", "ve", FALSE)>>)

(* icx_vlan, but for the trunks a Create looks for.                          *)

\* The line that enters the VLAN names it.
Header(plan) == IF plan.vlan_name = None THEN Line("set", "vlan", TRUE)
                ELSE Line("set", "vlan_name", plan.vlan_name)
\* A priority is sent only with spanning tree on, and never taken away.
PriorityLines(new, old) ==
  IF new.spanning_tree /\ new.stp_priority # None THEN Change("stp_priority", new, old) ELSE <<>>
VLANLines(new, old) ==
  <<Header(new)>> \o Swap("router_interface", new, old) \o Change("spanning_tree", new, old)
    \o PriorityLines(new, old) \o ChangeList("vlan_lines", new, old)
VLANCreateLines(plan) == VLANLines(plan, Defaults(plan))
VLANCreate(plan) == ConfigAndSave(VLANCreateLines(plan))
VLANRead(state, conf) ==
  IF conf["vlan"]
  THEN ReadAs(state, {"vlan_name", "router_interface", "spanning_tree", "stp_priority"}, conf)
  ELSE Absent
VLANUpdate(new, old) == ConfigAndSave(VLANLines(new, old))
VLANDelete(old) == ConfigAndSave(<<Line("set", "vlan", FALSE)>>)

(* icx_user.                                                                 *)

UserCreate(plan) == ConfigAndSave(<<Line("set", plan.username, plan.password)>>)
\* The password is not read.
UserRead(state, conf) == IF conf[state.username] = None THEN Absent ELSE state
\* The password is always sent; a new name removes the old account.
UserUpdate(new, old) ==
  ConfigAndSave((IF old.username = new.username THEN <<>> ELSE <<Line("set", old.username, None)>>)
                  \o <<Line("set", new.username, new.password)>>)
UserDelete(old) == ConfigAndSave(<<Line("set", old.username, None)>>)

(* icx_poe, whose Read sees nothing.                                         *)

PoECreate(plan) == ConfigAndSave(<<Line("set", "power", plan.power)>>)
PoERead(state, conf) == state
PoEUpdate(new, old) == ConfigAndSave(Change("power", new, old))
PoEDelete(old) == <<Call("config", Change("power", Defaults(old), old))>> \o Saving

(* icx_raw_config.                                                           *)

Destroying(raw) == ForEach("remove", "lines", IF raw.destroy # <<>> THEN raw.destroy ELSE raw.lines)
RawCreate(plan) == ConfigAndSave(ForEach("add", "lines", plan.lines))
RawRead(state, conf) == IF state.expect \subseteq ToSet(conf["lines"]) THEN state ELSE Absent
\* An update removes the old lines in a call of its own.
RawUpdate(new, old) == Config(Destroying(old)) \o Config(ForEach("add", "lines", new.lines)) \o Saving
RawDelete(old) == ConfigAndSave(Destroying(old))

-----------------------------------------------------------------------------
(* Operations.                                                               *)

Create(r, plan, conf) ==
  CASE r = "system" -> SystemCreate(plan) [] r = "management_ip" -> ManagementCreate(plan, conf)
    [] r = "ntp" -> NTPCreate(plan)       [] r = "logging" -> LoggingCreate(plan)
    [] r = "snmp" -> SNMPCreate(plan)     [] r = "aaa" -> AAACreate(plan)
    [] r = "vlan" -> VLANCreate(plan)     [] r = "interface_ve" -> VECreate(plan)
    [] r = "user" -> UserCreate(plan)     [] r = "poe" -> PoECreate(plan)
    [] r = "raw_config" -> RawCreate(plan)

ReadBack(r, state, conf) ==
  CASE r = "system" -> SystemRead(state, conf) [] r = "management_ip" -> ManagementRead(state, conf)
    [] r = "ntp" -> NTPRead(state, conf)       [] r = "logging" -> LoggingRead(state, conf)
    [] r = "snmp" -> SNMPRead(state, conf)     [] r = "aaa" -> AAARead(state, conf)
    [] r = "vlan" -> VLANRead(state, conf)     [] r = "interface_ve" -> VERead(state, conf)
    [] r = "user" -> UserRead(state, conf)     [] r = "poe" -> PoERead(state, conf)
    [] r = "raw_config" -> RawRead(state, conf)

Update(r, new, old) ==
  CASE r = "system" -> SystemUpdate(new, old) [] r = "management_ip" -> ManagementUpdate(new, old)
    [] r = "ntp" -> NTPUpdate(new, old)       [] r = "logging" -> LoggingUpdate(new, old)
    [] r = "snmp" -> SNMPUpdate(new, old)     [] r = "aaa" -> AAAUpdate(new, old)
    [] r = "vlan" -> VLANUpdate(new, old)     [] r = "interface_ve" -> VEUpdate(new, old)
    [] r = "user" -> UserUpdate(new, old)     [] r = "poe" -> PoEUpdate(new, old)
    [] r = "raw_config" -> RawUpdate(new, old)

Delete(r, old) ==
  CASE r = "system" -> SystemDelete(old) [] r = "management_ip" -> ManagementDelete(old)
    [] r = "ntp" -> NTPDelete(old)       [] r = "logging" -> LoggingDelete(old)
    [] r = "snmp" -> SNMPDelete(old)     [] r = "aaa" -> AAADelete(old)
    [] r = "vlan" -> VLANDelete(old)     [] r = "interface_ve" -> VEDelete(old)
    [] r = "user" -> UserDelete(old)     [] r = "poe" -> PoEDelete(old)
    [] r = "raw_config" -> RawDelete(old)

\* What an operation takes for the old record when it asks for leave.
Fresh(r, plan, conf) == IF r = "management_ip" THEN OnDevice(plan, conf) ELSE Defaults(plan)

\* Mutated: a change of gateway or address needs no leave.
DeniedNever(r, new, old) == FALSE

\* Refused before anything is sent: a change of address or gateway without
\* leave, the removal of the account in use, and that of a VLAN's name.
Denied(r, new, old) ==
  \/ r = "management_ip" /\ new # Absent /\ ~new.allow /\ Risky(new, old) # <<>>
  \/ r = "user" /\ new = Absent /\ old.username = OwnAccount
  \/ r = "vlan" /\ new # Absent /\ new.vlan_name = None /\ old.vlan_name # None

-----------------------------------------------------------------------------
(* What a plan asks of the running configuration.                            *)

\* What no Read sees.
Blind == {"communities", "ve_lines", "vlan_lines", "lines", "power"} \cup Accounts

Wanted(r, plan) ==
  IF r = "user" THEN [a \in {plan.username} |-> plan.password]
  ELSE LET keep == IF "keep" \in DOMAIN plan THEN plan.keep ELSE {}
       IN [a \in (DOMAIN plan \cap Settings) \ keep |-> plan[a]]

\* Only name servers are ordered.
Carries(conf, key, value) ==
  IF key \in Lists \ {"dns"} THEN ToSet(value) \subseteq ToSet(conf[key]) ELSE conf[key] = value
Meets(r, conf, plan) ==
  \A key \in DOMAIN Wanted(r, plan) \ Blind :
    /\ Carries(conf, key, Wanted(r, plan)[key])
    /\ key \in Lists => Len(conf[key]) = Len(Wanted(r, plan)[key])
=============================================================================
