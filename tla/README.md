# Verification of terraform-provider-fastiron-icx

TLA+ models of the Terraform provider for Brocade/Ruckus FastIron ICX switches, the TLC
configurations that check them on small instances, and proofs the TLA+ proof system checks.
The provider is Go code that types CLI lines into one interactive session with a switch and
reads text back; there is no API and no transaction. What can go wrong is in the *order* of
lines, in what is left behind when one of them fails, and in decisions made from a running
configuration that has changed since it was read. Those are what the models are about.

## 1. The system

| Part | Source | State | Operations | Module |
|---|---|---|---|---|
| CLI session | `internal/sshclient/client.go` | mutex, `inConfigMode`, expected prompt, `lostErr`, byte stream in flight | the exported calls of `Client` | `Session` |
| its contract | `internal/sshclient/executor.go` | – | `CommandExecutor` | `Executor` |
| ethernet interface | `internal/resource/interface_ethernet.go` | Terraform state, the port on the switch | ModifyPlan, Create, Read, Update, Delete, import | `Membership`, `EthernetPort` (membership), `PortWalk` (settings, claims) |
| VLAN | `internal/resource/vlan.go` | Terraform state, VLANs on the switch | Create (with the trunks), Read, Update, Delete | `Trunks` (VLANs and trunks), `SettingLines`, `GlobalSettings` (attributes) |
| management addressing | `management_ip.go` | the addresses, and the session that runs over them | ModifyPlan, Create, Read, Update, Delete | `SettingLines`, `GlobalSettings` |
| system settings | `system.go` | hostname and global switches | Create, Read, Update, Delete | `SettingLines`, `GlobalSettings` |
| raw configuration | `raw_config.go` | list of lines, expected lines | Create, Read, Update, Delete | `SettingLines`, `GlobalSettings` |
| flat resources | `aaa.go ntp.go snmp.go logging.go poe.go user.go interface_ve.go` | one list of lines each | Create, Read, Update, Delete | `SettingLines`, `GlobalSettings` |
| management path | `mgmtpath.go` | none; it asks the switch | `checkManagementPathDisable` | `PortWalk` |
| port registry | `internal/providerdata/ports.go` | claims per port, per provider instance | Claim | `PortRegistry`, `PortWalk` |
| keyword guard | `rawguard.go` | none | checks | not modelled |
| session start-up | `client.go` 107-323, 832-1142, `telnet.go` 212-266 | login progress, whether the switch echoes | login, enable mode, prompt detection, paging, resync | `SessionStart`, `Connection` |
| telnet stream | `telnet.go` 60-211 | decoder state, `wmu`, bytes half written | Read, Write, decode, refuse | `TelnetStream` |
| provider set-up | `internal/provider/provider.go` | the one client, the dialect | Configure, Close | `SessionStart`, `Connection` |
| dialects | `internal/dialect` | none | version and capability tests | as a parameter |
| parser | `internal/parser` | none | text to records | not modelled |
| data sources | `internal/datasource` | none | one read each | not modelled |
| mock, harness, debug command | `sshclient/mock.go`, `internal/acctest`, `cmd/debug-ssh` | – | – | not modelled (test code and tools) |

**How they interact.** Terraform starts one provider instance, which opens one session and reads
the running configuration once, to find the dialect. Terraform then calls the resources, several at
a time. Every resource holds the same `Client` through the `CommandExecutor` interface and makes a
few calls per operation: `GetRunningConfig`, some `ExecuteInConfigMode`, `WriteMemory`. `Client.mu`
is held for one call, not for an operation, so the calls of different operations interleave. The
switch is a further actor: it runs lines at its own pace, refuses some of them, and keeps running
lines after the connection they came over has broken. So is whoever else configures the switch.

**What is hard, and what must hold.**

* *Session.* The protocol has no request ids: an answer belongs to a line only because it comes
  next. Deadlines, stray prompts, a hostname change that changes the prompt, a CLI error in the
  middle of a list and an address change that cuts the connection can all shift answers against
  lines. A read must return the configuration as it is; a line reported as applied must have been;
  a successful save must make all of it durable; nothing may be left on the wire between calls; no
  call may hang.
* *Telnet stream.* The network cuts the stream anywhere, in the middle of an option or of `CR NUL` too, and two goroutines
  write on one connection. Read must return the data that was meant, whatever the cuts; a refusal must not be typed into the
  middle of a command; each proposal must be refused once.
* *Session start-up.* Nobody says whose turn it is. Banners look like prompts, prompts come twice, a
  credential is sent once. A password must go where it is asked for, neither side may wait for the other for
  ever, and what start-up hands over must be aligned: no prompt left over, the echo checks on if the switch
  echoes, the dialect taken from the configuration.
* *Ethernet interface.* A membership change is a list of lines whose order matters: the switch refuses
  `tagged` while the port is untagged somewhere, refuses to untag the dual-mode VLAN, and so on, on
  two dialects that differ. `tag_all_vlans` is an expansion made from a configuration read earlier.
  A legal sequence of edits must never build a refused line; an apply that succeeds must leave what the
  plan said; a clean plan must be true; a repair must not take anything away; repeated applies must
  converge; and a failed bulk command must stay visible.
* *VLANs and trunks.* Creating a VLAN must reach the ports that carry every VLAN, and these are found
  by looking at the switch. Other operations of the same apply run in between.
* *Global settings.* Every operation is a few calls and a save, and may fail between any two of them; the
  running configuration then holds what nobody saved, and a reboot takes it back. Some of the lines
  (hostname, gateway, address) can break the session they are sent over. What succeeded must survive a
  reboot, a half-done operation must not be stranded, the address must not move without leave or ahead
  of its gateway, and repeated applies must settle.
* *Several port resources.* Terraform plans the resources of a run in any order and cannot know every value when it
  plans; two resources may name one port, a resource may move to another, and one that disables the port the session
  runs through ends the session. What two resources differ in must not be written, what they agree in must not be
  refused, the path must not be cut by a plan that was checked, and repeated runs must settle.
* *The rest.* A hazard no property covers is listed in `PROJECT.json` at its line, with a note that says why.

## 2. Modules

```
Executor            what the resources may assume of the session
   ^ refines
Session   <- MCSession, SessionProofs
   ^ extends
Connection  -- INSTANCE SessionStart    <- MCConnection <- MCTelnet <- ConnectionProofs
SessionStart        <- SessionStartProofs -- instance in ConnectionProofs
TelnetStream        instance in MCTelnet, where ConnectionProofs proves about it
Membership          lines, read-back and the switch's rules for one port (no variables)
   ^ extends                              <- MembershipProofs
   +- EthernetPort  <- MCEthernetPort, EthernetPortProofs (with MembershipProofs)
   +- Trunks        <- MCTrunks, TrunksProofs (with MembershipProofs)
SettingLines        lines, calls and read-back of the global resources (no variables)
   ^ extends
GlobalSettings      <- MCGlobalSettings, GlobalSettingsProofs
PortRegistry        what a claim does to the registry (no variables)
   ^ instance of
PortWalk            <- MCPortWalk, PortWalkProofs
```

**`SessionStart`** is `Configure` from a connected transport to a ready client. `pc` is where the client is in
`readUntilPromptInitial` ("login"), `enterEnableMode`, `detectPrompt`, the first two commands, `resync` and
the drains between them ("settle"); `typed` and `shown` are the two directions of the stream, `at` is what
the switch's terminal waits for. `shown` consists of tokens: prompts, text, text that ends the way a prompt does, and
answers that carry the line they answer. `Resolves` is the policy of `resolveConnection`: settings it refuses never
connect. Telnet switches may print a command prompt twice and may be `late`, that is, answer after the quiet
window. **`Connection`** is `SessionStart` and then `Session`, over the same transport and connection, with the unread
prompts as the session's first output.

**`Session`** is `client.go` from the first call to `Close`. A caller is one resource operation's
goroutine. `holder` is `mu`; `want[c]` the call a caller is in; `todo` the writes it has to make,
`awaiting` the lines written whose prompts are unread; `rejected`, `inConfigMode`, `prompt` and
`lost` are `cliErr`, `inConfigMode`, the expected prompt and `lostErr`. `Acquire` translates each exported
method to its writes (`Writes`): a line at a time, or the single write of
`ExecuteExpectingDisconnect`. `Refuse`, `FailLost`, `DrainFindsOutput` and `WriteFails` are the early
returns in front of a write; `Send` is the write; `Read`, `ReadRejection`, `ReadOutOfSync`, `Timeout` and
`ReadFails` are the outcomes of `readUntilPrompt`/`readNewPrompt` and of the checks after it;
`Finish` is the normal return. The switch (`Execute`) takes lines from `input` in order, accepts or refuses
each (but see section 5 for three lines that are taken to be accepted), and appends an answer ending in a prompt to `output`; answers carry the call they
answer (`ticket`), which the client never looks at. `NetworkFails` and a line that moves the address cut the
connection; lines already in `input` may still run, or be dropped (`HangUp`). `Stray` is a
prompt a telnet switch prints unasked. A command is a first word, an argument and a kind; text is not
modelled. On SSH nothing is drained; on telnet with echo the first word of an answer is checked.
`running` records which call applied each line and in which mode.

**`TelnetStream`** is the layer below a telnet session. The switch appends a message to `inbound`
(`SwitchSends`): text, an escaped byte, a line ending, a proposal, an acknowledgement, a subnegotiation. `Read` takes a
buffer of some size, `Receive` is the connection's Read and gives as much of `inbound` as it likes, `Decode` is one turn of the
loop in `decode`, with `state`, `cmd` and `lastCR` carried from one Read to the next, and `Return` hands out what was decoded. `left[w]` is
what a writer still has to write under `wmu`: the reader's refusal (`Refuse`) or a line of the session (`Write`,
with IAC doubled by `Escape`); `Transmit` writes any part of it, `WriteFails` and `ReadFails` are deadlines and broken
connections. The pump of `client.go` (253-274) reads one byte at a time; the model takes any buffer. The switch's messages are well-formed.
The layer and the connection above have no variable in common, so `MCTelnet` lets one of the two move, and `ConnectionProofs`
proves of both.

**`Executor`** is what `executor.go` promises its users, seen from outside: calls are served
one at a time, only the call being served changes the switch (until the session is gone), and a call that
succeeds has had its whole effect. `Session` implements it through a refinement mapping
(`ImplementsExecutor`).

**`Membership`** has no state. It is the arithmetic of one port: `ExpandAll` and `ResolveTagged`,
`BuildContext` (08.0.80 and later) and `BuildDual` (older firmware) with their line order, `RemoveAll`,
`BulkAllowed` and `BulkCorrections`, `ReadBack` (what `readVLANMembership` and
`reconcileTagAllVLANs` record), and the switch's side: `Effect` of a line, and the lines it `Rejects` or
`MayReject`. The switch's rules are the ones the comments of `interface_ethernet.go` and the simulated
switch of its tests describe; that part is external to `src/` in nature and marked so in the map. A line
stands for the three-line stanza the code emits.

**`EthernetPort`** is the life of one such resource. The operator edits the configuration
(`Edit`), Terraform refreshes (`Refresh`), finds no difference (`PlanClean`) or starts `BeginCreate`,
`BeginUpdate` or `BeginDelete`, which read the switch and build the lines. Then come the interface call
(`Interface`), the VLAN lines one by one (`LineAccepted`, `LineRefused`, `LinesLost`), the
verification of a bulk command (`Verify`, `Correct`, ...: `finishBulkTagging`) and the save. What is
recorded on each path (`End`) follows the code: the plan on success, nothing on failure, the device's
membership after a failed bulk command. `ByHand` changes the port or adds a VLAN at any time.
`calm`, `before`, `kind` and `result` are there for the properties only.

**`PortRegistry`** is the arithmetic of `PortRegistry.Claim`: which attributes of two configurations `Differs`,
where an unknown value differs from nothing, and what the registry knows of a port after one more claim (`Merge`).

**`PortWalk`** is several such resources under repeated runs of terraform. A run is two walks, each with a provider
instance, and so a registry, of its own: the plan walk refreshes and plans every resource (`PlanResource`: Read, then
ModifyPlan with `ClaimPort` and the look at the management path), in any order and with the `hidden` fields unknown;
unless a plan was refused the apply walk plans every change again with all values known (`Replan`) and carries it out
(`BeginCreate`, `BeginUpdate`, `BeginDelete`, `Send`, `Save`). Each is a step, since nothing holds the session between
them. `PathPorts` is what `managementPathPorts` finds: the ports next hops were learned on, a LAG or a missing ARP
entry aside; a look may also fail (`answered = FALSE`), and then allows everything (`Leads`). A port that is
disabled under the session cuts it; `Console` is the person who walks to the switch. `PathMoves`, `ByHand` and edits
come at any time. `accepted`, `rejected`, `wrote` and `unaware` are there for the properties. Membership and the
save are one call here that succeeds or fails; `EthernetPort` is about what is in it.

**`Trunks`** is one apply of several resources at once: VLANs created and deleted, ports configured.
Each operation is a read step and a write step, because that is where `mu` is released; the steps of
all operations interleave, and any write may fail, with part of it done. `TrunkIn` is
`findTrunkAllPorts`. `Plan` refreshes every state and starts an operation for each difference.

**`SettingLines`** has no state. The running configuration is a function from settings to values; a plan is
a record of the attributes of a resource. Each of the eleven global resources, the attributes of a VLAN among them, has an operator for
each of its Create, Read, Update and Delete (`NTPCreate`, `NTPRead`, ...), resting on the lines an old
and a new record give (`NTPLines`, `VELines`, `VLANLines`, ...), in the code's order and
cut into session calls as the code does; `After` is the configuration once a list of them has run. A create takes the defaults
for the old record without looking (`Defaults`), or the device's own addressing (`OnDevice`); that of `icx_management_ip`
works on the plan its ModifyPlan left, with the device's gateway and name servers put in where the configuration says nothing.
`Proper` is what a plan or a state of a resource looks like, `ProperPlan` what the schema lets the configuration be. `Denied` is what is refused before anything
is sent: an address moved without leave, the removal of the account in use, the removal of a VLAN's name.
`Create`, `ReadBack`, `Update` and `Delete` choose the resource. `Blind` are the settings no Read sees.
Attributes that differ only in the words of their line have one representative.

**`GlobalSettings`** runs these operations concurrently on one switch. `Plan` is a run of terraform: a new session,
a refresh of every state, ModifyPlan (`PlanRefused`), and an operation for every difference (`Begin`). Each
call is then a step: it succeeds (`CallDone`), is refused part of the way (`CallRefused`), or takes the session
with it after any part has run (`SessionLost`), after which every call of the apply fails (`CallDead`).
`Rescue` is the save with which `icx_system` secures a hostname that is live. A save copies the whole
running configuration, whoever asks; `Reboot` comes back with the copy. `touched` and `rename` are there for
the properties only. The session is seen as `Executor` promises it; how it gets there is `Session`'s subject.

## 3. Runs

| Run | Asks | Instance |
|---|---|---|
| `Session_prompt` | is the session a faithful executor when answers come in time? | 2 callers, 3 calls of all 11 kinds, 3 transports, a connection that may break anywhere |
| `Session_telnet` | do deadlines and stray prompts mislead an echoing telnet session? | 2 callers, 4 calls, 2 deadlines, 1 stray prompt |
| `Connection_live` | does start-up end in an aligned session, does every call return, and do cuts mislead the telnet layer below? | 5 settings, 3 banners, 2 transports; then 2 callers, 2 calls, 2 deadlines; a connection that may break. Below: 9 messages, 2 at a time, 1 line, a buffer of 2 bytes |
| `Session_ssh_late` | the same as `Session_telnet`, over SSH: **violated** | 1 deadline |
| `Session_context` | does a global line always run in global mode? **violated** | 3 calls |
| `Port_safe` | safety of every edit, failure and change by hand; convergence after the last | VLANs 1-4, both dialects, 3 edits, 1 failure, 1 change by hand |
| `Port_default_vlan` | convergence with `untagged_vlan = 1`: **violated** | 1 edit |
| `Port_unsaved` | is a failed save made good, as the error says? **violated** | 2 failures |
| `Trunks_apply` | do trunks get new VLANs, and does all converge? | 2 ports, VLANs 1-6, both dialects, 2 edits, 1 failure |
| `Settings_apply` | is what succeeded saved, does the address keep its gateway, does all settle? | 11 resources, at most 2 together, 2-4 plans each, 1 edit, 2 failures, 1 reboot |
| `Walk_fleet` | do claims, path checks and late values keep port resources sound, in every order? | 3 resources, 2 ports, 4 fleets, 3 sets of hidden values, 2 networks, 2 edits, 1 failure, 1 move, 1 change by hand |
| `Trunks_listed` | does a VLAN leave listed ports alone? **violated** | 2 ports, 1 edit |

**What the passing runs show.** In `Session_prompt`: `FreshRead`, `AppliedWhenClaimed`,
`DurableWhenSaved`, `NothingLeftBehind`, `ModesAgree`, `PromptKnown`, the refinement of `Executor`, and
`SaveQueuedBehindAddress` (when the address moves, the save is already in the switch's
input). With deadlines (`Session_telnet`) the weaker list still holds over echoing telnet: an answer that
comes late is drained or caught by its echo. In `Connection_live`: a password is read by the switch only at its prompt, whatever the banner says
(`PasswordAtItsPrompt`); client and switch wait for each other only after the switch refused a password
(`WaitsOnlyIfRefused`); the session is handed over aligned (`ReadyForCalls`), with a dialect read from the running
configuration (`DialectFromConfig`), even by a late switch if it echoes; start-up ends (`ConnectionStarts`) and so does every
call after it (`ConnectionReturns`). In the telnet layer below, Read returns what the switch meant and holds nothing back
(`DecodedIsMeant`), and the switch hears whole lines and whole refusals, each once and in order (`HeardIsMeant`).
In `Port_safe`: no operation builds a line the switch refuses (`NoRefusal`); success means the plan
is met and the next refresh agrees (`SuccessMeetsPlan`); a clean plan hides nothing
(`CleanPlanIsTrue`), even after failures and changes by hand; between the lines of an update a port is in its old untagged
VLAN, which may carry the session, or in its new one, never in a third, and in none only where the firmware leaves no other way:
when a port changes between access port and trunk in dual mode (`docs/resources/interface_ethernet.md:182`), and when the VLAN of an
access port, or of any port on 08.0.80 and later, changes (`UntaggedNeverDropped`); a `tag_all_vlans` repair only adds
(`RepairsOnlyAdd`); a failed bulk command is saved and visible (`BulkFailureShows`); and
after the last disturbance repeated applies end in the configured membership and a clean plan, unless the switch refuses
a line for ever (`SettlesUnlessRefused`). In `Trunks_apply` an undisturbed apply of
VLAN operations leaves complete trunks complete in every order (`TrunksStayComplete`), and whatever
interleaves or fails, later applies repair it (`TrunksConverge`).

In `Settings_apply`: what an operation changed and reported as done is in the startup configuration,
whatever its neighbours do (`SuccessSurvivesReboot`; as it was recorded, but for the lists in `Unverified` once something has failed, section 5); a refused line leaves no half of a rename
unsaved, whether it is the rename itself or a later line (`RenameStrandsNothing`); the switch is never
at its new address with its old gateway (`AddressTakesGatewayAlong`), and neither moves without
`allow_management_ip_change` (`MovesOnlyWithLeave`); and after the last failure repeated applies end
with the wanted settings, as far as some Read sees them, and clean plans (`EventuallySettles`).

In `Walk_fleet`: of two claims that differ in something known at most one is accepted, and none is rejected without
such a one (`ClaimsExact`), in every order of planning; two resources that differ never both write to a port, even if the
plan walk could not see the clash (`ClashNeverWritten`); an operation cuts the session only if its look at the path
failed or the path moved after it (`CutOnlyUnaware`); and a sound configuration settles, ports exchanged between resources and
ports declared twice included (`WalksSettle`). The properties say in their
comments what they leave out, and section 5 why.

**What the violated runs show** (details under `findings`).

* `Session_ssh_late`: over SSH a read that timed out leaves its answer in flight, and the next
  `GetRunningConfig` returns that answer as the configuration. Telnet has a guard, SSH has none.
* `Session_context`: an error inside an interface context leaves the shell there with
  `inConfigMode` set; the next operation's global `optical-monitor` configures that interface.
* `Port_default_vlan`: on 08.0.80+ VLAN 1 is never read back, so a documented example never
  plans clean.
* `Port_unsaved`: after a failed save the "next successful apply" may have nothing to send and then
  saves nothing.
* `Trunks_listed`: a port whose explicit list names every VLAN is taken for a trunk, although the docs
  say `icx_vlan` does not manage membership.

**Bounds.** Every bound is a constant whose name starts with `Max`. Two callers are enough to have one
waiting while the other fails, and callers are symmetric and share no state outside `mu`. Three or four
calls reach "a call that leaves something behind, one that is misled, one that saves". Two deadlines allow a
misled call to be followed by a second late answer. For a port, three VLANs beside VLAN 1 cover an
untagged VLAN that is kept, left or chosen next to a tagged one that stays; `Port_safe` walks any three of the
edits between all memberships on VLANs 2 and 3, with a fourth VLAN added by hand. `Trunks_apply` has five
VLANs because `findTrunkAllPorts` wants three *others*, one may be the port's untagged one, and one is new.
`Settings_apply` puts together the resources that are likeliest to disturb each other (hostname and management
address; two with a blind Read and one without) and takes the others alone, since they share nothing but the
session and the save; two failures are needed for a refused line and a failed rescue, and one reboot after a
failed save loses all there is to lose.
`Walk_fleet` has two resources that exchange their ports, one of which disables a port; a port declared twice; and one declared
three times, with one that differs, so that the order of three claims matters. A value unknown at plan may be the name,
the admin state or the port itself. A second edit brings back the first configuration from any state in between.
Two telnet messages are enough because of one message only `lastCR` is remembered in the next; the buffer of two bytes
is filled with one or two, so that every message is cut in every way, and a short read is what the pump's one-byte buffer gives.
The banners of `Connection_live` are none, one line that ends like a password prompt, and that after one that ends like a
user name prompt; two calls and two deadlines, so that each call may run into one.
`Session` uses symmetry over callers, in safety runs only.

**Deadlock.** `CHECK_DEADLOCK FALSE` is set where a behaviour may end: `Session` and `Connection` when start-up has failed or the bounded
number of calls has been made, `EthernetPort` when edits are used up and the plan is clean and
the resource destroyed. `Trunks`, `GlobalSettings` and `PortWalk` never end and are checked for deadlock.

**Fairness.** `SessionStart`: weak fairness of the client, whose deadlines are among its steps. `Session`: weak fairness of the step of the goroutine that holds the mutex
(`Step`, which includes the deadline, since timers fire) and strong fairness of `Acquire`, because Go's mutex
switches to hand-over mode when a waiter has waited for a millisecond. Nothing is assumed of the switch
or the network. `EthernetPort`, `Trunks`, `GlobalSettings` and `PortWalk`: Terraform, once started, goes on (weak
fairness of its steps) and the operator runs it again; failures, edits, reboots and changes by hand are never fair
and are bounded, which is what "after the last disturbance" means.
`Connection_live` assumes the fairness of the connection's steps in behaviours in which the connection is what moves (`LayersSpec`);
of the telnet layer it claims safety only, and what is proved of either layer is proved without fairness (`Layers`).

## 4. Proofs

`SessionProofs` proves for all callers, calls, first words, transports and bounds:

* `TypeCorrect`: `Spec => []TypeOK`. `TypeOK` is inductive as it stands. There is a lemma per action,
  resting on lemmas about `Writes` (a call is a sequence of sequences of commands), `Return`/`Fail` (how
  a call ends) and truncated sequences.
* `LossIsFinal`: `Spec => LostIsFinal`. The action property alone does not follow from types: a read of a lost
  session could still change `lost`. The strengthening is `NotReadingWhenLost`: once
  `lost # "no"` no line is awaited, because the step that marks the session lost also ends its call.

It goes on with what the resources rely on, for all callers, calls, first words, transports, connections that
break and bounds, under two hypotheses. `InTime` (`MaxTimeouts = 0 /\ MaxStrays = 0`): no deadline passes and no prompt comes
unasked; without it `FreshRead` is false over SSH, as `Session_ssh_late` shows. `ProperCalls`: `Execute` is given `show`
commands, the other calls configuration, and only `ExecutePromptChanging` a line that renames the switch; the callers in
`src/internal/resource` keep to it. `Session_prompt` is an instance of both.

* `NothingIsLeft`, `ModesAlwaysAgree`, `PromptIsKnown`, `ReadsAreFresh`, `ClaimsAreApplied`, `SavesAreDurable`: the invariants
  `NothingLeftBehind`, `ModesAgree`, `PromptKnown`, `FreshRead`, `AppliedWhenClaimed` and `DurableWhenSaved`.
* `ClientImplementsExecutor`: `Spec => Contract!Spec`. `Acquire` is `Begin`, a run of one line by the switch `Apply` or `Store`,
  `Finish` and every failing end of a call `Return`, `NetworkFails` `Lose`; what the client sends, reads or
  drops is a stutter.

All of them come from `Wire /\ LostIsCut /\ Aligned /\ Positions /\ ModeKnown /\ PromptsAgree /\ AnswersTrue /\ Progress /\
Completed /\ Histories`. `Aligned` is the heart: the lines in `input` and the answers in `output`, in that order, are the lines
the holder of the mutex still awaits, so that the answer read next is always the answer to the line thought of, and between calls
both are empty. The rest says what follows from it: which mode and prompt the shell has after the lines so far (`ModeKnown`,
`PromptsAgree`), that an answer in flight tells what really ran (`AnswersTrue`), which of a call's lines have run
(`Progress`, `Completed`), and what earlier calls left in the running configuration (`Histories`). The type invariant and `LostIsFinal`
need no run of their own any more.

`ConnectionProofs` proves of a whole connection, for all settings, transports (with or without echo, late or not), connections
that break, calls that follow, and banners of any length and number:

* `StartReady`, `StartDialect`, `StartWaits` and `StartPasswords`, that is, `ReadyForCalls`, `DialectFromConfig`,
  `WaitsOnlyIfRefused` and `PasswordAtItsPrompt`.

The hypothesis `PlainBanners` is that a banner's lines may end as a login prompt does but not as a command prompt does; the
banners of `Connection_live` are of that kind, and without it the first two are false (section 5). Start-up
alone is `SessionStartProofs`: its invariant (theorem `StartAligned`) is `IInv == TypeOK /\ Links /\ Positions`. `Positions` says for each place of the client what is on its way in both
directions, or, when the connection is cut, what is left of it: before a credential is sent, output that ends in the prompt
that was printed last (`Ending`); after a command, the command, or its answer and nothing but prompts behind it
(`Answered`); after a drain, nothing, unless the switch is late. `WaitsOnlyIfRefused` is false of types alone and follows because
in every place something is on its way. `ConnectionProofs` instantiates it, shows that the calls after start-up touch only the
connection and none of the rest of `IInv`, and takes the four properties from there.

It also proves of the telnet layer below, for all lines, sizes of buffers, cuts, failures and bounds, and for any number of
messages:

* `TelnetDecodes` and `TelnetAnswers`: `DecodedIsMeant` and `HeardIsMeant`.

The hypothesis `LegalMessages` is that the switch says what a telnet switch may (`Legal`): any byte of text, the two line endings,
an escaped IAC, a proposal or an acknowledgement of any option, a command without an option, a subnegotiation of any length in
which an IAC is doubled until one is followed by another byte. The nine messages of `Connection_live` are among them
(`EveryMessageIsLegal`). Where the decoder is cannot be told from its state alone, since `lastCR` and the option's verb outlive a
Read: `StreamInv` says that some `k` messages and `u` bytes of the next are decoded (`Decoding`), that what is in `raw` and `inbound`
is the rest of the bytes that were sent, and which state the decoder has after those `u` bytes (`Inside`). `Turn` is one turn
of the decoder from there. A refusal that is due is in `reply` until the reader has taken `wmu` (`Unsaid`), and a writer that holds
`wmu` is the only one with something left (`Sharing`), so that what was heard and what is left is what was said.
`FlattenSeq`, with which the properties join lists, is defined by recursion: `JoinedStep` and `JoinedAppend` say what one list more
does to it.

`MembershipProofs` has the lemmas about the operators of `Membership`, for any set of VLANs: what `Ascending` lists and in which
order, which lines `Build`, `RemoveAll` and `BulkCorrections` consist of and what comes before what, which lines the
switch accepts of a port in a given state, and that a port that was read back meets what was read (`ReadBackMeets`). A list is as long as
the set it was made from, so these need an induction; it is had without an operator parameter by taking the least
counterexample (`LeastOf`, from the library's well-foundedness of `<` on the naturals).

`EthernetPortProofs` proves for all VLANs, plans, ports, firmware, lines typed by hand and bounds:

* `FailureShows`, `CleanPlanIsSound` and `PortTypes`: `BulkFailureShows`, `CleanPlanIsTrue` and `TypeOK`.
* `NothingRefused`, `SuccessIsReal`, `UntaggedIsKept` and `RepairAdds`: `NoRefusal`, `SuccessMeetsPlan`, `UntaggedNeverDropped`
  and `RepairsOnlyAdd`, under the hypothesis `PlansAreProper`: a planned `tagged_vlans` names neither VLAN 1 nor the plan's own
  untagged VLAN. Every plan of `Port_safe` is of that kind; no port can meet one that is not (section 5).

All come from `Inv /\ Typed /\ Track`.

* `Inv == TagsExist /\ Recordings /\ ResultAtEnd /\ RefreshedIsTrue /\ BulkFailureShows`. `RefreshedIsTrue`: what a refresh recorded
  *is* what the port carries until an operation begins or someone interferes. It rests on `ReadBackMeets`, and that lemma needs
  `TagsExist`, that a port is tagged only in VLANs that are there, since Read walks the VLANs of the configuration. `TagsExist` holds
  because a line that tags enters its VLAN first, and entering creates it.
* `Typed` adds to the types which lines an operation may still have to send in each place (`Phases`), and that the switch's side is
  one the switch can hold (`SwitchOK`).
* `Track` says of an operation under way what the lines left to send will make of the port, for `Create` and `Update` of either
  dialect, the removal, and the bulk command with its corrections (`OnTrack`, `AfterBulk`). It is not enough that a list of lines is right
  when it is built: after every line the rest must still be accepted and must still lead to the plan, while the lines
  themselves may create VLANs and so change what `tag_all_vlans` stands for (`Entering`: only the untagged VLAN can be new).
  `Straight` and `Additive` say which lines are never in the list, and `Straight` also in which untagged VLAN the port is between two
  of them (`Midway`): no `no dual-mode` is left for a dual-mode trunk that stays one, no `dual-mode` and no `no untagged` for a port that
  keeps the membership it has. They give the two action properties. `Reached` is
  what holds at the end.

`TrunksProofs` proves for all VLANs, ports, firmware, plans and bounds, for every interleaving of an apply's operations and every failure:

* `TrunkTypes`: `TypeOK`, from `Typed`, which adds that each list holds lines and that a port is coherent
  (`Coherent`: what the switch never holds, it never comes to hold).
* `TrunksComplete`: `TrunksStayComplete`. The invariant `Apply` says, of an apply that runs no port operation and has met no failure: every
  complete trunk is complete now *and still recognisable as one* (`Enough`: tagged in as many declared VLANs as `findTrunkAllPorts` asks for),
  and a create between its read and its write has found every trunk. The second part is what makes
  several creates and deletes compose.

`PortWalkProofs` proves for all resources, ports, names, configurations, networks, hidden values and bounds:

* `TypeCorrect`, `ClaimsAreExact`, `NoClashIsWritten` and `OnlyUnawareCuts`, that is, `TypeOK`, `ClaimsExact`,
  `ClashNeverWritten` and `CutOnlyUnaware`.

They come from `IInv == TypeOK /\ Places /\ Planned /\ RegistryExact /\ WritesAreClaimed /\ Looks`. None of the three
properties is inductive. `RegistryExact` says that the registry knows of each port, attribute by attribute, what the accepted claims
say and nothing else: this is why a claim need only be compared with the
registry and not with the claims before it. `WritesAreClaimed` says that a resource that has begun an operation in the
apply walk has claimed its port with all values known, so that two writers of a port have both been compared.
`Looks` says that the port an operation is about to disable is not on the path, unless the operation's look failed or
is out of date.
`Places` and `Planned` tie the place of a resource in a walk to what was planned for it.

`GlobalSettingsProofs` proves for all groups of the eleven resources, plans, factory settings and bounds, for every interleaving of
operations, refusal, loss of the session and reboot:

* `SettingsTypes`, `RenamesStrandNothing`, `MovesHaveLeave`, `AddressesTakeGateways` and `SuccessesSurviveReboots`, that is, `TypeOK`,
  `RenameStrandsNothing`, `MovesOnlyWithLeave`, `AddressTakesGatewayAlong` and `SuccessSurvivesReboot`.

The only hypotheses are `SettingLinesAssumption` (an account is not named as a setting is) and `GlobalSettingsAssumption`: plans are
such as the schemas accept. The name servers of an update end in the planned order because all of the old ones are removed, one by one,
before the new ones are entered in one line (`EntersAll`). The first half of the module is about lists of lines alone: which settings the lines
of a resource name (`LinesOf`, `Keys`; no two resources share one, `Owner`), what they leave as it is (`Leaves`), what they settle
(`Settles`), and for each Create and Update that after all its lines the switch carries what was asked of the settings they name
(`Carried`). `Flat` is what is left of an operation as one list, so that the calls it is cut into do not matter.

* `SettingsInv` is `TypeOK` with what makes it inductive: both configurations are such as a switch can have, and for each operation the
  place it is in, the calls it has left, the record it will leave and whether it renames fit together (`OperationOK`).
* `SavedInv` says of *every* operation that ended well, and of a rename that was refused, that all it changed is saved: it holds because
  each list of calls ends in a save, and no line of another operation names a setting of this one.
* `MoveInv` says of a risky batch not yet sent that it has leave, has the gateway first, and was made for the gateway the switch has
  *while the session lasts*. The last words are needed, since a reboot brings back another gateway; it takes the session with
  it, and the batch is never sent.
* `CarryInv` says of an operation in the middle of its calls that what is left of it completes what it is to record (`Pending`), and
  before its first call that the lists it edits are as they were read (`Known`), again while the session lasts.
* `CalmInv` is about the lists no Read sees (`Piecemeal`: communities, extra VE and VLAN lines): as long as no call has failed and the switch
  has not rebooted, what is recorded of them is on the switch, and for an operation under way will be after its calls.

Assumptions are those named in the modules: `SessionAssumption`, `EthernetPortAssumption`,
`MembershipAssumption`, `TrunksAssumption`, `SettingLinesAssumption`, `GlobalSettingsAssumption`, `PortWalkAssumption`, `ConnectionAssumption`, `TelnetAssumption`. TLC evaluates them in every run.

**Only model-checked.** Liveness (`ConnectionReturns`, `ConnectionStarts`, `SettlesUnlessRefused`, `WalksSettle`,
`TrunksConverge`, `EventuallySettles`) and fairness are out of the prover's reach. The properties of `Session` when deadlines pass and `SaveQueuedBehindAddress` are checked by TLC only so far.

## 5. Seen while modelling, without a run of its own

* A banner line that ends in `#` or `>` after a word ("AUTHORIZED USERS ONLY #") passes for the CLI prompt, because
  `initialPrompt` is not anchored to the start of a line (`anyPrompt` is, and says why, `client.go:56`). Over telnet the
  login is then skipped. Over SSH, where nothing is drained, the prompt probe takes the real first prompt for
  its answer, and every later read returns the answer of the line before: the dialect is detected from the
  output of `skip-page-display`, and the first command's error goes unseen. With such a banner (`"like#"`) added,
  TLC violates `DialectFromConfig` and `ReadyForCalls`; the banners of `Connection_live` leave it out.
* The drain that ends start-up (`resync`) waits for silence, not for the answer. A telnet switch that answers an Enter later than
  `telnetQuietWindow` can leave a prompt behind; with echo the next command notices, without echo nothing does.
* `docs/resources/vlan.md:14` says drift of a `tag_all_vlans` port is invisible to plans; Read has
  reconciled since (`reconcileTagAllVLANs`, and `docs/resources/interface_ethernet.md:82` says so).
* A tag in VLAN 1 is never reported. If a bulk command made one and its verification failed,
  `untagged_vlan = 1` is refused from then on. `SuccessMeetsPlan` therefore speaks of operations that succeed.
* On dual-mode firmware a port that is (by hand) tagged in nothing but its dual-mode VLAN reads back as an
  access port, and the next update's `no untagged` names a membership that is not there.
  `KnownPort` leaves these ports out of `NoRefusal`.
* A dual-mode port that is (by hand) tagged in VLAN 1 reads back without that tag; an update to an untagged VLAN may then
  build lines that the tag forbids. `KnownPort` leaves these ports out too. The runs never type that line; the proof of
  `NoRefusal` found it.
* The schema accepts `tagged_vlans` that names VLAN 1 or the port's own untagged VLAN. No port meets such a
  configuration; the runs' `EveryPlan` and the hypothesis `PlansAreProper` of four theorems leave them out.
* A create on a port with leftover membership only adds. If what is left forbids what is wanted, every apply
  is refused; nothing is in the state, so nothing is ever removed.
* Over echoing telnet the echo check compares first words. A late answer to `show arp` passes for the answer to
  `show running-config`. `Session_telnet` has no second `show` command for that reason.
* A port operation that read the configuration before a VLAN was deleted writes `vlan N` afterwards and
  creates it again, empty and undeclared. `TrunksConverge` asks that ports are right on the switch as it
  then is.
* When a port's own untagged VLAN is deleted and created again and the port is not re-applied in between, Create
  finds the port tagged everywhere else and tags it in its own untagged VLAN, and from then on the
  `untagged` line is refused. `TrunksConverge` excludes configurations that withdraw a port's
  untagged VLAN.

* `port` of `icx_interface_ethernet` may change without replacement. Update then compares the plan with the state of the
  *old* port and sends the difference to the new one; the old port keeps its settings and memberships, of which no state
  knows any more. What the new port lacks the next refresh sees (`WalksSettle`). Memberships to be removed are those
  of the old port, and on the new one their removal may be refused.
* `configure terminal`, `end` and, in EXEC mode, `show` are taken never to be refused (`MayReject`). The client does not look
  whether they were: it sets or clears `inConfigMode` when `configure terminal` or `end` has been answered, whatever the answer
  (`client.go:514`, `549`, `615`, `662`, `686`), and returns the output of `show running-config` as it is (`692`). A switch
  that refused one (a user without the privilege, another session that locks the configuration) would be misread: `FreshRead`,
  `ModesAgree`, the refinement of `Executor` and the theorems about them rest on this assumption.
* A write is taken never to block. The telnet connection has a deadline on writes, the standard input of an SSH session has none
  (`client.go:777`, `628`): if the peer's window is full and the connection hangs without breaking, a call would wait with `mu` held,
  and all others with it. `ConnectionReturns` and `ConnectionStarts` rest on this assumption.
* The registry of the apply walk is empty at first and a resource without a change makes no claim in it, so a clash with
  such a resource is only seen by the plan walk. `ClashNeverWritten` speaks of resources that write.
* The look at the management path and the `disable` are two calls. A path that moves in between, or a `show arp` that fails, lets
  the session be cut; `CutOnlyUnaware` says so.
* `applyCommands` (`system.go:279`) says that sending the hostname first leaves nothing applied but unsaved. If the
  session is lost *under* the rename, the name may be live and is not saved; the next refresh
  reads it, the plan is clean, and a reboot takes it back. `RenameStrandsNothing` leaves that case out.
* When the lines were applied and the save failed, a refresh (or the reconciling create of `icx_management_ip`)
  finds the switch as wanted, the plan is clean, and nothing saves it. So "every recorded
  setting is saved" does not hold; `SuccessSurvivesReboot` is about an operation's own changes.
* `icx_ntp` and `icx_logging` send their lists as sets and compare them in order: a reordered list sends
  nothing, one with a server inserted reads back in the switch's order, and the plan never becomes clean. Also,
  `servers = []` is recorded as null by Read and differs again.
* `icx_user` refuses to delete the provider's own account, but Update renames it away without asking.
  `docs/resources/user.md` still says self-deletion is not prevented.
* `icx_interface_ve` and `icx_poe` change their VE number or port in Update, without replacement: the old VE or port
  stays as it is. Update of a VE removes the old address before sending the new one.
* Resources with a blind Read (`icx_poe`, passwords, communities, `icx_raw_config` without expected lines) keep the old
  state after a failed operation. If the configuration is then reverted the plan is clean, though part of the
  failed operation is on the switch, and the next save of any resource makes it durable. Of the communities and of the extra lines of
  a VE or VLAN an update sends only the entries in which plan and state differ; after an update that was refused half way it may
  report success without an entry that the state wrongly holds. Once a call has failed or the
  switch rebooted, `SuccessSurvivesReboot` therefore leaves these lists (`Unverified`) out of "as it was recorded"; the proof of it found the case.
* `icx_vlan` sends `spanning-tree ... priority` only together with `spanning_tree` (`vlan.go:441`). A priority that is
  planned without it, or dropped from the configuration, is never sent or withdrawn, and the plan never becomes
  clean. `EventuallySettles` leaves such configurations out. A name cannot be
  withdrawn either, but there Update says so and refuses.
* `vlan_id` of `icx_vlan` may change in Update without replacement: the new VLAN is made and the old one stays, unmanaged.
* An update of `icx_raw_config` whose second call fails has removed the old lines and keeps them in the state; the next
  one removes them again, which a switch may refuse each time. The model's switch accepts it.

## 6. Plan

Done: the session from start-up to close, its contract and the telnet layer below it, one port, ports and VLANs together, several port resources with
their claims and the management path, the global resources. Next, in this order:

1. `PortRange` and the stanza splitter as functions against a reference definition.
2. Proofs: the properties of `Session` when deadlines pass over an echoing telnet session, and `SaveQueuedBehindAddress`.

Later components are to be composed so that one run checks several of them, since the existing runs already
take some ten minutes.

## 7. Not modelled

Text (formatting, prompts as regular expressions, error wording), attribute values that only select a line,
schema validation, SSH algorithms and host keys, data sources, test code and tools. The byte pump
(`newSessionClient`) is folded into the streams: what it has read and the client has not consumed is part of
`output`.

## 8. Running

Model-check with `tlc -config Port_safe.cfg MCEthernetPort` (the module of each run is in
`PROJECT.json`); check proofs with `tlapm SessionProofs.tla` (some five minutes),
`tlapm SessionStartProofs.tla` (some three), `tlapm ConnectionProofs.tla` (some ten), `tlapm MembershipProofs.tla` (some two),
`tlapm EthernetPortProofs.tla` (some four), `tlapm TrunksProofs.tla`, `tlapm PortWalkProofs.tla` and
`tlapm GlobalSettingsProofs.tla` (some eight). The longest
run takes about three minutes on two workers.
