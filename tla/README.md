# OPNmesh in TLA+

OPNmesh joins sites by WireGuard: one controller (a Next.js server on SQLite)
holds the plan of the mesh, and one gateway agent per site (a Go program that
runs as root) fetches its configuration and applies it to a Linux host. This
directory models the parts of both that are hard to test, checks them with TLC
and proves the most important results with TLAPS. Paths below are relative to
the repository.

## 1. The system

### Processes, and what interleaves with what

| process | runs | shared state |
| --- | --- | --- |
| controller | one Node process; SQLite is synchronous, so a handler or job runs alone between two `await`s | the database; module globals (live state, caches, throttles), lost on restart |
| background jobs (`src/server/jobs.ts`) | alerts 15 s, UniFi 20 s, rollups 60 s, expiry and pruning 10 min | the same; a job that awaits overlaps requests and other jobs |
| `opnmesh-gw run` | the daemon; systemd restarts it always | files in `/etc/opnmesh`, `meta.json`, kernel state |
| `opnmesh-gw up`, `down`, `rollback` | other processes, started by an operator or, `up`, by `opnmesh-wg.service` at boot before the daemon | the same files and kernel state, **without a lock** |
| `install.sh` | a shell script that may end between any two commands | the host's files, an enrolment token |
| a dashboard page | event streams, or polling when they fail | a session |
| UniFi console | an HTTP service that OPNmesh shares with its administrator | routes and policies |

The agent calls the controller (enrol, report, fetch, health check); the
controller calls the UniFi console and the mail server; nobody calls the agent.

### Components, their state and what makes them correct

| component | state | operations | what makes it correct |
| --- | --- | --- | --- |
| **Gateway agent** `agent/apply.go`, `commands.go` | three managed files and their `.prev`, `meta.json`; links, ruleset, `ip_forward`; the loop's `appliedHash`, `failedHash` | poll, fetch, apply, undo, maintain, up, down, rollback | firewall before forwarding; a failed apply leaves nothing behind; disk and kernel agree; the tunnel comes back; the controller's configuration is reached |
| its routes `wg.go` | routes on the interface | one `ip route` at a time, and back | the routes are those of the files in force |
| re-resolution `reresolve.go` | per peer: next look-up, back-off | look a silent peer's name up again | a peer that moved is found and stays found |
| reporting `commands.go`, `live.ts` | the interval, back-off; reports in hand | report, keep or drop | who waits as told is not refused |
| health checks `diag.go`, `diagnostics.ts` | request and answer per gateway, runs of the agent | request, hand out, run, probe the router, post, store | an answer belongs to its request; a probe tells the truth |
| checks of received files `validate.go` | none | accept or refuse | what the controller writes is accepted, with known exceptions |
| installer `install.sh`, enrolment | binary, key, credential, units | install, enrol again, upgrade | a failed run leaves the gateway as it was |
| **Configuration store** `sites.ts`, `settings.ts`, `snapshot.ts` | sites, networks, gateways; version; cache | edits, generate, hold, advertise, serve | served equals generated of now; held is neither advertised nor served |
| Enrolment `sites.ts` | tokens, gateways | issue, enrol, approve, replace, remove | a token is spent once; one gateway a site; one key a gateway |
| Findings and holds `validate.ts` | none | find errors, hold files back | what is handed out has no error in it, and no more than that is held |
| **Topology, generators** `src/core` | none; gateways and clients each run some version | pure functions; files applied one by one | each prefix on one peer; the plan's traffic and no other is delivered, no loops during a roll-out |
| Clients and invite links `clients.ts` | clients, invites | create, edit, rotate, expire, delete; issue, revoke, collect, prune | a link hands out once, and the present key |
| Sign-in `auth.ts`, `http.ts` | users, sessions, throttle buckets | login, logout, change password, setup, reset | a changed password ends other sessions; one first user; throttling counts every attempt |
| Telemetry `telemetry.ts`, `live.ts` | last report per gateway, samples, rollups, watermark | admit, store, forget, roll up, prune | a forgotten gateway stays forgotten; no sample is lost before its time |
| Verdicts `status.ts`, `diagnostics.ts`, `status-summary.ts` | last reports | judge | what is said of a tunnel, a port or the whole mesh is so |
| Live streams `app/api/admin/live`, `use-live.ts` | open streams, fast viewers, pages | open, frame, close, poll | every place is given back; a page without a session leaves |
| Shutdown, backup | hooks, timers, copies | stop, dump, start | nothing is left behind |
| **UniFi sync** `src/server/unifi` | per link: ids it owns, version it was synced for, time | pass, sync now, link, unlink | touches only its own objects; keeps them equal to the plan |
| Connection to a console `unifi/client.ts`, `unifi-panel.tsx` | the form, the link with its pinned certificate, the session | test, trust, save; sign in, call, give up | the key reaches no stranger; a change is carried out at most once |
| Alerts `alerts.ts` | `alert_state` per gateway; retry and grace in memory | a pass | one email per transition, none lost |
| Mail settings `alerts.ts`, `settings-forms.tsx` | the account and its sealed password; a form in each tab | save, test, send | a password reaches the account it was typed for |
| Data directory `env.ts`, `src/db`, `backup.ts` | the secret, the database with its log, copies | make or find the secret, migrate, back up, restore | what was saved opens, whatever failed |
| Tunnel addresses `sites.ts`, `clients.ts` | two ranges, an address a gateway and a client | give, keep, move the ranges | no two have one; a replacement has its site's |
| Pages and what they show `src/ui`, `app` | the forms and pages named above | present | only those, and the headline with its counters |
| Parsing, figures of the host, texts, cryptography | none of their own | I/O and presentation | not modelled |

Which behaviours are hard, line by line, is the list of hazards in
`PROJECT.json`: each names the properties that would catch it.

## 2. Modules

| module | models | theorems | instance |
| --- | --- | --- | --- |
| `GatewayAgent` | the daemon and the commands on one host; implements `FailClosed` | `GatewayAgentProofs` | `MCGatewayAgent` |
| `FailClosed` | what a gateway promises of its firewall (abstract) | | |
| `UnifiSync` | one UniFi link of one site | `UnifiSyncProofs` | `MCUnifiSync` |
| `Console` | how a site is linked to its console: form, probe, pin | `UnifiSyncProofs` | `MCUnifiSync` |
| `ConsoleCalls` | the calls a pass makes to it | `UnifiSyncProofs` | `MCUnifiSync` |
| `OneShot` | what a one-time secret promises (abstract) | | |
| `Invites` | clients and invite links; implements `OneShot` | `InvitesProofs` | `MCController` |
| `Fleet` | sites, tokens, gateways, settings; what is generated, cached, advertised, served; implements `OneShot` | `FleetProofs` | `MCController` |
| `Sessions` | accounts, sessions, setup | `SessionsProofs` | `MCController` |
| `Throttle` | counting of failed sign-ins | `SessionsProofs` | `MCController` |
| `Telemetry` | the history of reports | `ControllerProofs` | `MCController` |
| `Charts` | what charts show of it (extends `Telemetry`) | | `MCCharts` |
| `Checks` | health checks, both ends | `ControllerProofs` | `MCController` |
| `Install` | the installer and the enrolment's two ends | `ControllerProofs` | `MCController` |
| `Reporting` | how often to report and what is kept, both ends | `ControllerProofs` | `MCController` |
| `DataDir` | the secret, the database and its migrations, backups, start and end of the process | `ControllerProofs` | `MCController` |
| `MailSettings` | the mail account and its password in several tabs | `ControllerProofs` | `MCController` |
| `Addresses` | tunnel addresses and the ranges they come from | `ControllerProofs` | `MCController` |
| `LiveStreams` | dashboards, their streams, backups, stop and start | `LiveStreamsProofs` | `MCLive` |
| `Alerts` | the alert job | `LiveStreamsProofs` | `MCLive`, `MCAlerts` |
| `Reresolve` | how a gateway finds peers that moved | | `MCLive` |
| `Routes` | an apply's and an undo's routes | `LiveStreamsProofs` | `MCLive` |
| `Mesh` | the topology engine, the files it generates and the packets that follow them | `MeshProofs` | `MCMesh` |
| `Holds` | errors in a plan and what they hold back (extends `Mesh`) | `MeshProofs` | `MCMesh` |
| `Received` | values, the files written from them, and the agent's check | `MeshProofs` | `MCMesh`, `MCReceived` |
| `Verdicts` | tunnels, gateways' reports and what is said of them (extends `Mesh`) | `MeshProofs` | `MCMesh` |

*Composition.* `Holds` and `Verdicts` use `Mesh`'s topology and files; `Charts` reads
`Telemetry`'s tables; `Checks`, `Install`, `Reporting`, `LiveStreams`, `Received`, `Console`, `ConsoleCalls` and
`Verdicts` each have the controller's and the other end's halves in one module,
because what can go wrong lies between them. The other modules share no state in the
code but read-only tables, and are not composed.

Definitions a comment marks as `(mutant: ...)` are what a plausible bug would
make of the definition that follows them. Nothing uses them; they show that a
property would notice (`PROJECT.json`, "mutants").

### Instances that move one part

`MCController`, `MCLive`, `MCMesh` and `MCUnifiSync` each check several modules in one run. A variable
`part`, chosen at the start and constant, says which module takes steps; the others
keep their first state. So each part's behaviours are exactly those of its own
specification, and states add up instead of multiplying. Every property of the
others holds in their first states, so nothing is masked. For liveness, fairness is
asked of a part's actions only where that part moves. In `MCUnifiSync` the part `UnifiSync` has `alone`
in the same way: the link is used either by the job alone, nothing failing, or by everybody. Symmetry is used
in `MCController` only, and only over the constants of `Fleet`; no temporal property
with fairness is checked there.

### GatewayAgent

*State.* `file` and `prev` hold the version (or nothing, or an empty file) at
each managed path and its `.prev`; `meta` is `meta.json`; `tun`, `nft`, `fwd`
are the kernel's links, the loaded table and `ip_forward`; `desired` is what the
controller serves; `applied` and `failed` are locals of `cmdRun`; `pc`, `plan`,
`tx` and `rb` are where the daemon (`"run"`) and one command (`"cli"`) are and
their locals.

*Data.* A file's content is the version of the bundle it came from and a hash
is that content. What decides how a version is applied is kept apart: interface
name, `[Interface]` section, port. Versions may share a section (then only
peers are synced) or not (then the link is rebuilt), and may rename the
interface.

*Actions.* Every write, every command run on the host and every decision
between them is one action:

| code | actions |
| --- | --- |
| `cmdRun` (commands.go) | `Start`, `KeepFirewall` and `BringUp` (`maintain`), `Report`, `Unreachable`, `Fetch`, `Wake`, `HoldExpires` |
| `applyConfig`, `writeBundle` (apply.go) | `KeepPrev`, `Write`, `Drop`, `ApplyNft`, `ApplySysctl`, `Delete`, `Up`, `SyncPeers`, `SyncRoutes`, `Finish` |
| undo | `Restore`, `Undelete`, `Resync`, `Reroute` |
| `applyFromDisk`, called from four places | `Check`, `Load`, `Forward`, `Raise` |
| `rollback`, `tearDown` | `Command`, `Swap`, `SwapPrev`, `Lower`, `Unload`, `Record` |
| the world | `Publish` (the controller changes its mind), `Crash`, `Reboot`, `Flush`, `LinkDown` |

A step listed in `FailAt` may fail and a process may be killed before a step in
`CrashAt`. With `Interleave` a command may start, and act, between any two
steps of the daemon; without it a process works alone until it is done (a
crash still ends it anywhere). `MaxFaults` bounds failures, crashes, commands
and external events together.

*Promise.* `FailClosed` is the host as the comment at `apply.go:388` promises it: ruleset on disk, ruleset loaded,
forwarding, links. `Host` maps the agent's state to it (`nftables`, `nft`, `fwd`, the interfaces with a
link); `FailsClosed` says that without interleaving every step of the agent is one of its steps or none.

*Not in it.* ufw rules, restoring a lost private key, re-resolution, the
throttles on reloading the firewall and on bring-up (they only delay),
`enrol`, `once`, `status`, `diag`, and two commands at a time.

### UnifiSync

*State.* `obj` is the console: routes and the policy, some of them of others.
`plan` is what the mesh needs and `seen` whether the link's noted version is
the plan's. `link` is the row with the ids it owns. `run` holds the locals of
the background pass and of `Sync now`, `un` those of an unlink. `owned` is
history: every id OPNmesh ever created or took over.

*Actions.* One per stretch between two awaits: `Tick` and `SyncNow` begin,
`Sync` is the answer to the request under way and everything up to the next
request (list, one step of the plan, find, put or drop the policy, record),
`Unlink`, `ListOwned` and `DeleteOwned`, `SaveLink`, `ChangePlan`, and the
console's own administrator in `AdminDelete`. A request may fail before or
after the console carried it out; a sync that takes too long gives up at whatever
request it waits for.

*Not in it.* The port forward, the status shown, the check of a new
connection, several links in one pass, two unlinks at once, relinking to
another console. A controller restart does to console and row what a failing
request does, so it has no action.

### Console, ConsoleCalls

`Console`: `form` is the panel's state, `probing` a test of the connection under way, `siteLink` the row,
`syncing` the client a pass made from it. `shows` says which certificate each address shows now,
`ConsoleChanges` renews or replaces it at any moment, and `Public` which the system's authorities
vouch for under which name. The probe fetches the certificate over one connection
(`FetchConsoleCertificate`) and tries the credentials over the next ones (`CheckCredentials`); the fields
can be edited before its answer and after. `confirmed`, `vouched`, `gave` and `fresh` are history.
`ConsoleCalls` is one pass's calls: `wire` holds the request or the answer on its way; one that is
given up may be carried out later (`straying`, `HandleStray`). With a local account a call whose session has
run out signs in and asks again. Not in them: expiry dates, plain http, the fields of objects.

### DataDir, MailSettings, Addresses

`DataDir`: `keyFile` and `keySynced` are the secret's file as it is and as a power failure would leave
it, `mayBe` what such a failure can leave of the database (the latest commits of the log may be
missing). Tables go by name and their columns by the migration that added them, so that a
release can be asked whether it finds the columns it names and may leave out those it does not
know. A start is cut at each step (`LoadSecret`, `RenameKey`, `FsyncDir`, `OpenDatabase`, `Migrate`,
`Started`), and the administrator loses, puts back and restores. What a killed process left is taken to
reach the disk before the power fails. Not in it: a backup restored over a log left behind, another
secret given than the one the database was sealed with (section 3), the algorithms.

`MailSettings`: each tab has the account it loaded (`forms`), its save (`puts`) and its test email (`tests`) on
their way; a password is known by the account it was typed for. Not in it: TLS, recipients.

`Addresses`: the ranges, the addresses, and the operations that give, free and keep them, each one step as
in the code, which does not await there. `overlaid` is history. Ranges have at least four
addresses where the code asks for eight, and slugs, which are found in the same way, are left out.

### Invites

`client` and `link` are the two tables (a client's configuration is the
generation of its key), `req` the locals of each POST that collects a link:
the look-up and rendering before the await (`RenderConf`) and the spending
after it (`ConsumeInvite`). Every operation on clients and links is one action,
the ten-minute jobs `ExpireClients` and `PruneInvites` too; time passes in
`ExpiryPasses` and `LinkExpires`. `handed` counts, as history, how often a link
handed out. Not in it: changes of the configuration other than its key, the held configurations and rate limits that refuse a request
and change nothing.

### Alerts

`health` is what `gatewayHealth` says now, `row` which gateway the site has,
`alert` the row's `alert_state`. A pass is one action from its start
(`CheckGatewayAlerts`), or from the answer about one email (`Sent`, `NotSent`),
to the next email. It keeps, as the code does, the time and rows it began with:
`pass.seen` is the health at that time, or `online` once a report came in. `grace` and
`retry` are the in-memory waits, which `Restart` loses. `mails`, `told` and `cut`
(whose email a restart cut off) are history. An email that fails is taken as not delivered. Not in it: settings
and switches edited while a pass runs, and the length of the waits.

### Mesh

A *plan* is the snapshot `src/core/topology.ts` takes: per site whether it has a
gateway and an endpoint, its hub priority, what it shares, and the clients.
The operators from `MeshSites` to `ClientTransitViaHub` are that file's functions,
`Peers` to `ClientAllowedIps` what `generate/wireguard.ts` lists, `SiteRule` to
`Accepts` the forward chain of `generate/nftables.ts`, and `Generate` all files of
one plan. `plans` holds every version so far and `run` which one each gateway
and client runs; `Apply` brings one of them up to date, in any order. `conv`,
`pkt` and `tracked` are one conversation, its packet on the way, and what the
gateways' connection tracking has seen of it. `down` is a gateway that stopped.
External are WireGuard's two rules (a peer's AllowedIPs hold the source of what
is taken from it and the destination of what is sent to it), the kernel's
forwarding, and the hosts.

*Not in it.* Addresses and their overlaps (`Holds` has them; a prefix is a value of its
own here), masquerading, the
router's static routes (a host's packet reaches its gateway), DNS, connections
to a gateway's own address, the end of a tracked connection. Whether two
gateways can exchange datagrams is what the plan says.

### Fleet, OneShot

*State.* The tables `site`, `gw`, `enrol`, `range` (the settings), the `cache` of
what was generated, `live`, and the reports whose body is `awaited`; `served` is the last
answer, `gaveUp` history. A site's networks are one value; the same value twice is
the fault that holds a configuration back. *Actions.* One per operation of `sites.ts` and
`settings.ts`, each with its bump of the version; the agents' routes `BeginReport`,
`StoreReport`, `ReportFails` and `FetchConfig`; the ten-minute `PruneEnrolTokens`.
Where the code changes a table and bumps the version in two transactions,
the process may end between them; `StopController` ends it anywhere else. `OneShot`
says what a token and a link are for: issued once, spent at most once, never good again.
Not in it: which columns of a row an operation changes, slugs, what a configuration says.

### Sessions, Throttle

A password is the number of its hash. `call` is what a request holds across `argon2`:
sign-in, change of the password (two awaits) and setup. `RemoveAdmin` is the script that
removes the account, `ForgetMemory` a restart, and `overlapped` history. `Throttle` has the table of
buckets as a function and, in `older`, the order of JavaScript's `Map`, with pruning; an attempt is charged
(`Charge`), and the charge given back (`Refund`) or not (`Keep`) after the check. Not in
it: cookies as text, the cost of a hash, the equal time of a failed look-up.

### Telemetry, Charts, Reporting

`Telemetry` has admission, storing under the time of admission, rollups with the watermark
`mark` that is only in memory, what is dropped, downtime, and a clock that is set back. A
row is the set of the samples averaged in it. `Charts` adds which table a range is drawn from.
`Reporting` has the agent's wait and back-off and the controller's budget; a
step is half a second. The agent's jitter only lengthens a wait and is left out; an
apply takes no time. Not in them: rates and units, events, peers and pairs of
samples. The answer to a gateway that is pending or disabled names 15 seconds
(`app/api/agent/telemetry/route.ts` 21), which the agent does not look at (`commands.go`
197-200); the model follows the agent.

### Checks, Verdicts

`Checks` is one request's way through the controller, the agent's report, its run in the
background, and the post of the answer, each of which may be given up and still arrive;
a killed agent may run the same request again. Of the checks it has the probe of the site's router in
full: the steering rule, the marker, and who takes it down. `Verdicts` has tunnels
with handshakes that age by the minute, reports that may stop, and the texts' verdicts: of the
dashboard (`status.ts`), its headline and counters (`status-summary.ts`) and of the checks the controller
makes itself; the errors of a configuration, which the headline also counts, are in `Holds`. Not in them: the
checks that only read the host, pings' figures, texts.

### Install

The script's commands in order under `set -e`, each of which may fail, with power loss between
any two; the enrolment it makes, whose answer may be lost; a new machine, or one with an older
agent. Not in it: packages, a pinned private CA, `--no-start`.

### LiveStreams

Streams with their places, listeners, stop hooks and timers; pages that connect, fall back to
polling and are sent to sign in; a backup with its copy; stop, kill and start. `orphans` counts the
subscriptions of streams whose first frame failed (section 3). Not in it: what a frame says.

### Reresolve, Routes

`Reresolve`: a peer moves (`place`), its `name` follows or fails to resolve, the kernel's
`endpoint` follows a peer that dials in; a tick reads all handshakes and then sets
the silent peers one by one, while everything else goes on. `Routes`: an apply that changes only peers lists the
routes and then deletes and adds one at a time; so does its undo. Somebody at the host may
change routes in between, and commands fail.

### Holds, Received

`Holds` puts values that may be wrong (networks as sets of addresses; a tunnel address and
a key as one mark; endpoints) beside a plan of `Mesh`, finds what `validate.ts` finds, and
holds the files its `Reach` says. `Received` has what `settings.ts`, `sites.ts` and the routes take,
the statements `generate/` writes of it, `applyConfig`'s look at the interface's name, and `agent/validate.go`, statement by statement.
Texts are what the two parsers tell apart. Not in them: warnings, DNS, and the agent's look for missing and unknown
files and a wrong hash, of which `generateAll` gives no cause.

## 3. What the runs show

States are distinct states. On two cores every run takes under four minutes. There are
few runs, each with all that can go wrong on its instance at once.

| run | checks | shows |
| --- | --- | --- |
| `gateway_serial` | `FailsClosed`, `UndoRestoresFiles`, `AppliedIsRunning` | one fault of any kind anywhere, a rename and a section change among four versions: the agent implements `FailClosed`, nothing opens without the ruleset that is on disk; undo is exact; files that are what was last applied are what runs (885k states) |
| `gateway_up_races` | `NeverOpensBare` | `up` at any step of the daemon never opens without a ruleset (981k) |
| `gateway_recovers` | `TunnelComesBack`, `Converges` | after a fault, a rename included, the link comes back from disk, and with a controller that answers what it keeps asking for is reached, but for the exceptions the properties name (197k) |
| `unifi_all` | `OnlyOwn`, `Settles`, `ChangeIsSeen`, `TrustIsKept`, `CarriedOutOnce` | passes, the button, unlinks, relinking, a deletion by the console's administrator and a failure or lost answer never touch what is not ours, and the networks are routed in the end; the job alone keeps the console equal to a changing plan and picks up a change during a pass; the key goes only to a certificate that was confirmed or is publicly trusted, and a link saved as tested connects; a call's change is carried out at most once (105k) |
| `controller_parts` | `OneAdmin`, `OldPasswordOut`, `LimitHolds`, `NothingLost`, `ServedIsGood`, `LiveIsInMesh`, `AllOrNothing`, `ShownIsFound`, `ObedientIsKept`, `DataSurvives`, `PasswordStaysHome`, `AddressesHold`, `GivenIsCurrent`, `LinksAreOneShot`, `TokensAreOneShot` | each handler of the controller cut at its awaits, against the others and against the process ending; links and tokens implement `OneShot`; whatever is killed, lost or restored, what was saved opens; no two have one address (421k) |
| `controller_live` | `CountsMatch`, `CleanStops`, `AlertsAreTrue`, `RoutesRight`, `PageLeaves`, `PeerFound` | places of streams are given back however they end; a page without a session leaves; an outage is announced once and known in the end; peers that move are found; routes end as listed (102k) |
| `mesh_all` | `OnePeerPerPrefix`, `NoLoop`, `DeliversPermitted`, `SpofIsTrue`, `NewIsPermitted`, `HeldAsFarAsNeeded`, `RefusedAsKnown`, `ToldAsItIs` | 120 plans, an edit that moves the hub and restricts a client, applied in every order, and any one gateway down: a prefix has one peer, packets do not circle, a settled mesh delivers what the plan permits and nothing else, the report of single points of failure is exact, a new connection gets nowhere that no gateway's version permits, and to no client whose own file does not take it; what is handed out has no fault in it and what is held has one; of what the controller takes and hands out the agent refuses a network with a leading zero and four names of interfaces, and nothing else; what is said of tunnels, ports, gateways and the whole mesh is so four minutes after the last change (317k) |

Properties that belong together are one: `AllOrNothing` is `RefusedLeavesAlone` and `DoneMeansWorking`,
`ShownIsFound` is `KeptIsAnswer` and `RouterVerdictIsTrue`, `AlertsAreTrue` is `NoResend` and `AdminKnows`,
`HeldAsFarAsNeeded` is `HandedOutIsClean` and `HeldForAReason`, `ToldAsItIs` is `TunnelsAsTold`, `InboundAsTold`,
`HeadlineAsTold` and `CountsAsTold`, and `AddressesHold` is `OneAddressEach` and `ReplacementKeepsIp`.

Each of these runs expects a violation: the code does not do what the
repository says, and `PROJECT.json`, "findings", quotes the lines.

| run | property | what happens |
| --- | --- | --- |
| `gateway_down_races` | `NeverOpensBare` | `down` in another process removes the ruleset between the daemon's load and its switching forwarding on |
| `gateway_rename_crash` | `RebuiltAfterCrash` | killed in a rename, after the new interface is up and before `meta.json` names it: every later apply finds its port in use, by the agent's own link, and is refused |
| `alerts_restart` | `OutageIsMailed` | a restart while an email is being sent: nobody is told |
| `charts_6h` | `ChartsComplete` | the six-hour chart is drawn from samples kept for two hours |
| `agent_refuses` | `GeneratedIsAccepted` | a network typed with a leading zero is stored as typed and refused, with all the rest, by every agent that gets it |

### What else the models led to

Seen while modelling, explained by the lines named, and not claimed by any run.

Gateway agent:

- *Rollback.* The running daemon keeps `appliedHash` (`agent/commands.go` 140, 201) while
  `rollback` (334) runs in another process, so it does not fetch again until it restarts or
  the controller's configuration changes.
- *Killed in undo.* A step fails, `undo` puts the files back
  (`agent/apply.go` 263) and the agent is killed before it turns to the
  kernel (265-285): the files hash to what was applied, the kernel runs the
  other configuration, and a next configuration with the same `[Interface]`
  section only has its peers synced. It takes two faults; `AppliedIsRunning`
  is checked, and proved, with one.
- *A save of `meta.json` that fails* (303-305) is reported as a failed apply
  and not undone. `appliedHash` keeps the old hash, so a controller that goes
  back to the old configuration is not heard. `gateway_recovers` lets every
  step fail but this one.
- *A rename and a power loss* leave `meta.json` naming an interface without a
  file, so nothing is brought up from disk until the controller answers:
  the exception in `TunnelComesBack`.
- *Names the agent's check cannot take.* Any name of the right form is taken for the tunnel's
  interface (`src/server/settings.ts` 101) and no finding holds a file back for it. But `applyConfig` refuses
  `nftables`, `sysctl` and `wireguard` first of all (`apply.go` 63, `config.go` 112-122), whose WireGuard file
  would be one of the managed files, and `include`, alone or between hyphens, is refused as a statement (`validate.go` 286, 335).
  Until the name is changed back every gateway refuses its whole configuration. `RefusedAsKnown` says so, and
  that nothing else but the leading zero above is refused. A name like `masquerade` makes the controller's own check of the
  NAT rules (`src/core/validate.ts` 398) hold every gateway that is not in that layout.
- *Installer.* A kill between creating and filling `private.key` leaves it empty
  (`install.sh` 229-230), and a later run takes it for a key; the pinned CA is replaced before
  the enrolment that may be refused (172-199).
- *Health checks.* When an answer cannot be sent, the request counts as run (`diag.go` 110), so the page waits until its time is over.

Controller:

- *UniFi, overlap.* Nothing keeps `Sync now` (`sites/[id]/unifi/sync/route.ts` 8-18)
  from overlapping the pass. Each writes the ids it read before its first await over
  those the other recorded (`src/server/unifi/index.ts` 224, 253-257), so a route of a
  plan since changed may stay. Equality is checked for the pass alone.
- *UniFi, partial failure* (260-265): a route created
  before a failing request, and not wanted any more by the next pass, stays. The
  id of a policy whose deletion failed is dropped (`reconcile.ts` 203-211). So
  equality is checked without failures.
- *UniFi, adoption* (`reconcile.ts` 44-54): a route the administrator has
  disabled is adopted, and then enabled.
- *UniFi, unlink* (`index.ts` 190-197): a sync under way creates what unlinking
  with removal does not remove.
- *Mesh, restriction and inbound.* The rule by which sites may open connections to
  a client with `allowInbound` (`generate/nftables.ts` 199) does not look at the
  source. From a site the client is not allowed, only the client's own AllowedIPs
  refuse such a connection, so with a client file from before the restriction it
  is delivered. Its consent is not tied to that file either: a gateway that runs a newer
  version with `allowInbound` lets in what only the client's older file takes, so that
  neither version permits the whole. `NewIsPermitted` therefore asks the two of a connection
  towards a client apart, and of the gateways' versions only for those a client opens. A
  connection that exists outlives a restriction (190).
- *Mesh, the removed.* A gateway that was taken out of the plan, or a client that was disabled, keeps what it
  runs until somebody stops it; the others drop it from their files, but two of the removed still talk to each
  other. `Converged` therefore asks that whoever is not in the plan has stopped.
- *Streams.* A first frame that fails ends the stream before its subscription and timer exist;
  they are then made and never ended (`app/api/admin/live/route.ts` 73-97): `orphans`.
- *Late samples.* The comment at `telemetry.ts` 207-209 says that a completed minute never gains
  rows; it gains a sample whose body was awaited across its end, and the pass may have
  been by then: `late`.
- *Answers.* `storeAgentReport` says an answer is kept once (`diagnostics.ts` 222-238), but two
  posts whose look-ups both came first are both kept. A request made in the millisecond of the
  previous answer counts as answered (160-162). `agentChecks` is not idempotent for a
  text that was cut after a space (85-113).
- *Settings* of the network are stored although the mail settings of the same request are
  refused (`app/api/admin/settings/route.ts` 39-40).
- *Inbound check.* After a restart of the controller it blames the router while the site's own report is
  missing or old, although the comment at `diagnostics.ts` 352-353 says only current reports count.
  The tunnel check takes an old report's round trip where the dashboard ignores it.
- *Leading zeros* are taken in ranges and endpoints as well as in networks.
- *Linking a console.* A certificate that a probe finds publicly trusted becomes `trusted` without anybody
  pressing Trust, and may be pinned at another address typed since, although the panel says of it "The
  certificate you confirmed" (`src/ui/site/unifi-panel.tsx` 270). After a test the address can be edited and
  saved untested; then `TrustIsKept` promises no more than that no stranger gets the key.
- *Mail form.* `save()` keeps its error to itself, so "Save and send a test email" after a refused save sends
  with the old settings and puts "Test email sent" over the error. A tab loaded before the server was
  changed elsewhere moves it back, which clears the password saved there, and says only "Saved.". A test
  email also ends the pause after a failed alert (`alerts.ts` 223-225).
- *Secret.* Killed between the rename of `secret.key` and the sync of its directory, the next start does not sync it
  again. A start with another `OPNMESH_SECRET`, or with a database restored beside another `secret.key`, succeeds and then
  cannot open what is stored; the documentation says to keep both together, and the model does.
- *Addresses.* An enrolment looks for a free address among gateways only (`sites.ts` 356), a new client among both
  (`clients.ts` 86-89). After the gateways' range was moved over a client's address a new gateway may get it;
  `validate.ts` reports it and holds both back. `AddressesHold` excepts that (`overlaid`).
- *Headline.* It says that every connection is healthy although a tunnel's pings get no reply: "handshake-only"
  counts neither as up nor as down. `HeadlineAsTold` says "pings apart".

### What the proofs led to

- *`ObedientIsKept`* first said that a gateway which three times waited as told is not refused. The attempt to prove it
  failed: with an interval that is raised twice (1 s, 7 s, 60 s) one that obeys is refused once, which the instance with
  two intervals could not show. The property now starts anew at a change of settings that makes the interval
  longer, asks for two waits only, and is proved for all intervals.
- *`DeliversPermitted`* could not be proved of a mesh that had only brought those in the plan up to date: two
  removed ones may still converse (above). `Converged` now says that they have stopped.
- *`NewIsPermitted`* first said that some one version that runs permits the connection. That is false for other
  plans than the instance then had, as the attempt to prove it showed (above). The instance now has such an edit, on which
  TLC refutes the old form.
- *`LimitHolds`* could not be reasoned about while the table was a sequence filtered by `SelectSeq`. It is a function
  beside its order now, with the same states.
- *`AppliedIsRunning`* needed that no bundle hashes to `None`; the assumption that was to say so said nothing
  (`None` was taken out of the set first). It now speaks of links and bundles, which is what hashes are made of.
- *`ToldAsItIs`* said that the headline is "working" where nothing is wrong. Of a mesh without any gateway that is false:
  it says that there is none yet (`status-summary.ts`). The property now speaks of meshes with a gateway, and the
  instance has an empty plan too.
- *`FetchAndCheck`* began with the files and left out what `applyConfig` does before, the look at the interface's name. What
  the agent refuses was then excluded by hypotheses; `RefusedAsKnown` names it, both ways, and the instance has all of it.
- *`Received`* left open what kinds of endpoint there are, and nothing could be proved of a kind nobody had listed;
  `HostKinds` are the four that the controller's and the agent's checks tell apart, the malformed ones included.

### Bounds, and why they are enough

- *Gateway.* `v1` and `v2` differ in peers only, `v4` in the section, `v3` in
  section and name. In `gateway_serial` one fault is a failing step with its
  undo, a crash, a command or an event outside; the proofs cover any number of
  them for everything but `AppliedIsRunning`, which is false with two (above) and is proved for one. `gateway_up_races` allows two. One
  command at a time.
- *UniFi.* Two networks, two next hops, plans with and without a policy; ids
  suffice for every create within the bounds. With everyone at work, four things in all
  (a fault, a deletion, two clicks, one change of plan) in any order; alone, three
  changes, at any moment of a pass. *Console.* A name and a bare address, a certificate of the console's own, one
  publicly trusted, its renewal and a stranger's; two tests, so that one answer can meet another's form; two
  changes of certificate. *ConsoleCalls.* Two calls, so that the first may be carried out during the second.
- *Sessions.* Two requests race; two accounts, three hashes: old, new, and of an account
  made after a removal. *Throttle.* Limits of one and two with two overlapping attempts,
  one window and the next, a table of two with a third address to push one out.
- *Invites.* One client and three links: one replaced, one used, one new. Two requests are enough for
  two to race. *Fleet.* Two of everything: one replaced or in conflict with another.
- *Telemetry.* Two samples, a minute of two ticks and an hour of two minutes, so
  that a row can be complete, half full, or late. *Checks.* Two requests, one answer on its way at
  once, one killed agent; with routes in every state, one request.
- *Install.* Three commands: a first, one that fails, one that repairs. *Reporting.* Intervals of
  two and six seconds, a longest pause of eight, so that back-off doubles and is clamped; one trouble and two switches
  between any two reports.
- *DataDir.* Two secrets, the old and one made new; three releases, each with a migration more. *MailSettings.* Two
  tabs and two saves in any order, three accounts. *Addresses.* Two of each; two neighbouring ranges of two
  addresses, each full when everybody is there, and a wider one.
- *Streams.* One page, which may be back before its old stream has ended; two sessions; two places, as many as a session
  may have. *Alerts.* Two sites, so that one waits while the other's email is sent; two
  outages, so that the first one's email can be in flight in the second; one
  replacement, refusal and restart each. *Reresolve.* Two peers, one lookup waits for the other; two moves. *Routes.* Two applies, two
  refused commands, one meddler.
- *Mesh.* Four sites are the fewest with a relayed pair and a choice of two hubs;
  a third that is relayed for a client; networks shared or not; a client disabled, open,
  restricted to nothing, to an entry or to a relayed site, with and without a preferred
  entry and inbound. All first plans combine these; one edit between two of them, either
  way, changes hub and client at once: it is restricted and may be called, or neither. One gateway stops, before the conversation
  and any edit. A packet passes at most four gateways, more than any path has (`MeshAssumption` asks for the three of the
  longest). One edit suffices for two versions to meet; the proofs allow any number. *Holds.* Nothing wrong, or one thing
  (two owners alike count as one), moved along the edits. *Received.* Two changes: one statement
  depends on at most two values; numbers at, below and above every limit; every name of an interface that one end knows, and networks with a leading zero; a gateway with
  none, one, all but one and all of the traits that add statements. *Verdicts.* One upset after any
  history, in two meshes and in an empty one, and all that ages: ages stop counting where no threshold is left.

Deadlock is checked in every passing run. Where a part comes to rest (routes applied, changes
used up) its stuttering is a step of the instance.

### Fairness

- `GatewayAgent!FairSpec`: weak fairness on the daemon's steps and on a
  command's: systemd restarts the daemon (`Restart=always`), its loop has no
  exit, every command it runs returns or fails. `ControllerAnswers`, which
  `Converges` assumes and `TunnelComesBack` does not, is strong fairness on
  `Report` and `Fetch` (a controller that answers again and again, although not
  every time) and on `HoldExpires` (five minutes pass).
- `UnifiSync!Fairness`: weak fairness on each request under way, which is answered or
  runs into the client's time limits, and on the job's tick while a change is
  pending. `TimePasses`, which `Settles` assumes, is fairness on the tick
  the ten-minute refresh makes due; `ChangeIsSeen` does without it, so that only the
  change itself can make the pass due.
- `Alerts!AlertFairness`: the same for the alert job and its emails; time passes.
- `LiveStreams!StreamFairness`: the timer that checks a stream's session fires, a broken connection is
  noticed, a page goes on trying to connect or poll, a stopping process exits and the container is
  started again. Nothing makes anybody open or close a page.
- `Reresolve!ReresolveFairness`: the agent ticks and looks names up, time passes, a
  name's owner updates it in the end, and a peer answers where it is. Nothing makes a peer dial in.

## 4. What is proved

For every value of the constants that meets the named assumptions, with no
bound on faults, clients, links, requests, gateways or objects:

| theorem | property | argument |
| --- | --- | --- |
| `GatewayAgentProofs!TypeCorrect` | `TypeOK` | inductive together with `LocalsInUse`: a process in the middle of its work has the locals that work reads |
| `GatewayAgentProofs!AgentFailsClosed` | `FailsClosed` | assuming `~Interleave`: each step is a step of `FailClosed` or a stutter |
| `GatewayAgentProofs!FirewallFirst` | | `OpensOnlyFiltered`, which follows from it |
| `GatewayAgentProofs!UpNeverOpensBare` | `NeverOpensBare` | assuming `up` is the only command and nobody flushes the ruleset; any interleaving |
| `GatewayAgentProofs!UndoIsExact` | `UndoRestoresFiles` | assuming `~Interleave` |
| `GatewayAgentProofs!AppliedAlwaysRuns` | `AppliedIsRunning` | assuming `~Interleave` and `MaxFaults <= 1`; inductive with the three above |
| `UnifiSyncProofs!TypeCorrect` | `TypeOK` | inductive with the next |
| `UnifiSyncProofs!TouchesOnlyItsOwn` | `OnlyOwn` | every id remembered anywhere is owned |
| `UnifiSyncProofs!TrustAlwaysKept` | `TrustIsKept` | every certificate kept to be trusted may be |
| `UnifiSyncProofs!AlwaysCarriedOutOnce` | `CarriedOutOnce` | where a call stands says what may be on its way |
| `InvitesProofs!TypeCorrect`, `HandsOutOnce`, `LinksFollowClients`, `HandsOutCurrent` | `GivenIsCurrent` | one inductive invariant |
| `InvitesProofs!LinksImplementOneShot` | `LinksAreOneShot` | each step is a step of `OneShot` or a stutter |
| `SessionsProofs!SessionTypes`, `AlwaysOneAdmin`, `AlwaysOldPasswordOut` | `OneAdmin`, `OldPasswordOut` | one inductive invariant |
| `SessionsProofs!LimitAlwaysHolds` | `LimitHolds` | what was counted in a window is still charged |
| `FleetProofs!TypeCorrect`, `AlwaysServesGood`, `AlwaysLiveInMesh` | `ServedIsGood`, `LiveIsInMesh` | one inductive invariant |
| `FleetProofs!TokensImplementOneShot` | `TokensAreOneShot` | each step is a step of `OneShot` or a stutter |
| `LiveStreamsProofs!CountsAlwaysMatch`, `StopsAreClean` | `CountsMatch`, `CleanStops` | one inductive invariant; lemmas on counting |
| `LiveStreamsProofs!RoutesAlwaysRight` | `RoutesRight` | once listed, only what a command is still to come for is wrong |
| `LiveStreamsProofs!NeverResent` | `NoResend`, half of `AlertsAreTrue` | what is due was not mailed |
| `ControllerProofs!AlwaysDataSurvives` | `DataSurvives` | only one secret ever seals |
| `ControllerProofs!PasswordAlwaysHome` | `PasswordStaysHome` | the password in the settings is its account's |
| `ControllerProofs!AddressesAlwaysHold` | `AddressesHold` | what is given is nobody's |
| `ControllerProofs!AlwaysAllOrNothing` | `AllOrNothing` | how far a run has come says what it changed |
| `ControllerProofs!AlwaysShownIsFound` | `ShownIsFound` | a run begins after what it was asked for |
| `ControllerProofs!ObedientAlwaysKept` | `ObedientIsKept` | a wait as told has earned a report |
| `ControllerProofs!NothingEverLost` | `NothingLost` | the mark is never ahead of what is averaged |
| `MeshProofs!OnePeer` | | for every plan: by which hop or route a prefix is listed |
| `MeshProofs!TypeCorrect`, `OnePeerAlways`, `NoLoopAlways` | `OnePeerPerPrefix`, `NoLoop` | one inductive invariant |
| `MeshProofs!AlwaysDeliversPermitted`, `ReportAlwaysTrue` | `DeliversPermitted`, `SpofIsTrue` | a packet keeps to the way the plan has for it |
| `MeshProofs!NewAlwaysPermitted` | `NewIsPermitted` | a new connection is let in by a rule, not by tracking |
| `MeshProofs!AlwaysHeldAsNeeded` | `HeldAsFarAsNeeded` | an error reaches exactly the files that name its owner |
| `MeshProofs!AlwaysToldAsItIs` | `ToldAsItIs` | what is fresh was made since the last change |
| `MeshProofs!AlwaysRefusedAsKnown` | `RefusedAsKnown` | assuming `FirewallTaken` of each place in the mesh |

The type invariants of these modules are proved, and so are not run again. The module `ControllerProofs` has the
theorems of seven modules, `LiveStreamsProofs` those of `Alerts` and `Routes` too, `UnifiSyncProofs` those of `Console` and
`ConsoleCalls`, `SessionsProofs` those of `Throttle`, `MeshProofs` those of `Holds`,
`Received` and `Verdicts`. Bounds that are named as such in a module (`MaxFaults`, `MaxRuns`, ...) are constants of which the proofs
use no more than that they are numbers; excepted are `AppliedAlwaysRuns` and a packet's `MaxHops`, which must be the three of the
longest way.

*AgentFailsClosed, FirewallFirst.* `FailClosed` has the ruleset on disk, the one in the kernel, whether the host
forwards and which links are up; rulesets are replaced whole, that of the disk is the only one
loaded, and forwarding or a link comes only under it. The mapping is of state: `nftables` on disk, the table,
`ip_forward`, the links. But the agent's ruleset was loaded steps before it opens anything, possibly
by another call. `FilterInv` carries the fact between: at most one process is
at work; the ruleset on disk is never empty, nor is the copy `rollback` would
put there, nor any copy an apply saved; past its load an apply has the wanted
ruleset on disk and in the kernel; past its load `applyFromDisk` has the one on
disk, or has nothing to open. That a step opens only under the ruleset on disk (`OpensOnlyFiltered`) holds of
`FailClosed` itself, so `FirewallFirst` follows. The assumption is needed: with interleaving
`gateway_down_races` violates even the weaker `NeverOpensBare`.

*UpNeverOpensBare.* Of two processes at work at once, one may have read a disk that the other has since rewritten, so
which ruleset is in the kernel cannot be said; that there is one can. `UpInv`: past its load a process finds some table
loaded or has nothing to open (`SomeTable`), because loading replaces a table by a table, no ruleset a process holds or the disk
has is empty, and only a power failure takes the table away, which ends both processes too. An apply or
`down` that removes it is what the two assumptions exclude: `gateway_down_races` shows the first to be needed, and a
table flushed between load and open is bare by definition.

*UndoIsExact.* `UndoInv` says which paths an apply has not touched and, during
the restore, which of the seven saved slots have been put back so far.

*AppliedAlwaysRuns.* The property looks at the daemon between two passes: if the files hash to what `meta.json` says was
applied and the link is up, the link and, as far as they are there, ruleset and forwarding are those of the files. Between
two looks the files are rewritten one by one, the kernel is brought after them step by step, and any of that may fail, be
undone or be cut off. `RunningInv` has a part for each: what `applyFromDisk` read is still on disk (`DiskRead`); a rollback
has the link down before it brings up what it put in place (`CommandRuns`); an apply knows whether the
files it found were those applied, so that the old link ran them (`OldRuns`), and syncs peers only on a link with the same
section (`CanSync`); what it has written so far (`Written`); an undo puts back the files and, unless it rebuilds the link, finds it
as it was (`UndoRuns`). Before the first fault, files and record always agree, and no apply is of the version
already recorded (`Unfaulted`): that is why files written half way never pass for what was applied. An undo runs only
after a fault; with `MaxFaults <= 1` nothing cuts it short. With two the property is false (section 3).

*TouchesOnlyItsOwn.* `RememberedIsOwned`: every id on the row, in the locals of
a sync or of an unlink, is in `owned`, although the rows are overwritten by
stale ones, ids are lost, links deleted and made anew. Losing ids is possible
(section 3); gaining a foreign one is not.

*TrustAlwaysKept.* `PinsAreGood`: whatever is kept to be trusted, in the form, in a probe under way, on the row or in the
client of a pass, was confirmed or was publicly trusted where a probe found it. `FreshStays`, for the
second half: of what was tested and not edited since, the pin it would be saved with connects; renewals matter
only to a certificate that is publicly trusted, and such a one is not pinned.

*AlwaysCarriedOutOnce.* `CallInFlight`: where a call stands and what is on the wire determine whether its change can have been
made. A call that signs in again was refused for want of a session, and so has changed nothing yet; one given up while its
request is out leaves a stray and is never sent again.

*HandsOutCurrent.* `BuiltIsCurrent`: while the link a request looked up is
unused, the key it read is the client's. Every step that changes the key, or
disables the client, deletes its unused links in the same step, and no link
becomes unused again.

*AlwaysOneAdmin, AlwaysOldPasswordOut.* `NoneBeforeSetup`: until setup is complete there is no
account, so whoever looks again after the await sees what another request made meanwhile.
`CheckedHash`: the hash a waiting sign-in has read is still its account's, or was replaced while it waited
(`overlapped`), or the account is gone for good (`RemovedAreGone`). So the sessions that survive a change
of the password are those of sign-ins that overlapped it, and the theorem says no other does.

*LimitAlwaysHolds.* `StillCharged`: the wrong guesses counted in the watched window, less the charges it returned for an
earlier one, are in its bucket's count, which is raised only below the limit. It needs the charge to be made before the await,
and that pruning takes whole buckets, never the one just opened (`TableFacts`): a window whose bucket is gone is over.

*AlwaysServesGood.* `CacheIsCurrent`: a cache that is there is what would be generated now. Whoever changes
a table drops the cache in the same step, or ends with the process and its memory. *AlwaysLiveInMesh.*
`AwaitedIsKnown`: a report that is awaited is of a gateway in the mesh, or of one that has left since.

*LinksImplementOneShot, TokensImplementOneShot.* The mapping is of states: `good` are the unused rows,
`over` the used and the removed ones, `uses` how often each gave its result. A step of
the code may withdraw several secrets and spend one at once (an enrolment uses a token and deletes
the site's others), and `OneShot` allows for that.

*CountsAlwaysMatch.* The counters are kept by hand, one up where a stream starts and one down where it
ends. The invariant is that they are the cardinalities, and that the stop hooks are those of the streams there
are, so that a stop ends all of them; the lemmas say what adding or removing
elements does to a cardinality.

*RoutesAlwaysRight.* `OnlyLeftIsWrong`: once the routes were listed, one that differs from the files is still in the plan, or
is odd (its command failed, or somebody at the host touched it, which no step can prevent); nothing wanted is planned to be
deleted. The undo, which lists anew, establishes the same against the old files.

*NeverResent.* For each site the pass is compared with the present: `SeenBefore` (what it saw is so still, or
was before the gateway recovered, fell silent again or was replaced), `DueIsNew` (the email that will be due when the pass
comes to the site is not delivered), `UnderWay` (the one whose answer is awaited is claimed on the row, and not
delivered). They rest on the claim being made on the row before the email, conditional on what the pass had read.

*AlwaysDataSurvives.* `OneSecret`: as soon as a controller has run, a secret found anywhere is the one it ran with, or none or
a damaged one, and everything sealed, in the database, in what a power failure can make of it and in a
backup, is sealed with it. `NoneWithout`: without a secret there is no database, unless the administrator mislaid the
secret; so a new one is made only where nothing is sealed. `StartsInOrder`: the secret is synced before the database is opened,
and a release runs on no fewer migrations than it ships; of those that later ones made it may leave the columns out.

*PasswordAlwaysHome.* Beside an account lies its password or none: every save that changes server, port
or username keeps it only if one was typed. *AddressesAlwaysHold.* `NextFreeIp` gives an address of the range that is in no use
(that it exists needs the least element of a set of numbers), and `Apart`: no client's address is in the gateways' range
unless that was moved over it. It is needed because an enrolment looks at the gateways only.

*AlwaysAllOrNothing.* `NothingYet`: until its token is spent a run has changed nothing but what is staged; `InstallInOrder`: from the
answer on, what the controller has for the site is what the run has or has stored. *AlwaysShownIsFound.* `InTime`: a run,
and what it posts, began no sooner than its request; `OneRun`: the network under probe is steered to the router, and by no other
run.

*ObedientAlwaysKept.* The controller earns a gateway reports by its own clock, the agent waits by its. `WaitIsSeen`: the
controller has seen at least what the agent has slept since it was told; `NextIsEarned`: after the second wait a
report is in hand, or the wait that has begun is as long as what it will be measured by.

*NothingEverLost.* `RowsAreOver`: only minutes and hours that a pass has been over (`passed`) are averaged. `KeptInTurn`: a
sample that was there in time is raw until then, in its minute until a pass is over its hour, and then in its hour until that
is too old. The mark is never ahead of `passed`. What a pass drops for its age it has averaged before, because samples are kept at least a minute and
minutes at least an hour; a restart puts the mark back and a clock set back lets a pass see old time again, and both only repeat averages.

*OnePeer.* On one gateway the peer that lists a site's prefix is the next hop to the
site, and the peer that lists a client's is the client's route, itself if it is a
peer: functions of the prefix, whatever the plan.

*NoLoopAlways.* `Trail`: every gateway on a packet's path took it from the one
before it. By `OnePeer` a gateway takes a source from one peer only, whichever
version it runs, so coming back to a gateway would mean coming from where the
packet came the first time, and in the end to the origin, which takes its own
network's (or its client's) packets from no gateway. Versions need not agree for
this; that a gateway does not change while the packet is on its way is assumed
(`steady`).

*AlwaysDeliversPermitted, ReportAlwaysTrue.* `Way` is what the plan means: directly if one of the two can be dialled, else over the first
hub; a client over its entry, or its relay and the site. Two lemmas say that the files agree with it. `WayCarries`: on each
gateway of the way the destination is listed on the next alone, and the next lists the source on the one before. `WayAdmits`: each
forward chain lets a new connection of the plan pass. The converse is `LetInIsPermitted` and `LetOutIsConsented`: the last
gateway accepts nothing else. `DeliveryInv` follows the packet while everyone runs the plan the conversation began under: it is
on its way, everybody it passed has tracked it, and once the conversation has taken place everybody on the way has, so that answers, whose
way passes the same gateways (`WayBack`), are let through and not dropped as invalid. So a packet is lost exactly if a gateway on the way is
down, and `ReportIsTrue` says by cases that those are the gateways the report names. That a first hub exists is the least element of a set of
numbers, by well-founded induction.

*NewAlwaysPermitted.* Nobody has tracked an answer of a connection that is new, so every gateway lets it in by a rule of the
version it runs; the last one's rule, with the client's own AllowedIPs, gives what the property says.

*AlwaysHeldAsNeeded.* `validate.ts` says how far an error reaches from the topology, without looking at a file. The
argument shows that to be an equivalence, `ReachIsAbout`: an error in a site or client reaches a file exactly if the file is
theirs, names them, or names a network of theirs; four lemmas, one for each pair of kinds. `FaultIsFound` and `FoundIsFault` go through the findings
in both directions. The two that reach the one file they were read off, of a prefix listed twice, need
`HoldsAssumption`: no network is empty, none has the text of a tunnel address. The code sees to both: a
network is a parsed CIDR, and one inside a tunnel range is an error of its own (`validate.ts:147-155`).

*AlwaysToldAsItIs.* What the controller has of a gateway is a row of several ages: when it last reported, how old the
handshakes were that it reported, what it kept of peers it no longer hears. `VerdictsInv` relates each age to `quiet`, the time since the last change:
a handshake, a report or a record is either older than what counts as fresh, or was made since the change and so is
of the tunnels, links and clients there are now; a gateway that is linked has reported a minute ago or less. After `SettleTime`
no record from before the change is fresh any more, and the five readings (checks of tunnels, of inbound ports, of
reporting and configuration, the headline and the counters) are read off one by one.

*AlwaysRefusedAsKnown.* Each statement a file may contain depends on few values, and for each kind of value a lemma says that what
`settings.ts` or `sites.ts` lets through is written as something the agent takes (`Replaced` for the changes; numbers by
their limits on both sides, prefixes by the text `parseCidr` gives back, endpoints by the kind of their host). The
theorem says in both directions what is refused: a line with a network of leading zeros is in the file and refused
wherever another site is reached (`HoldingJoined`), and the four names always are. Its one hypothesis is `FirewallTaken`: the agent reads the forward chain by folding over its tokens, and what a fold computes for every input is
an induction over data. TLC evaluates it instead, for the shapes of the instance in every run of `mesh_all`, of which
`RefusedAsKnown` is a property; there are 256 shapes in all.

*Only model-checked.* Liveness (`TunnelComesBack`, `Converges`, `Settles`, `ChangeIsSeen`, `PageLeaves`, `PeerFound` and `AdminKnows`,
the other half of `AlertsAreTrue`) is out of the proof system's reach, and so is `FirewallTaken`, above, for the reason given there.
Every other property of a passing run is proved, those of the agent under the assumptions named.

## 5. Plan

What the parts marked "partly" leave out: the UniFi port forward, the alerts' settings edited in a pass, ufw.

## 6. Not modelled

Collecting of figures on the host, the agent's HTTP client (its outcomes are the other modules' failures), checks of single
requests, the parsing of a console's answers, the algorithms of cryptography, the router's static routes, and of the
dashboard what only presents: parsing, I/O or presentation, without state of their own to go wrong in an order. The
agent's `once` is one turn of the loop; `status` reads.

## 7. Running

    tlc -config MCGatewayAgent_serial.cfg MCGatewayAgent
    tlapm GatewayAgentProofs.tla

A run's cfg is named after its module; `PROJECT.json` lists all of them.
