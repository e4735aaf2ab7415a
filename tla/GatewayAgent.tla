---------------------------- MODULE GatewayAgent ----------------------------
(***************************************************************************)
(* The gateway agent (agent/*.go): the `run` daemon that polls the          *)
(* controller and applies its configuration to a Linux host, and the        *)
(* command-line processes `up`, `down` and `rollback` that work on the same *)
(* files and the same kernel state without a lock.                          *)
(*                                                                         *)
(* A configuration is a bundle of three files: the WireGuard file, named    *)
(* after the interface, nftables.conf and sysctl.conf.  The content of a    *)
(* file is the version of the bundle it came from, and the hash of a set of *)
(* files is that set of contents.  What two versions may share, and what    *)
(* decides how they are applied, is kept apart: the interface name, the     *)
(* [Interface] section and the UDP port inside it.                          *)
(*                                                                         *)
(* Every write of a file, every command run on the host and every decision  *)
(* is a step of its own, so a process can fail, be killed or lose power     *)
(* between any two of them, and the processes can interleave.               *)
(***************************************************************************)
EXTENDS Naturals, Sequences, FiniteSets

CONSTANTS
  Versions,      \* configurations the controller may ask for
  Ifaces,        \* WireGuard interface names
  Sections,      \* distinct [Interface] sections
  IfaceOf,       \* version -> interface name
  SectionOf,     \* version -> [Interface] section of its wireguard.conf
  PortOf,        \* section -> UDP port
  DefaultIface,  \* the name loadMeta falls back to, "opnmesh0"
  None,          \* no file, no link, no table, no hash
  Empty,         \* a file of no bytes
  CliOps,        \* commands an operator may run: "up", "down", "rollback"
  Externals,     \* what others do to the host: "flush", "linkdown", "reboot"
  Interleave,    \* may other processes act in the middle of a process's work?
  FailAt,        \* steps whose command or write may fail
  CrashAt,       \* steps before which the process may be killed
  MaxFaults      \* bound on failures, crashes, commands and external events

RunLabels == {"down", "idle", "keep", "bring", "report", "fetch", "keepprev",
              "write", "drop", "nft", "sysctl", "del", "up", "sync", "routes",
              "finish", "unwrite", "restore", "undel", "resync", "reroute"}
CliLabels == {"idle", "swap", "swapprev", "lower", "unload", "record"}
\* applyFromDisk, called by maintain, by undo, by `up` and by `rollback`
DiskLabels == {"check", "load", "forward", "raise"}
Labels == RunLabels \cup CliLabels \cup DiskLabels

Contents == Versions \cup {None, Empty}
Paths == Ifaces \cup {"nftables", "sysctl"}
Hashes == [wg : Contents, nftables : Contents, sysctl : Contents] \cup {None}
Links == [section : Sections \cup {None}, peers : Contents,
          routes : Contents]

Plans == [iface : Ifaces, parts : SUBSET {"wg", "nftables", "sysctl"},
          ret : {"report", "resync", "record", "idle"}]
Transactions == [want : Versions \cup {None}, old : Ifaces,
                 file : [Paths -> Contents], prev : [Paths -> Contents],
                 restart : BOOLEAN, touched : {"no", "synced", "restarted"},
                 n : 0..7, err : BOOLEAN]
Rollbacks == [op : {"up", "down", "rollback", "boot"}, iface : Ifaces,
              n : 1..4, cur : Contents, some : BOOLEAN, err : BOOLEAN]

ASSUME ConstantsAssumption ==
  /\ None \notin Versions /\ Empty \notin Versions /\ None # Empty
  /\ None \notin Sections
  /\ None \notin Links
  /\ None \notin [wg : Contents, nftables : Contents, sysctl : Contents]
  /\ DefaultIface \in Ifaces
  \* validInterfaceName: no interface's file lands on another managed file
  /\ Ifaces \cap {"nftables", "sysctl"} = {}
  /\ IfaceOf \in [Versions -> Ifaces]
  /\ SectionOf \in [Versions -> Sections]
  /\ DOMAIN PortOf = Sections
  /\ CliOps \subseteq {"up", "down", "rollback"}
  /\ Externals \subseteq {"flush", "linkdown", "reboot"}
  /\ Interleave \in BOOLEAN
  /\ FailAt \subseteq Labels /\ CrashAt \subseteq Labels
  /\ MaxFaults \in Nat

VARIABLES
  file,     \* what each managed path holds
  prev,     \* what its .prev copy holds
  meta,     \* meta.json: the interface and the hash last applied
  tun,      \* the WireGuard links in the kernel
  nft,      \* the version of table inet opnmesh that is loaded
  fwd,      \* net.ipv4.ip_forward
  desired,  \* the configuration the controller serves, None while it has none
  applied,  \* cmdRun's appliedHash
  failed,   \* cmdRun's failedHash while applyRetryAfter has not passed
  pc,       \* where each process is: "run" is the daemon, "cli" a command
  plan,     \* applyFromDisk's locals, per process
  tx,       \* applyConfig's locals: the file transaction and the run record
  rb,       \* rollback's and down's locals
  faults    \* failures, crashes, commands and external events so far

disk == <<file, prev, meta>>
kernel == <<tun, nft, fwd>>
loop == <<desired, applied, failed>>
locals == <<plan, tx, rb>>
vars == <<file, prev, meta, tun, nft, fwd, desired, applied, failed,
          pc, plan, tx, rb, faults>>

-----------------------------------------------------------------------------
(* Reading the files and the kernel *)

Section(c) == IF c \in Versions THEN SectionOf[c] ELSE None
Port(s) == IF s = None THEN None ELSE PortOf[s]

\* hashFiles over a whole bundle, and over what diskFiles finds
Bundle(v) == [wg |-> v, nftables |-> v, sysctl |-> v]
DiskHash(i) == [wg |-> file[i], nftables |-> file["nftables"],
                sysctl |-> file["sysctl"]]

DiskIsApplied == meta.hash # None /\ DiskHash(meta.iface) = meta.hash

PortFree(q) == \A i \in Ifaces : tun[i] # None => Port(tun[i].section) # q

LinkFor(c) == [section |-> Section(c), peers |-> c, routes |-> c]

\* `wg-quick up` refuses an interface that exists, and the kernel a second
\* socket on a port.
CanRaise(i) == /\ file[i] # None
               /\ tun[i] = None
               /\ Section(file[i]) # None => PortFree(Port(Section(file[i])))

\* `nft -f` of a file without the table leaves the ruleset as it was
Table(c) == IF c \in Versions THEN c ELSE nft

Goto(p, l) == pc' = [pc EXCEPT ![p] = l]

\* Something goes wrong at label l: a failing command or write.
Fault(l) == l \in FailAt /\ faults < MaxFaults /\ faults' = faults + 1

RunQuiet == pc["run"] \in {"down", "idle"}
CliQuiet == pc["cli"] = "idle"
Free(quiet) == Interleave \/ quiet

-----------------------------------------------------------------------------
Init ==
  /\ file = [x \in Paths |-> None]
  /\ prev = [x \in Paths |-> None]
  /\ meta = [iface |-> DefaultIface, hash |-> None]
  /\ tun = [i \in Ifaces |-> None]
  /\ nft = None
  /\ fwd = FALSE
  /\ desired = None
  /\ applied = None
  /\ failed = None
  /\ pc = [run |-> "idle", cli |-> "idle"]
  /\ plan = [p \in {"run", "cli"} |->
               [iface |-> DefaultIface, parts |-> {}, ret |-> "idle"]]
  /\ tx = [want |-> None, old |-> DefaultIface, file |-> file, prev |-> prev,
           restart |-> FALSE, touched |-> "no", n |-> 0, err |-> FALSE]
  /\ rb = [op |-> "down", iface |-> DefaultIface, n |-> 1, cur |-> None,
           some |-> FALSE, err |-> FALSE]
  /\ faults = 0

-----------------------------------------------------------------------------
(* applyFromDisk, in process p *)

Call(p, ret) == /\ plan' = [plan EXCEPT ![p].ret = ret]
                /\ Goto(p, "check")

\* An error returns to the caller: maintain logs it and reports all the same,
\* the others give up.
Fails(p) == Goto(p, IF plan[p].ret = "report" THEN "report" ELSE "idle")

Parts(i) == (IF file[i] # None THEN {"wg"} ELSE {}) \cup
            {x \in {"nftables", "sysctl"} : file[x] # None}

\* (mutant: no check)
FailsOpen(parts) == FALSE

\* The check applyFromDisk opens with.
Unfiltered(parts) == parts # {} /\ "nftables" \notin parts

\* Read meta and the files; refuse to forward without a firewall.
Check(p) ==
  /\ pc[p] = "check"
  /\ plan' = [plan EXCEPT ![p].iface = meta.iface,
                          ![p].parts = Parts(meta.iface)]
  /\ IF Unfiltered(Parts(meta.iface))
       THEN Fails(p)
       ELSE Goto(p, "load")
  /\ UNCHANGED <<disk, kernel, loop, tx, rb, faults>>

Load(p) ==
  /\ pc[p] = "load"
  /\ \/ /\ "nftables" \in plan[p].parts
        /\ file["nftables"] # None
        /\ nft' = Table(file["nftables"])
        /\ Goto(p, "forward")
        /\ UNCHANGED faults
     \/ /\ "nftables" \notin plan[p].parts
        /\ Goto(p, "forward")
        /\ UNCHANGED <<nft, faults>>
     \/ /\ "nftables" \in plan[p].parts
        /\ IF file["nftables"] = None THEN UNCHANGED faults ELSE Fault("load")
        /\ Fails(p)
        /\ UNCHANGED nft
  /\ UNCHANGED <<disk, tun, fwd, loop, locals>>

\* The generated sysctl.conf always switches forwarding on.
Forward(p) ==
  /\ pc[p] = "forward"
  /\ \/ /\ fwd' = IF "sysctl" \in plan[p].parts THEN TRUE ELSE fwd
        /\ Goto(p, "raise")
        /\ UNCHANGED faults
     \/ /\ "sysctl" \in plan[p].parts /\ ~fwd
        /\ Fault("forward")
        /\ Fails(p)
        /\ UNCHANGED fwd
  /\ UNCHANGED <<disk, tun, nft, loop, locals>>

\* Bring the link up when it is missing.  wg-quick takes a half-built link
\* down again; ensurePrivateKey after it may still fail with the link up.
Raise(p) ==
  LET i == plan[p].iface IN
  /\ pc[p] = "raise"
  /\ \/ /\ "wg" \notin plan[p].parts \/ tun[i] # None
        /\ Goto(p, plan[p].ret)
        /\ UNCHANGED <<tun, faults>>
     \/ /\ "wg" \in plan[p].parts /\ CanRaise(i)
        /\ tun' = [tun EXCEPT ![i] = LinkFor(file[i])]
        /\ \/ Goto(p, plan[p].ret) /\ UNCHANGED faults
           \/ Fails(p) /\ Fault("raise")
     \/ /\ "wg" \in plan[p].parts /\ tun[i] = None
        /\ IF CanRaise(i) THEN Fault("raise") ELSE UNCHANGED faults
        /\ Fails(p)
        /\ UNCHANGED tun
  /\ UNCHANGED <<disk, nft, fwd, loop, locals>>

FromDisk(p) == Check(p) \/ Load(p) \/ Forward(p) \/ Raise(p)

-----------------------------------------------------------------------------
(* The run loop: maintain, report, fetch *)

\* systemd starts the daemon again; what it remembers comes from disk.
Start ==
  /\ pc["run"] = "down"
  /\ Free(CliQuiet) /\ (CliQuiet \/ rb.op # "boot")
  /\ applied' = IF DiskIsApplied THEN meta.hash ELSE None
  /\ failed' = None
  /\ Goto("run", "idle")
  /\ UNCHANGED <<disk, kernel, desired, locals, faults>>

Wake ==
  /\ pc["run"] = "idle"
  /\ Free(CliQuiet)
  /\ Goto("run", "keep")
  /\ UNCHANGED <<disk, kernel, loop, locals, faults>>

KeepFirewall ==
  /\ pc["run"] = "keep"
  /\ \/ /\ nft = None /\ file["nftables"] # None
        /\ nft' = Table(file["nftables"])
        /\ UNCHANGED faults
     \/ /\ nft = None /\ file["nftables"] # None
        /\ Fault("keep")
        /\ UNCHANGED nft
     \/ /\ nft # None \/ file["nftables"] = None
        /\ UNCHANGED <<nft, faults>>
  /\ Goto("run", "bring")
  /\ UNCHANGED <<disk, tun, fwd, loop, locals>>

\* (mutant: only what was recorded as applied is brought up)
MissingIfRecorded == DiskIsApplied /\ tun[meta.iface] = None

Missing == file[meta.iface] # None /\ tun[meta.iface] = None

BringUp ==
  /\ pc["run"] = "bring"
  /\ IF Missing
       THEN Call("run", "report")
       ELSE Goto("run", "report") /\ UNCHANGED plan
  /\ UNCHANGED <<disk, kernel, loop, tx, rb, faults>>

\* The answer to a report names the configuration the controller holds ready:
\* fetch it if it is new and not one that just failed here.
Report ==
  /\ pc["run"] = "report"
  /\ IF desired # None /\ Bundle(desired) # applied /\ desired # failed
       THEN Goto("run", "fetch")
       ELSE Goto("run", "idle")
  /\ UNCHANGED <<disk, kernel, loop, locals, faults>>

Unreachable ==
  /\ pc["run"] \in {"report", "fetch"}
  /\ Goto("run", "idle")
  /\ UNCHANGED <<disk, kernel, loop, locals, faults>>

\* applyRetryAfter has passed since the failure.
HoldExpires ==
  /\ pc["run"] = "idle" /\ failed # None
  /\ failed' = None
  /\ UNCHANGED <<disk, kernel, desired, applied, pc, locals, faults>>

-----------------------------------------------------------------------------
(* applyConfig *)

Unchanged(v) == /\ meta.hash = Bundle(v)
                /\ DiskHash(meta.iface) = Bundle(v)
                /\ meta.iface = IfaceOf[v]
                /\ tun[IfaceOf[v]] # None

\* (mutant: the files on disk are taken for what is running)
RestartTrustsDisk(v) == \/ meta.iface # IfaceOf[v]
                        \/ tun[meta.iface] = None
                        \/ Section(file[meta.iface]) # SectionOf[v]

RestartNeeded(v) == \/ meta.iface # IfaceOf[v]
                    \/ ~DiskIsApplied
                    \/ tun[meta.iface] = None
                    \/ Section(file[meta.iface]) # SectionOf[v]

PortTaken(v) == /\ RestartNeeded(v)
                /\ Port(SectionOf[v]) # Port(Section(file[meta.iface]))
                /\ ~PortFree(Port(SectionOf[v]))

\* Everything applyConfig reads before it writes: what to do, and the copies
\* of the files it is about to overwrite.
Fetch ==
  /\ pc["run"] = "fetch" /\ desired # None
  /\ tx' = [want |-> desired, old |-> meta.iface, file |-> file,
            prev |-> prev, restart |-> RestartNeeded(desired),
            touched |-> "no", n |-> 1, err |-> FALSE]
  /\ IF Unchanged(desired)
       THEN Goto("run", "finish") /\ UNCHANGED failed
       ELSE IF PortTaken(desired)
       THEN Goto("run", "idle") /\ failed' = desired
       ELSE Goto("run", "keepprev") /\ UNCHANGED failed
  /\ UNCHANGED <<disk, kernel, desired, applied, plan, rb, faults>>

Order(i) == <<i, "nftables", "sysctl">>
TxIface == IfaceOf[tx.want]

\* One file of the bundle: first its .prev (an error is ignored) ...
KeepPrev ==
  LET x == Order(TxIface)[tx.n] IN
  /\ pc["run"] = "keepprev"
  /\ \/ /\ prev' = IF tx.file[x] = None THEN prev
                   ELSE [prev EXCEPT ![x] = tx.file[x]]
        /\ UNCHANGED faults
     \/ /\ tx.file[x] # None /\ Fault("keepprev")
        /\ UNCHANGED prev
  /\ Goto("run", "write")
  /\ UNCHANGED <<file, meta, kernel, loop, locals>>

\* ... then the file itself; an error puts back what was written.
Write ==
  LET x == Order(TxIface)[tx.n] IN
  /\ pc["run"] = "write"
  /\ \/ /\ file' = [file EXCEPT ![x] = tx.want]
        /\ tx' = [tx EXCEPT !.n = @ + 1]
        /\ Goto("run", IF tx.n < 3 THEN "keepprev"
                       ELSE IF TxIface # tx.old THEN "drop" ELSE "nft")
        /\ UNCHANGED <<failed, faults>>
     \/ /\ Fault("write")
        /\ tx' = [tx EXCEPT !.n = IF TxIface # tx.old THEN 7 ELSE 6]
        /\ failed' = tx.want
        /\ Goto("run", "unwrite")
        /\ UNCHANGED file
  /\ UNCHANGED <<prev, meta, kernel, desired, applied, plan, rb>>

\* After a rename the old interface's file goes; an error is ignored.
Drop ==
  /\ pc["run"] = "drop"
  /\ \/ file' = [file EXCEPT ![tx.old] = None] /\ UNCHANGED faults
     \/ Fault("drop") /\ UNCHANGED file
  /\ Goto("run", "nft")
  /\ UNCHANGED <<prev, meta, kernel, loop, locals>>

\* (mutant: the old interface's file is not in the transaction)
UndoForgetsOld == /\ Goto("run", "restore")
                  /\ tx' = [tx EXCEPT !.n = 6]
                  /\ failed' = tx.want

\* A step failed after the files were written.
Undo == /\ Goto("run", "restore")
        /\ tx' = [tx EXCEPT !.n = IF TxIface # tx.old THEN 7 ELSE 6]
        /\ failed' = tx.want

Proceed(l) == /\ Goto("run", l)
              /\ UNCHANGED <<tx, failed>>

ApplyNft ==
  /\ pc["run"] = "nft"
  /\ \/ /\ file["nftables"] # None
        /\ nft' = Table(file["nftables"])
        /\ Proceed("sysctl")
        /\ UNCHANGED faults
     \/ /\ IF file["nftables"] = None THEN UNCHANGED faults ELSE Fault("nft")
        /\ Undo
        /\ UNCHANGED nft
  /\ UNCHANGED <<disk, tun, fwd, desired, applied, plan, rb>>

ApplySysctl ==
  /\ pc["run"] = "sysctl"
  /\ \/ /\ fwd' = TRUE
        /\ Goto("run", IF tx.restart THEN "del" ELSE "sync")
        /\ tx' = [tx EXCEPT !.touched = IF tx.restart THEN "restarted"
                                      ELSE "synced"]
        /\ UNCHANGED <<failed, faults>>
     \/ /\ ~fwd /\ Fault("sysctl")
        /\ Undo
        /\ UNCHANGED fwd
  /\ UNCHANGED <<disk, tun, nft, desired, applied, plan, rb>>

\* restartInterface: take the running link down (an error is ignored) ...
Delete ==
  LET gone == IF TxIface # tx.old /\ tun[tx.old] # None
                THEN tx.old ELSE TxIface IN
  /\ pc["run"] = "del"
  /\ \/ tun' = [tun EXCEPT ![gone] = None] /\ UNCHANGED faults
     \/ tun[gone] # None /\ Fault("del") /\ UNCHANGED tun
  /\ Goto("run", "up")
  /\ UNCHANGED <<disk, nft, fwd, loop, locals>>

\* ... and build the new one.
Up ==
  LET i == TxIface IN
  /\ pc["run"] = "up"
  /\ \/ /\ CanRaise(i)
        /\ tun' = [tun EXCEPT ![i] = LinkFor(file[i])]
        /\ \/ Proceed("finish") /\ UNCHANGED faults
           \/ Undo /\ Fault("up")
     \/ /\ IF CanRaise(i) THEN Fault("up") ELSE UNCHANGED faults
        /\ Undo
        /\ UNCHANGED tun
  /\ UNCHANGED <<disk, nft, fwd, desired, applied, plan, rb>>

\* wgSyncPeers on a link: the peers of the file, the link otherwise as it was.
Synced(i) == [tun EXCEPT ![i].peers = file[i]]
Rerouted(i, c) == [tun EXCEPT ![i].routes = c]

SyncPeers ==
  LET i == TxIface IN
  /\ pc["run"] = "sync"
  /\ \/ /\ tun[i] # None /\ file[i] # None
        /\ tun' = Synced(i)
        /\ \/ Proceed("routes") /\ UNCHANGED faults
           \/ Undo /\ Fault("sync")
     \/ /\ IF tun[i] = None \/ file[i] = None
             THEN UNCHANGED faults ELSE Fault("sync")
        /\ Undo
        /\ UNCHANGED tun
  /\ UNCHANGED <<disk, nft, fwd, desired, applied, plan, rb>>

\* reconcileRoutes carries on past a failing route: some are right, some not.
SyncRoutes ==
  LET i == TxIface IN
  /\ pc["run"] = "routes"
  /\ \/ /\ tun[i] # None
        /\ tun' = Rerouted(i, tx.want)
        /\ Proceed("finish")
        /\ UNCHANGED faults
     \/ /\ tun[i] # None /\ Fault("routes")
        /\ tun' = Rerouted(i, None)
        /\ Undo
     \/ /\ tun[i] = None
        /\ Undo
        /\ UNCHANGED <<tun, faults>>
  /\ UNCHANGED <<disk, nft, fwd, desired, applied, plan, rb>>

\* finishApply: record what was applied.  An error is returned, not undone.
Finish ==
  /\ pc["run"] = "finish"
  /\ \/ /\ meta' = [iface |-> TxIface, hash |-> Bundle(tx.want)]
        /\ applied' = Bundle(tx.want)
        /\ failed' = None
        /\ UNCHANGED faults
     \/ /\ Fault("finish")
        /\ failed' = tx.want
        /\ UNCHANGED <<meta, applied>>
  /\ Goto("run", "idle")
  /\ UNCHANGED <<file, prev, kernel, desired, locals>>

-----------------------------------------------------------------------------
(* undo *)

\* The paths a transaction saved, in the order it saved them.
Saved(i, old) ==
  <<<<i, "file">>, <<i, "prev">>, <<"nftables", "file">>,
    <<"nftables", "prev">>, <<"sysctl", "file">>, <<"sysctl", "prev">>,
    <<old, "file">>>>

\* restore: last saved first, carrying on past an error.  After a failed
\* write applyConfig returns; after anything else undo turns to the kernel,
\* unless a file could not be put back.
Restore ==
  LET s == Saved(TxIface, tx.old)[tx.n]
      next(err) == IF tx.n > 1 THEN pc["run"]
                   ELSE IF pc["run"] = "restore" /\ ~err THEN "undel"
                   ELSE "idle" IN
  /\ pc["run"] \in {"restore", "unwrite"}
  /\ \/ /\ IF s[2] = "file"
             THEN /\ file' = [file EXCEPT ![s[1]] = tx.file[s[1]]]
                  /\ UNCHANGED prev
             ELSE /\ prev' = [prev EXCEPT ![s[1]] = tx.prev[s[1]]]
                  /\ UNCHANGED file
        /\ tx' = [tx EXCEPT !.n = @ - 1]
        /\ Goto("run", next(tx.err))
        /\ UNCHANGED faults
     \/ /\ Fault("restore")
        /\ tx' = [tx EXCEPT !.n = @ - 1, !.err = TRUE]
        /\ Goto("run", next(TRUE))
        /\ UNCHANGED <<file, prev>>
  /\ UNCHANGED <<meta, kernel, loop, plan, rb>>

\* Take a link built from the new file down (an error is ignored) and bring
\* the previous files up, if there are any.
Undelete ==
  /\ pc["run"] = "undel"
  /\ \/ /\ tun' = IF tx.touched = "restarted"
                    THEN [tun EXCEPT ![TxIface] = None] ELSE tun
        /\ UNCHANGED faults
     \/ /\ tx.touched = "restarted" /\ tun[TxIface] # None
        /\ Fault("undel")
        /\ UNCHANGED tun
  /\ IF Parts(tx.old) = {}
       THEN Goto("run", "idle") /\ UNCHANGED plan
       ELSE Call("run", "resync")
  /\ UNCHANGED <<disk, nft, fwd, loop, tx, rb>>

Resync ==
  LET i == tx.old IN
  /\ pc["run"] = "resync"
  /\ \/ /\ tx.touched = "synced" /\ tun[i] # None /\ file[i] # None
        /\ tun' = Synced(i)
        /\ Goto("run", "reroute")
        /\ UNCHANGED faults
     \/ /\ tx.touched = "synced" /\ tun[i] # None
        /\ IF file[i] = None THEN UNCHANGED faults ELSE Fault("resync")
        /\ Goto("run", "idle")
        /\ UNCHANGED tun
     \/ /\ tx.touched # "synced" \/ tun[i] = None
        /\ Goto("run", "idle")
        /\ UNCHANGED <<tun, faults>>
  /\ UNCHANGED <<disk, nft, fwd, loop, locals>>

Reroute ==
  LET i == tx.old IN
  /\ pc["run"] = "reroute"
  /\ \/ /\ tun[i] # None
        /\ \/ tun' = Rerouted(i, tx.file[i]) /\ UNCHANGED faults
           \/ tun' = Rerouted(i, None) /\ Fault("reroute")
     \/ tun[i] = None /\ UNCHANGED <<tun, faults>>
  /\ Goto("run", "idle")
  /\ UNCHANGED <<disk, nft, fwd, loop, locals>>

-----------------------------------------------------------------------------
(* The commands *)

\* An operator runs a command; it reads meta.json first.
Command(op) ==
  /\ op \in CliOps /\ pc["cli"] = "idle"
  /\ Free(RunQuiet)
  /\ faults < MaxFaults /\ faults' = faults + 1
  /\ rb' = [op |-> op, iface |-> meta.iface, n |-> 1, cur |-> None,
            some |-> FALSE, err |-> FALSE]
  /\ plan' = [plan EXCEPT !["cli"].ret = IF op = "rollback" THEN "record"
                                         ELSE "idle"]
  /\ Goto("cli", IF op = "up" THEN "check"
                ELSE IF op = "down" THEN "lower" ELSE "swap")
  /\ UNCHANGED <<disk, kernel, loop, tx>>

AfterSwap(n, some) == IF n <= 3 THEN "swap"
                      ELSE IF some THEN "lower" ELSE "idle"

\* restorePrevious, one file at a time: the .prev copy becomes the file ...
Swap ==
  LET x == Order(rb.iface)[rb.n] IN
  /\ pc["cli"] = "swap"
  /\ \/ /\ prev[x] = None
        /\ rb' = [rb EXCEPT !.n = @ + 1]
        /\ Goto("cli", AfterSwap(rb.n + 1, rb.some))
        /\ UNCHANGED <<file, faults>>
     \/ /\ prev[x] # None
        /\ file' = [file EXCEPT ![x] = prev[x]]
        /\ rb' = [rb EXCEPT !.cur = file[x]]
        /\ Goto("cli", "swapprev")
        /\ UNCHANGED faults
     \/ /\ prev[x] # None /\ Fault("swap")
        /\ Goto("cli", "idle")
        /\ UNCHANGED <<file, rb>>
  /\ UNCHANGED <<prev, meta, kernel, loop, plan, tx>>

\* ... and what the file held its .prev: no bytes if there was no file.  An
\* error is ignored.
SwapPrev ==
  LET x == Order(rb.iface)[rb.n] IN
  /\ pc["cli"] = "swapprev"
  /\ \/ /\ prev' = [prev EXCEPT ![x] = IF rb.cur = None THEN Empty ELSE rb.cur]
        /\ UNCHANGED faults
     \/ Fault("swapprev") /\ UNCHANGED prev
  /\ rb' = [rb EXCEPT !.n = @ + 1, !.some = TRUE]
  /\ Goto("cli", AfterSwap(rb.n + 1, TRUE))
  /\ UNCHANGED <<file, meta, kernel, loop, plan, tx>>

\* tearDown: the link meta.json names goes down; what fails is remembered ...
Lower ==
  /\ pc["cli"] = "lower"
  /\ \/ /\ tun' = [tun EXCEPT ![meta.iface] = None]
        /\ UNCHANGED <<rb, faults>>
     \/ /\ tun[meta.iface] # None /\ Fault("lower")
        /\ rb' = [rb EXCEPT !.err = TRUE]
        /\ UNCHANGED tun
  /\ Goto("cli", "unload")
  /\ UNCHANGED <<disk, nft, fwd, loop, plan, tx>>

\* ... the table goes whatever happened; forwarding stays on.
Unload ==
  /\ pc["cli"] = "unload"
  /\ \/ nft' = None /\ UNCHANGED faults
     \/ nft # None /\ Fault("unload") /\ UNCHANGED nft
  /\ Goto("cli", IF rb.op = "rollback" /\ ~rb.err THEN "check" ELSE "idle")
  /\ UNCHANGED <<disk, tun, fwd, loop, locals>>

\* rollback ends by recording what it brought up, under the interface it read
\* at the start.
Record ==
  /\ pc["cli"] = "record"
  /\ \/ /\ meta' = [iface |-> rb.iface, hash |-> DiskHash(rb.iface)]
        /\ UNCHANGED faults
     \/ Fault("record") /\ UNCHANGED meta
  /\ Goto("cli", "idle")
  /\ UNCHANGED <<file, prev, kernel, loop, locals>>

-----------------------------------------------------------------------------
(* The controller, crashes, and others on the host *)

\* The admin changes the mesh, holds it, or disables the gateway.
Publish ==
  /\ desired' \in Versions \cup {None}
  /\ UNCHANGED <<disk, kernel, applied, failed, pc, locals, faults>>

Crash(p) ==
  /\ pc[p] \in CrashAt /\ pc[p] # "down"
  /\ p = "cli" => pc[p] # "idle"
  /\ faults < MaxFaults /\ faults' = faults + 1
  /\ Goto(p, IF p = "run" THEN "down" ELSE "idle")
  /\ UNCHANGED <<disk, kernel, loop, locals>>

\* Power loss: the kernel forgets everything, the disk nothing.  At boot
\* opnmesh-wg.service runs `up` before opnmesh-gw.service starts the daemon.
Reboot ==
  /\ "reboot" \in Externals
  /\ \A p \in {"run", "cli"} : pc[p] \in CrashAt \cup {"down", "idle"}
  /\ faults < MaxFaults /\ faults' = faults + 1
  /\ tun' = [i \in Ifaces |-> None]
  /\ nft' = None
  /\ fwd' = FALSE
  /\ pc' = [pc EXCEPT !.run = "down", !.cli = "check"]
  /\ plan' = [plan EXCEPT !["cli"].ret = "idle"]
  /\ rb' = [rb EXCEPT !.op = "boot"]
  /\ UNCHANGED <<disk, loop, tx>>

\* `nft flush ruleset`, a restart of nftables.service, a hand edit
Flush ==
  /\ "flush" \in Externals /\ nft # None
  /\ Free(RunQuiet /\ CliQuiet)
  /\ faults < MaxFaults /\ faults' = faults + 1
  /\ nft' = None
  /\ UNCHANGED <<disk, tun, fwd, loop, pc, locals>>

\* a manual `wg-quick down`
LinkDown(i) ==
  /\ "linkdown" \in Externals /\ tun[i] # None
  /\ Free(RunQuiet /\ CliQuiet)
  /\ faults < MaxFaults /\ faults' = faults + 1
  /\ tun' = [tun EXCEPT ![i] = None]
  /\ UNCHANGED <<disk, nft, fwd, loop, pc, locals>>

-----------------------------------------------------------------------------
Daemon == Start \/ Wake \/ KeepFirewall \/ BringUp \/ Report \/ Unreachable
            \/ Fetch \/ FromDisk("run")
Apply == KeepPrev \/ Write \/ Drop \/ ApplyNft \/ ApplySysctl \/ Delete \/ Up
           \/ SyncPeers \/ SyncRoutes \/ Finish
Undoing == Restore \/ Undelete \/ Resync \/ Reroute
Cli == Swap \/ SwapPrev \/ Lower \/ Unload \/ Record \/ FromDisk("cli")

Next ==
  \/ Daemon \/ Apply \/ Undoing \/ HoldExpires
  \/ \E op \in CliOps : Command(op)
  \/ Cli
  \/ Publish \/ Crash("run") \/ Crash("cli") \/ Reboot \/ Flush
  \/ \E i \in Ifaces : LinkDown(i)

Spec == Init /\ [][Next]_vars

\* A process that can take its next step takes it: systemd restarts the
\* daemon, whose loop never ends, and every command returns.  The controller
\* may stay out of reach for good.
FairSpec == Spec /\ WF_vars(Daemon \/ Apply \/ Undoing) /\ WF_vars(Cli)

\* The controller answers again and again, and five minutes pass.
ControllerAnswers == SF_vars(Report) /\ SF_vars(Fetch) /\ SF_vars(HoldExpires)

-----------------------------------------------------------------------------
TypeOK ==
  /\ file \in [Paths -> Contents] /\ prev \in [Paths -> Contents]
  /\ meta \in [iface : Ifaces, hash : Hashes]
  /\ tun \in [Ifaces -> Links \cup {None}]
  /\ nft \in Versions \cup {None}
  /\ fwd \in BOOLEAN
  /\ desired \in Versions \cup {None}
  /\ applied \in Hashes
  /\ failed \in Versions \cup {None}
  /\ pc \in [{"run", "cli"} -> Labels]
  /\ pc["run"] \in RunLabels \cup DiskLabels
  /\ pc["cli"] \in CliLabels \cup DiskLabels
  /\ plan \in [{"run", "cli"} -> Plans]
  /\ tx \in Transactions
  /\ rb \in Rollbacks
  /\ faults \in 0..MaxFaults

\* A step that switches forwarding on or brings a link up.
Opens == \/ ~fwd /\ fwd'
         \/ \E i \in Ifaces : tun[i] = None /\ tun'[i] # None

\* "Fail closed" (apply.go 388): seen from outside, the agent and all that befalls
\* it only ever take the steps of a host that fails closed.
Host == INSTANCE FailClosed WITH
  Rulesets <- Versions,
  Interfaces <- Ifaces,
  ruleset <- file["nftables"],
  loaded <- nft,
  forwarding <- fwd,
  up <- {i \in Ifaces : tun[i] # None}
FailsClosed == Host!HostSpec

\* Among what follows from it: "the firewall comes first, and nothing that forwards
\* (ip_forward, the tunnel) is brought up without it", on every path, with the
\* table of the very file that is on disk.
OpensOnlyFiltered ==
  [][Opens => nft # None /\ nft = file["nftables"]]_vars

\* The weaker promise that survives an `up` in the middle of an apply.
NeverOpensBare == [][Opens => nft # None]_vars

RunsDisk(i) == tun[i] = LinkFor(file[i]) /\ nft \in {file["nftables"], None}

\* What applyConfig relies on when it decides that syncing peers is enough:
\* files that are what was last applied describe what is running, after any one
\* fault.  (Two can break it: a step fails, and undo is killed after it put the
\* files back, apply.go 263, and before it turned to the kernel, 265-285.)
AppliedIsRunning ==
  RunQuiet /\ CliQuiet /\ DiskIsApplied /\ tun[meta.iface] # None
    => RunsDisk(meta.iface)

\* Undo puts every file and every .prev copy back exactly as it was, unless
\* a write of its own failed.
UndoRestoresFiles ==
  [][pc["run"] \in {"restore", "unwrite"} /\ pc'["run"] # pc["run"]
     /\ pc'["run"] # "down" /\ ~tx'.err
       => file' = tx.file /\ prev' = tx.prev]_vars

\* Once a configuration was applied, the link comes back on its own, controller
\* or no controller, as long as the interface meta.json names has a file: power
\* lost in the middle of a rename leaves it without one (writeBundle drops the
\* old file, apply.go 241-244, long before finishApply saves the new name, 303).
TunnelComesBack ==
  <>[](meta.hash # None /\ file[meta.iface] \in Versions)
    => []<>(\E i \in Ifaces : tun[i] # None)

\* A configuration that a controller within reach keeps asking for ends up
\* applied and running, unless a link stays up that is not meta.json's or has
\* lost its file: then applyConfig may for ever find its port in use (115-121).
Stray == \E i \in Ifaces : tun[i] # None /\ (i # meta.iface \/ file[i] = None)

Converges ==
  ControllerAnswers =>
    \A v \in Versions :
      <>[](desired = v) /\ []<>~Stray =>
        <>[](applied = Bundle(v) /\ DiskIsApplied /\ tun[IfaceOf[v]] = LinkFor(v))

\* After "a crash half way through an apply [...] the running interface has to be
\* rebuilt to be sure of it" (apply.go 93-96), with nothing excepted.
RebuiltAfterCrash ==
  ControllerAnswers =>
    \A v \in Versions : <>[](desired = v) => <>[](tun[IfaceOf[v]] = LinkFor(v))
=============================================================================
