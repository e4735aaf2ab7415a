------------------------------- MODULE Install -------------------------------
(***************************************************************************)
(* Installing, re-enrolling and upgrading the agent of one gateway          *)
(* (deploy/gateway/install.sh, cmdEnrol in agent/commands.go), against the  *)
(* controller's end of an enrolment.                                        *)
(*                                                                          *)
(* The script runs under `set -e`: a command that fails ends it.  It may    *)
(* also be killed, or the machine lose power, between any two commands; the *)
(* answer to the enrolment may get lost.  The machine is new, or a gateway  *)
(* with an older agent; commands are given again, with fresh or used        *)
(* tokens, or for an upgrade.                                               *)
(***************************************************************************)
EXTENDS Naturals

CONSTANTS
    InstallTokens,   \* tokens the administrator made for this site
    MaxRuns,         \* bound: commands given
    Absent           \* no file, no process, no token

ASSUME InstallAssumption == MaxRuns \in Nat /\ Absent \notin InstallTokens \union Nat

VARIABLES
    unspent,         \* tokens not used yet
    registered,      \* the gateway the controller has for the site: its credential and its key
    issued,          \* credentials issued so far
    disk,            \* what is on the machine
    agent,           \* the binary that the running agent was started from
    inst,            \* the run of the script
    runs

installVars == <<unspent, registered, issued, disk, agent, inst, runs>>

Versions == {"old", "new"}     \* "new" is what the controller serves

\* A key file of 0 was created and never written.
NewMachine == [key |-> Absent, cred |-> Absent, conf |-> FALSE, bin |-> Absent, staged |-> Absent, enabled |-> FALSE]
NoRun == [step |-> "none", upgrade |-> FALSE, token |-> Absent, spent |-> FALSE, cred |-> 0,
          was |-> [disk |-> NewMachine, agent |-> Absent]]

InstallInit ==
    /\ unspent = InstallTokens /\ issued = 1 /\ inst = NoRun /\ runs = 0
    /\ \/ disk = NewMachine /\ agent = Absent /\ registered = Absent
       \/ /\ disk = [key |-> 1, cred |-> 1, conf |-> TRUE, bin |-> "old", staged |-> Absent, enabled |-> TRUE]
          /\ agent = "old" /\ registered = [cred |-> 1, key |-> 1]

---------------------------------------------------------------------------
At(s) == inst.step = s
Going == inst.step \notin {"none", "refused", "done"}
Goes(s) == inst' = [inst EXCEPT !.step = s]

\* The command of the page (gatewayCommand), and the checks before anything is
\* changed.
StartInstall(upgrade, t) ==
    /\ ~Going /\ runs < MaxRuns
    /\ runs' = runs + 1
    /\ inst' = [NoRun EXCEPT !.step = IF upgrade /\ ~(disk.conf /\ disk.key # Absent) THEN "refused" ELSE "checked",
                             !.upgrade = upgrade, !.token = t, !.was = [disk |-> disk, agent |-> agent]]
    /\ UNCHANGED <<unspent, registered, issued, disk, agent>>

\* A package, the CA's certificate, or a file cannot be had, the disk is full:
\* the script ends where it is.  What it had staged stays there.
StepFails ==
    /\ Going
    /\ Goes("refused")
    /\ UNCHANGED <<unspent, registered, issued, disk, agent, runs>>

\* The agent is staged beside the one in use, once its checksum is right.
StageBinary ==
    /\ At("checked")
    /\ \/ disk' = [disk EXCEPT !.staged = "new"] /\ Goes("staged")
       \/ disk' = [disk EXCEPT !.staged = Absent] /\ Goes("refused")
    /\ UNCHANGED <<unspent, registered, issued, agent, runs>>

\* `wg genkey > private.key`, where there is no such file: killed in the middle,
\* it leaves the file empty.
MakeKey ==
    /\ At("staged") /\ ~inst.upgrade
    /\ \/ disk' = [disk EXCEPT !.key = IF @ = Absent THEN 1 ELSE @] /\ Goes("keyed")
       \/ disk.key = Absent /\ disk' = [disk EXCEPT !.key = 0] /\ Goes("refused")
    /\ UNCHANGED <<unspent, registered, issued, agent, runs>>

\* cmdEnrol up to its request: there is no public key of an empty file.
EnrolRefused ==
    /\ At("keyed")
    /\ disk.key = 0 \/ inst.token \notin unspent
    /\ disk' = [disk EXCEPT !.staged = Absent]
    /\ Goes("refused")
    /\ UNCHANGED <<unspent, registered, issued, agent, runs>>

\* enrolGateway: the token is spent and the new gateway takes the old one's place.
EnrolAnswered ==
    /\ At("keyed") /\ disk.key # 0 /\ inst.token \in unspent
    /\ unspent' = unspent \ {inst.token}
    /\ issued' = issued + 1
    /\ registered' = [cred |-> issued + 1, key |-> disk.key]
    /\ \/ /\ inst' = [inst EXCEPT !.step = "answered", !.spent = TRUE, !.cred = issued + 1]
          /\ UNCHANGED disk
       \/ /\ inst' = [inst EXCEPT !.step = "refused", !.spent = TRUE]
          /\ disk' = [disk EXCEPT !.staged = Absent]
    /\ UNCHANGED <<agent, runs>>

StoreCredential ==
    /\ At("answered")
    /\ disk' = [disk EXCEPT !.cred = inst.cred]
    /\ Goes("stored")
    /\ UNCHANGED <<unspent, registered, issued, agent, runs>>

SaveConfig ==
    /\ At("stored")
    /\ disk' = [disk EXCEPT !.conf = TRUE]
    /\ Goes("saved")
    /\ UNCHANGED <<unspent, registered, issued, agent, runs>>

\* (mutant: the agent in use is replaced before the enrolment)
SwapEarly ==
    /\ At("staged") \/ At("keyed") \/ At("saved")
    /\ disk.staged # Absent
    /\ disk' = [disk EXCEPT !.bin = disk.staged, !.staged = IF At("saved") \/ inst.upgrade THEN Absent ELSE @]
    /\ Goes(IF inst.upgrade \/ At("saved") THEN "swapped" ELSE inst.step)
    /\ UNCHANGED <<unspent, registered, issued, agent, runs>>

SwapBinary ==
    /\ IF inst.upgrade THEN At("staged") ELSE At("saved")
    /\ disk' = [disk EXCEPT !.bin = disk.staged, !.staged = Absent]
    /\ Goes("swapped")
    /\ UNCHANGED <<unspent, registered, issued, agent, runs>>

\* (mutant: services are enabled and started, a running agent left as it is)
StartServicesOnly ==
    /\ At("swapped")
    /\ disk' = [disk EXCEPT !.enabled = TRUE]
    /\ agent' = IF agent = Absent THEN disk.bin ELSE agent
    /\ Goes("done")
    /\ UNCHANGED <<unspent, registered, issued, runs>>

\* The units are written, and the agent started, or restarted when it runs.
StartServices ==
    /\ At("swapped")
    /\ disk' = [disk EXCEPT !.enabled = TRUE]
    /\ agent' = disk.bin
    /\ Goes("done")
    /\ UNCHANGED <<unspent, registered, issued, runs>>

\* The machine loses power and comes back; the agent needs agent.json.
PowerLost ==
    /\ agent' = IF disk.enabled /\ disk.conf THEN disk.bin ELSE Absent
    /\ inst' = [inst EXCEPT !.step = IF Going THEN "refused" ELSE @]
    /\ UNCHANGED <<unspent, registered, issued, disk, runs>>

InstallNext ==
    \/ \E t \in InstallTokens : StartInstall(FALSE, t)
    \/ StartInstall(TRUE, Absent)
    \/ StepFails \/ StageBinary \/ MakeKey \/ EnrolRefused \/ EnrolAnswered \/ StoreCredential
    \/ SaveConfig \/ SwapBinary \/ StartServices \/ PowerLost

InstallSpec == InstallInit /\ [][InstallNext]_installVars

---------------------------------------------------------------------------
(* Properties *)

SameGateway(d, e) ==
    /\ d.cred = e.cred /\ d.conf = e.conf /\ d.enabled = e.enabled
    /\ e.key = Absent \/ d.key = e.key

\* A run that does not get through leaves the gateway as it was, unless it had
\* spent its token: its key and its credential, and the agent in use, which only
\* an upgrade may have replaced by then (install.sh:22-24, docs/TESTING.md:133-134).
RefusedLeavesAlone ==
    At("refused") /\ ~inst.spent =>
        /\ SameGateway(disk, inst.was.disk)
        /\ disk.bin = inst.was.disk.bin \/ inst.upgrade

\* A run that ends well leaves the controller's agent running; after an
\* enrolment, under the credential and with the key the controller has for the
\* site, whatever earlier runs left half done; after an upgrade, as the gateway
\* it was.
DoneMeansWorking ==
    At("done") =>
        /\ agent = "new" /\ disk.enabled
        /\ IF inst.upgrade THEN disk.key = inst.was.disk.key /\ disk.cred = inst.was.disk.cred
           ELSE registered = [cred |-> disk.cred, key |-> disk.key]

\* Both: a run of the installer, after whatever earlier runs left, changes all of
\* the gateway or nothing.
AllOrNothing == RefusedLeavesAlone /\ DoneMeansWorking
=============================================================================
