------------------------- MODULE GatewayAgentProofs -------------------------
(* Theorems about GatewayAgent, for every value of its constants. *)
EXTENDS GatewayAgent, TLAPS

-----------------------------------------------------------------------------
\* A process in the middle of its work has the locals that work needs.
Writing == {"keepprev", "write"}
Loading == {"drop", "nft"}
Opening == {"sysctl", "del", "up", "sync", "routes"}
Restoring == {"restore", "unwrite"}
Applying == Writing \cup Loading \cup Opening \cup Restoring

LocalsInUse ==
  /\ pc["run"] \in Applying \cup {"finish"} => tx.want \in Versions
  /\ pc["run"] \in Writing => tx.n \in 1..3
  /\ pc["run"] \in Restoring => tx.n \in 1..7
  /\ pc["cli"] \in {"swap", "swapprev"} => rb.n \in 1..3
  /\ plan["run"].ret \in {"report", "resync", "idle"}
  /\ plan["cli"].ret \in {"record", "idle"}

-----------------------------------------------------------------------------
(* Types of the operators and of the locals *)

LEMMA LinkForType == \A c \in Contents : LinkFor(c) \in Links
  BY ConstantsAssumption DEF LinkFor, Links, Section, Contents

LEMMA DiskHashType == TypeOK => \A i \in Ifaces : DiskHash(i) \in Hashes
  BY DEF TypeOK, DiskHash, Hashes, Paths

LEMMA BundleType == \A v \in Versions : Bundle(v) \in Hashes
  BY DEF Bundle, Hashes, Contents

LEMMA NoHash == None \in Hashes
  BY DEF Hashes

LEMMA TableType == ASSUME TypeOK, NEW c PROVE Table(c) \in Versions \cup {None}
  BY DEF TypeOK, Table

LEMMA PartsType ==
  ASSUME NEW i PROVE Parts(i) \in SUBSET {"wg", "nftables", "sysctl"}
  BY DEF Parts

LEMMA PathsType == Ifaces \subseteq Paths /\ "nftables" \in Paths
                   /\ "sysctl" \in Paths /\ Versions \subseteq Contents
                   /\ None \in Contents /\ Empty \in Contents
  BY DEF Paths, Contents

LEMMA TxType ==
  ASSUME TypeOK
  PROVE  /\ tx.want \in Versions \cup {None} /\ tx.old \in Ifaces
         /\ tx.file \in [Paths -> Contents] /\ tx.prev \in [Paths -> Contents]
         /\ tx.restart \in BOOLEAN /\ tx.n \in 0..7
  BY DEF TypeOK, Transactions

LEMMA TxIfaceType ==
  ASSUME LocalsInUse, pc["run"] \in Applying \cup {"finish"}
  PROVE  TxIface \in Ifaces /\ tx.want \in Versions
  BY ConstantsAssumption DEF LocalsInUse, TxIface

LEMMA OrderType == \A i \in Ifaces, n \in 1..3 : Order(i)[n] \in Paths
  BY DEF Order, Paths

LEMMA SyncedType ==
  ASSUME TypeOK, NEW i \in Ifaces, tun[i] # None
  PROVE  Synced(i) \in [Ifaces -> Links \cup {None}]
<1>1. tun[i] \in Links /\ file[i] \in Contents
  BY PathsType DEF TypeOK
<1>2. [tun[i] EXCEPT !.peers = file[i]] \in Links
  BY <1>1 DEF Links
<1> QED
  BY <1>2 DEF TypeOK, Synced

LEMMA ReroutedType ==
  ASSUME TypeOK, NEW i \in Ifaces, tun[i] # None, NEW c \in Contents
  PROVE  Rerouted(i, c) \in [Ifaces -> Links \cup {None}]
<1>1. tun[i] \in Links
  BY DEF TypeOK
<1>2. [tun[i] EXCEPT !.routes = c] \in Links
  BY <1>1 DEF Links
<1> QED
  BY <1>2 DEF TypeOK, Rerouted

LEMMA UndoType ==
  ASSUME TypeOK, Undo
  PROVE  tx' \in Transactions /\ failed' \in Versions \cup {None}
<1>1. tx \in Transactions
  BY DEF TypeOK
<1> QED
  BY <1>1 DEF Transactions, Undo

LEMMA TypeInit == Init => TypeOK /\ LocalsInUse
<1> SUFFICES ASSUME Init PROVE TypeOK /\ LocalsInUse
  OBVIOUS
<1>1. pc \in [{"run", "cli"} -> Labels]
  BY DEF Init, Labels, RunLabels, CliLabels
<1>2. plan \in [{"run", "cli"} -> Plans]
  BY ConstantsAssumption DEF Init, Plans
<1>3. tx \in Transactions
  BY ConstantsAssumption, PathsType DEF Init, Transactions
<1>4. rb \in Rollbacks
  BY ConstantsAssumption, PathsType DEF Init, Rollbacks
<1>5. file \in [Paths -> Contents] /\ prev \in [Paths -> Contents]
  BY PathsType DEF Init
<1>6. tun \in [Ifaces -> Links \cup {None}]
  BY DEF Init
<1>7. meta \in [iface : Ifaces, hash : Hashes]
  BY ConstantsAssumption, NoHash DEF Init
<1>8. pc["run"] = "idle" /\ pc["cli"] = "idle" /\ faults \in 0..MaxFaults
  BY ConstantsAssumption DEF Init
<1>9. TypeOK
  BY <1>1, <1>2, <1>3, <1>4, <1>5, <1>6, <1>7, <1>8, NoHash
  DEF Init, TypeOK, RunLabels, CliLabels
<1>10. LocalsInUse
  BY DEF Init, LocalsInUse, Applying, Writing, Loading, Opening, Restoring
<1> QED
  BY <1>9, <1>10

-----------------------------------------------------------------------------
(* Type correctness *)

LEMMA TypeStep == TypeOK /\ LocalsInUse /\ [Next]_vars => TypeOK'
<1> SUFFICES ASSUME TypeOK, LocalsInUse, [Next]_vars PROVE TypeOK'
  OBVIOUS
<1>0. MaxFaults \in Nat
  BY ConstantsAssumption
<1> USE <1>0 DEF TypeOK, disk, kernel, loop, locals, Goto, Fault
<1>1. CASE Start
  BY <1>1, DiskHashType, NoHash DEF Start, DiskIsApplied, RunLabels, Labels
<1>2. CASE Wake
  BY <1>2 DEF Wake, RunLabels, Labels
<1>3. CASE KeepFirewall
  BY <1>3, TableType DEF KeepFirewall, RunLabels, Labels
<1>4. CASE BringUp
  <2>1. plan' \in [{"run", "cli"} -> Plans]
    BY <1>4 DEF BringUp, Plans, Call
  <2> QED
    BY <1>4, <2>1 DEF BringUp, Call, RunLabels, CliLabels, DiskLabels, Labels
<1>5. CASE Report
  BY <1>5 DEF Report, RunLabels, Labels
<1>6. CASE Unreachable
  BY <1>6 DEF Unreachable, RunLabels, Labels
<1>7. CASE HoldExpires
  BY <1>7 DEF HoldExpires
<1>8. CASE Fetch
  <2>1. tx' \in Transactions
    BY <1>8 DEF Fetch, Transactions, RestartNeeded, DiskIsApplied
  <2> QED
    BY <1>8, <2>1 DEF Fetch, RunLabels, Labels
<1>9. CASE KeepPrev
  <2>1. TxIface \in Ifaces /\ tx.want \in Versions
    BY <1>9, TxIfaceType
    DEF KeepPrev, Applying, Writing, Loading, Opening, Restoring
  <2> QED
    BY <1>9, <2>1, TxType DEF KeepPrev, RunLabels, Labels
<1>10. CASE Write
  <2>1. TxIface \in Ifaces /\ tx.want \in Versions
    BY <1>10, TxIfaceType
    DEF Write, Applying, Writing, Loading, Opening, Restoring
  <2>2. tx' \in Transactions
    BY <1>10 DEF Write, Transactions, LocalsInUse, Writing
  <2>3. failed' \in Versions \cup {None}
    BY <1>10, TxType DEF Write
  <2> QED
    BY <1>10, <2>1, <2>2, <2>3, PathsType DEF Write, RunLabels, Labels
<1>11. CASE Drop
  BY <1>11, PathsType DEF Drop, RunLabels, Labels
<1>12. CASE ApplyNft
  <2>1. tx' \in Transactions
    BY <1>12, UndoType DEF ApplyNft, Transactions, Proceed
  <2>2. failed' \in Versions \cup {None}
    BY <1>12, UndoType DEF ApplyNft, Proceed
  <2> QED
    BY <1>12, <2>1, <2>2, TableType
    DEF ApplyNft, Proceed, Undo, RunLabels, Labels
<1>13. CASE ApplySysctl
  <2>1. tx' \in Transactions
    BY <1>13, UndoType DEF ApplySysctl, Transactions
  <2>2. failed' \in Versions \cup {None}
    BY <1>13, UndoType DEF ApplySysctl
  <2>3. pc' \in [{"run", "cli"} -> Labels]
    BY <1>13 DEF ApplySysctl, Undo, RunLabels, Labels
  <2>4. pc'["run"] \in RunLabels /\ pc'["cli"] = pc["cli"]
    BY <1>13 DEF ApplySysctl, Undo, RunLabels, Labels
  <2>5. fwd' \in BOOLEAN
    BY <1>13 DEF ApplySysctl
  <2> QED
    BY <1>13, <2>1, <2>2, <2>3, <2>4, <2>5 DEF ApplySysctl
<1>14. CASE Delete
  BY <1>14 DEF Delete, RunLabels, Labels
<1>15. CASE Up
  <2>1. TxIface \in Ifaces /\ tx.want \in Versions
    BY <1>15, TxIfaceType
    DEF Up, Applying, Writing, Loading, Opening, Restoring
  <2>2. tx' \in Transactions
    BY <1>15, UndoType DEF Up, Transactions, Proceed
  <2>3. failed' \in Versions \cup {None}
    BY <1>15, UndoType DEF Up, Proceed
  <2>4. tun' \in [Ifaces -> Links \cup {None}]
    BY <1>15, <2>1, LinkForType, PathsType DEF Up, CanRaise
  <2> QED
    BY <1>15, <2>1, <2>2, <2>3, <2>4 DEF Up, Proceed, Undo, RunLabels, Labels
<1>16. CASE SyncPeers
  <2>1. TxIface \in Ifaces /\ tx.want \in Versions
    BY <1>16, TxIfaceType
    DEF SyncPeers, Applying, Writing, Loading, Opening, Restoring
  <2>2. tx' \in Transactions
    BY <1>16, UndoType DEF SyncPeers, Transactions, Proceed
  <2>3. failed' \in Versions \cup {None}
    BY <1>16, UndoType DEF SyncPeers, Proceed
  <2>4. tun' \in [Ifaces -> Links \cup {None}]
    BY <1>16, <2>1, SyncedType DEF SyncPeers
  <2> QED
    BY <1>16, <2>1, <2>2, <2>3, <2>4
    DEF SyncPeers, Proceed, Undo, RunLabels, Labels
<1>17. CASE SyncRoutes
  <2>1. TxIface \in Ifaces /\ tx.want \in Versions
    BY <1>17, TxIfaceType
    DEF SyncRoutes, Applying, Writing, Loading, Opening, Restoring
  <2>2. tx' \in Transactions
    BY <1>17, UndoType DEF SyncRoutes, Transactions, Proceed
  <2>3. failed' \in Versions \cup {None}
    BY <1>17, UndoType DEF SyncRoutes, Proceed
  <2>4. tun' \in [Ifaces -> Links \cup {None}]
    BY <1>17, <2>1, ReroutedType, PathsType DEF SyncRoutes
  <2> QED
    BY <1>17, <2>1, <2>2, <2>3, <2>4
    DEF SyncRoutes, Proceed, Undo, RunLabels, Labels
<1>18. CASE Finish
  <2>1. TxIface \in Ifaces /\ tx.want \in Versions
    BY <1>18, TxIfaceType
    DEF Finish, Applying, Writing, Loading, Opening, Restoring
  <2> QED
    BY <1>18, <2>1, BundleType DEF Finish, RunLabels, Labels
<1>19. CASE Restore
  <2>1. tx.n \in 1..7
    BY <1>19 DEF Restore, LocalsInUse, Restoring
  <2>2. tx' \in {[tx EXCEPT !.n = @ - 1], [tx EXCEPT !.n = @ - 1, !.err = TRUE]}
    BY <1>19 DEF Restore
  <2>3. [tx EXCEPT !.n = @ - 1] \in Transactions
    <3>1. tx \in Transactions /\ tx.n - 1 \in 0..7
      BY <2>1
    <3> QED
      BY <3>1 DEF Transactions
  <2>4. [tx EXCEPT !.n = @ - 1, !.err = TRUE] \in Transactions
    <3>1. [[tx EXCEPT !.n = @ - 1] EXCEPT !.err = TRUE] \in Transactions
      BY <2>3 DEF Transactions
    <3> QED
      BY <3>1
  <2>5. tx' \in Transactions
    BY <2>2, <2>3, <2>4
  <2>6. file' \in [Paths -> Contents] /\ prev' \in [Paths -> Contents]
    BY <1>19, TxType DEF Restore
  <2> QED
    BY <1>19, <2>5, <2>6 DEF Restore, RunLabels, Labels
<1>20. CASE Undelete
  <2>1. plan' \in [{"run", "cli"} -> Plans]
    BY <1>20 DEF Undelete, Plans, Call
  <2> QED
    BY <1>20, <2>1 DEF Undelete, Call, RunLabels, CliLabels, DiskLabels, Labels
<1>21. CASE Resync
  <2>1. tun' \in [Ifaces -> Links \cup {None}]
    BY <1>21, SyncedType, TxType DEF Resync
  <2> QED
    BY <1>21, <2>1 DEF Resync, RunLabels, Labels
<1>22. CASE Reroute
  <2>1. tun' \in [Ifaces -> Links \cup {None}]
    BY <1>22, ReroutedType, TxType, PathsType DEF Reroute
  <2> QED
    BY <1>22, <2>1 DEF Reroute, RunLabels, Labels
<1>23. CASE Swap
  <2>1. rb.n \in 1..3 /\ rb.n + 1 \in 1..4
    BY <1>23 DEF Swap, LocalsInUse
  <2>2. Order(rb.iface)[rb.n] \in Paths
    BY <2>1, OrderType DEF Rollbacks
  <2>3. rb' \in Rollbacks
    BY <1>23, <2>1, <2>2 DEF Swap, Rollbacks
  <2> QED
    BY <1>23, <2>1, <2>2, <2>3
    DEF Swap, AfterSwap, CliLabels, Labels, Rollbacks
<1>24. CASE SwapPrev
  <2>1. rb.n \in 1..3 /\ rb.n + 1 \in 1..4
    BY <1>24 DEF SwapPrev, LocalsInUse
  <2>2. rb' \in Rollbacks
    BY <1>24, <2>1 DEF SwapPrev, Rollbacks
  <2>3. file' \in [Paths -> Contents] /\ prev' \in [Paths -> Contents]
    BY <1>24, PathsType DEF SwapPrev, Rollbacks
  <2> QED
    BY <1>24, <2>1, <2>2, <2>3 DEF SwapPrev, AfterSwap, CliLabels, Labels
<1>25. CASE Lower
  <2>1. rb' \in Rollbacks
    BY <1>25 DEF Lower, Rollbacks
  <2> QED
    BY <1>25, <2>1 DEF Lower, CliLabels, Labels
<1>26. CASE Unload
  BY <1>26 DEF Unload, RunLabels, CliLabels, DiskLabels, Labels
<1>27. CASE Record
  BY <1>27, DiskHashType DEF Record, CliLabels, Labels, Rollbacks
<1>28. CASE Publish
  BY <1>28 DEF Publish
<1>29. CASE Reboot
  <2>1. plan' \in [{"run", "cli"} -> Plans]
    BY <1>29 DEF Reboot, Plans
  <2>2. rb' \in Rollbacks
    BY <1>29 DEF Reboot, Rollbacks
  <2>3. pc' \in [{"run", "cli"} -> Labels]
    BY <1>29 DEF Reboot, RunLabels, CliLabels, DiskLabels, Labels
  <2>4. pc'["run"] \in RunLabels /\ pc'["cli"] \in DiskLabels
    BY <1>29 DEF Reboot, RunLabels, CliLabels, DiskLabels, Labels
  <2>5. tun' \in [Ifaces -> Links \cup {None}] /\ nft' = None /\ fwd' = FALSE
    BY <1>29 DEF Reboot
  <2>6. UNCHANGED <<disk, loop, tx>> /\ faults' \in 0..MaxFaults
    BY <1>29 DEF Reboot
  <2>7. nft' \in Versions \cup {None} /\ fwd' \in BOOLEAN
    BY <2>5
  <2> QED
    BY <2>1, <2>2, <2>3, <2>4, <2>5, <2>6, <2>7
<1>30. CASE Flush
  BY <1>30 DEF Flush
<1>31. CASE \E p \in {"run", "cli"} : FromDisk(p)
  <2> PICK p \in {"run", "cli"} : FromDisk(p)
    BY <1>31
  <2> USE DEF FromDisk
  <2>1. plan[p].iface \in Ifaces /\ plan[p] \in Plans
    BY DEF Plans
  <2>2. plan[p].ret \in Labels
    BY <2>1 DEF Plans, Labels, RunLabels, CliLabels
  <2>3. /\ p = "run" => plan[p].ret \in RunLabels
        /\ p = "cli" => plan[p].ret \in CliLabels
    BY DEF LocalsInUse, RunLabels, CliLabels
  <2>4. ASSUME Fails(p)
        PROVE  /\ pc' \in [{"run", "cli"} -> Labels]
               /\ pc'["run"] \in RunLabels \cup DiskLabels
               /\ pc'["cli"] \in CliLabels \cup DiskLabels
    BY <2>4 DEF Fails, LocalsInUse, Labels, RunLabels, CliLabels
  <2>5. CASE Check(p)
    <3>1. plan' \in [{"run", "cli"} -> Plans]
      <4>1. Parts(meta.iface) \in SUBSET {"wg", "nftables", "sysctl"}
        BY PartsType
      <4>2. [plan[p] EXCEPT !.iface = meta.iface, !.parts = Parts(meta.iface)]
              \in Plans
        BY <2>1, <4>1 DEF Plans
      <4> QED
        BY <2>5, <4>2 DEF Check
    <3> QED
      BY <2>5, <2>4, <3>1 DEF Check, Labels, DiskLabels
  <2>6. CASE Load(p)
    BY <2>6, <2>4, TableType DEF Load, Labels, DiskLabels
  <2>7. CASE Forward(p)
    <3>1. UNCHANGED <<disk, tun, nft, loop, locals>>
      BY <2>7, Zenon DEF Forward
    <3>4. faults' \in 0..MaxFaults
      <4>1. faults' = faults \/ Fault("forward")
        BY <2>7, Zenon DEF Forward
      <4> QED
        BY <4>1
    <3>3. fwd' \in BOOLEAN
      <4>1. fwd' = TRUE \/ fwd' = fwd
        BY <2>7, Zenon DEF Forward
      <4> QED
        BY <4>1
    <3>2. /\ pc' \in [{"run", "cli"} -> Labels]
          /\ pc'["run"] \in RunLabels \cup DiskLabels
          /\ pc'["cli"] \in CliLabels \cup DiskLabels
      BY <2>7, <2>4 DEF Forward, Labels, DiskLabels
    <3> QED
      BY <3>1, <3>2, <3>3, <3>4
  <2>8. CASE Raise(p)
    <3>1. tun' \in [Ifaces -> Links \cup {None}]
      BY <2>8, <2>1, LinkForType, PathsType DEF Raise
    <3>2. /\ pc' \in [{"run", "cli"} -> Labels]
          /\ pc'["run"] \in RunLabels \cup DiskLabels
          /\ pc'["cli"] \in CliLabels \cup DiskLabels
      BY <2>8, <2>2, <2>3, <2>4 DEF Raise
    <3> QED
      BY <2>8, <3>1, <3>2 DEF Raise
  <2> QED
    BY <2>5, <2>6, <2>7, <2>8
<1>32. CASE \E op \in CliOps : Command(op)
  <2> PICK op \in CliOps : Command(op)
    BY <1>32
  <2>1. op \in {"up", "down", "rollback"}
    BY ConstantsAssumption
  <2>2. rb' \in Rollbacks
    BY <2>1, PathsType DEF Command, Rollbacks
  <2>3. plan' \in [{"run", "cli"} -> Plans]
    BY DEF Command, Plans
  <2>4. \/ pc' = [pc EXCEPT !["cli"] = "check"]
        \/ pc' = [pc EXCEPT !["cli"] = "lower"]
        \/ pc' = [pc EXCEPT !["cli"] = "swap"]
    BY <2>1 DEF Command
  <2>5. /\ pc' \in [{"run", "cli"} -> Labels]
        /\ pc'["run"] \in RunLabels \cup DiskLabels
        /\ pc'["cli"] \in CliLabels \cup DiskLabels
    BY <2>4 DEF Labels, CliLabels, DiskLabels
  <2> QED
    BY <2>2, <2>3, <2>5 DEF Command
<1>33. CASE \E p \in {"run", "cli"} : Crash(p)
  BY <1>33 DEF Crash, RunLabels, CliLabels, Labels
<1>34. CASE \E i \in Ifaces : LinkDown(i)
  BY <1>34 DEF LinkDown
<1>35. CASE UNCHANGED vars
  BY <1>35 DEF vars
<1> QED
  BY <1>1, <1>2, <1>3, <1>4, <1>5, <1>6, <1>7, <1>8, <1>9, <1>10, <1>11,
     <1>12, <1>13, <1>14, <1>15, <1>16, <1>17, <1>18, <1>19, <1>20, <1>21,
     <1>22, <1>23, <1>24, <1>25, <1>26, <1>27, <1>28, <1>29, <1>30, <1>31,
     <1>32, <1>33, <1>34, <1>35
  DEF Next, Daemon, Apply, Undoing, Cli

LEMMA LocalsStep == TypeOK /\ LocalsInUse /\ [Next]_vars => LocalsInUse'
<1> SUFFICES ASSUME TypeOK, LocalsInUse, [Next]_vars PROVE LocalsInUse'
  OBVIOUS
<1>0. /\ pc \in [{"run", "cli"} -> Labels] /\ plan \in [{"run", "cli"} -> Plans]
      /\ tx \in Transactions /\ rb \in Rollbacks
      /\ pc["run"] \in RunLabels \cup DiskLabels
      /\ pc["cli"] \in CliLabels \cup DiskLabels
  BY DEF TypeOK
<1> USE <1>0 DEF LocalsInUse, Goto, Applying, Writing, Loading, Opening,
             Restoring, locals
<1>1. CASE Start
  BY <1>1 DEF Start
<1>2. CASE Wake
  BY <1>2 DEF Wake
<1>3. CASE KeepFirewall
  BY <1>3 DEF KeepFirewall
<1>4. CASE BringUp
  BY <1>4 DEF BringUp, Call, Plans
<1>5. CASE Report
  BY <1>5 DEF Report
<1>6. CASE Unreachable
  BY <1>6 DEF Unreachable
<1>7. CASE HoldExpires
  BY <1>7 DEF HoldExpires
<1>8. CASE Fetch
  <2>1. desired \in Versions
    BY <1>8 DEF Fetch, TypeOK
  <2>2. tx'.want = desired /\ tx'.n = 1
    BY <1>8 DEF Fetch
  <2>3. pc' \in {[pc EXCEPT !["run"] = "finish"], [pc EXCEPT !["run"] = "idle"],
                 [pc EXCEPT !["run"] = "keepprev"]}
    BY <1>8 DEF Fetch
  <2> QED
    BY <1>8, <2>1, <2>2, <2>3 DEF Fetch
<1>9. CASE KeepPrev
  BY <1>9 DEF KeepPrev
<1>10. CASE Write
  BY <1>10 DEF Write, Transactions
<1>11. CASE Drop
  BY <1>11 DEF Drop
<1>12. CASE ApplyNft
  BY <1>12 DEF ApplyNft, Proceed, Undo, Transactions
<1>13. CASE ApplySysctl
  BY <1>13 DEF ApplySysctl, Undo, Transactions
<1>14. CASE Delete
  BY <1>14 DEF Delete
<1>15. CASE Up
  BY <1>15 DEF Up, Proceed, Undo, Transactions
<1>16. CASE SyncPeers
  BY <1>16 DEF SyncPeers, Proceed, Undo, Transactions
<1>17. CASE SyncRoutes
  BY <1>17 DEF SyncRoutes, Proceed, Undo, Transactions
<1>18. CASE Finish
  BY <1>18 DEF Finish
<1>19. CASE Restore
  <2>1. tx.n \in 1..7
    BY <1>19 DEF Restore
  <2>2. tx' \in {[tx EXCEPT !.n = @ - 1], [tx EXCEPT !.n = @ - 1, !.err = TRUE]}
    BY <1>19 DEF Restore
  <2>3. tx'.n = tx.n - 1 /\ tx'.want = tx.want
    BY <2>2 DEF Transactions
  <2>4. pc'["run"] = IF tx.n > 1 THEN pc["run"] ELSE pc'["run"]
    BY <1>19 DEF Restore
  <2>5. pc'["run"] \in {pc["run"], "undel", "idle"} /\ pc'["cli"] = pc["cli"]
    BY <1>19 DEF Restore
  <2>6. pc["run"] \in {"restore", "unwrite"} /\ plan' = plan /\ rb' = rb
    BY <1>19 DEF Restore
  <2>7. pc'["run"] = pc["run"] => tx.n > 1
    BY <1>19 DEF Restore
  <2> QED
    BY <2>1, <2>3, <2>5, <2>6, <2>7
<1>20. CASE Undelete
  BY <1>20 DEF Undelete, Call, Plans
<1>21. CASE Resync
  BY <1>21 DEF Resync
<1>22. CASE Reroute
  BY <1>22 DEF Reroute
<1>23. CASE Swap
  BY <1>23 DEF Swap, AfterSwap, Rollbacks
<1>24. CASE SwapPrev
  BY <1>24 DEF SwapPrev, AfterSwap, Rollbacks
<1>25. CASE Lower
  BY <1>25 DEF Lower, Rollbacks
<1>26. CASE Unload
  BY <1>26 DEF Unload
<1>27. CASE Record
  BY <1>27 DEF Record
<1>28. CASE Publish
  BY <1>28 DEF Publish
<1>29. CASE Reboot
  BY <1>29 DEF Reboot, Plans, Rollbacks
<1>30. CASE Flush
  BY <1>30 DEF Flush
<1>31. CASE \E p \in {"run", "cli"} : FromDisk(p)
  <2> PICK p \in {"run", "cli"} : FromDisk(p)
    BY <1>31
  <2>1. plan' = plan \/ plan' = [plan EXCEPT ![p].iface = meta.iface,
                                          ![p].parts = Parts(meta.iface)]
    BY DEF FromDisk, Check, Load, Forward, Raise
  <2>2. plan'["run"].ret = plan["run"].ret /\ plan'["cli"].ret = plan["cli"].ret
    BY <2>1 DEF Plans
  <2>3. \E l \in {"load", "forward", "raise", "report", "idle", plan[p].ret} :
          pc' = [pc EXCEPT ![p] = l]
    BY DEF FromDisk, Check, Load, Forward, Raise, Fails
  <2>4. tx' = tx /\ rb' = rb
    BY DEF FromDisk, Check, Load, Forward, Raise
  <2> QED
    BY <2>2, <2>3, <2>4
<1>32. CASE \E op \in CliOps : Command(op)
  BY <1>32 DEF Command, Plans, Rollbacks
<1>33. CASE \E p \in {"run", "cli"} : Crash(p)
  BY <1>33 DEF Crash
<1>34. CASE \E i \in Ifaces : LinkDown(i)
  BY <1>34 DEF LinkDown
<1>35. CASE UNCHANGED vars
  BY <1>35 DEF vars
<1> QED
  BY <1>1, <1>2, <1>3, <1>4, <1>5, <1>6, <1>7, <1>8, <1>9, <1>10, <1>11,
     <1>12, <1>13, <1>14, <1>15, <1>16, <1>17, <1>18, <1>19, <1>20, <1>21,
     <1>22, <1>23, <1>24, <1>25, <1>26, <1>27, <1>28, <1>29, <1>30, <1>31,
     <1>32, <1>33, <1>34, <1>35
  DEF Next, Daemon, Apply, Undoing, Cli

\* Every variable keeps its type, and a process in the middle of its work has
\* the locals that work needs, however the processes interleave and fail.
THEOREM TypeCorrect == Spec => [](TypeOK /\ LocalsInUse)
<1>1. TypeOK /\ LocalsInUse /\ [Next]_vars => (TypeOK /\ LocalsInUse)'
  BY TypeStep, LocalsStep
<1> QED
  BY TypeInit, <1>1, PTL DEF Spec

-----------------------------------------------------------------------------
(* The firewall comes first *)

\* Why the agent fails closed while no process acts in the middle of
\* another's work, as an inductive invariant.  At most one works at a time;
OneAtATime == RunQuiet \/ CliQuiet

\* the ruleset on disk is never empty, nor is the copy `rollback` may put in
\* its place, and there is no copy without a ruleset;
RulesetKept == /\ file["nftables"] # Empty /\ prev["nftables"] # Empty
               /\ prev["nftables"] # None => file["nftables"] # None

\* a rollback keeps that true half way through its swap;
SwapKeepsRuleset == pc["cli"] = "swapprev" /\ rb.n = 2 =>
                      rb.cur \in Versions /\ file["nftables"] # None

\* so does an apply, whose saved copies are as good as the files;
ApplyKeepsRuleset ==
  LET old == tx.file["nftables"] IN
  pc["run"] \in Applying =>
    /\ old # Empty /\ tx.prev["nftables"] # Empty
    /\ tx.prev["nftables"] # None => old # None
    /\ file["nftables"] \in {old, tx.want}
    /\ prev["nftables"] \in {old, tx.prev["nftables"]}

\* an apply opens with the new ruleset on disk and loaded;
ApplyIsFiltered ==
  /\ pc["run"] \in Loading \cup Opening => file["nftables"] = tx.want
  /\ pc["run"] \in Writing /\ tx.n = 3 => file["nftables"] = tx.want
  /\ pc["run"] \in Opening => nft = tx.want

\* and applyFromDisk with the one on disk, or with nothing to open.
FromDiskIsFiltered ==
  \A p \in {"run", "cli"} :
    /\ pc[p] = "load" => ~Unfiltered(plan[p].parts)
    /\ pc[p] \in {"forward", "raise"} /\ plan[p].parts # {} =>
         nft \in Versions /\ nft = file["nftables"]

\* All of it together: while no process acts in the middle of another's work,
\* whoever is about to open has the ruleset on disk loaded.
FilterInv == /\ LocalsInUse /\ OneAtATime /\ RulesetKept /\ SwapKeepsRuleset
             /\ ApplyKeepsRuleset /\ ApplyIsFiltered /\ FromDiskIsFiltered

LEMMA FilterInit == Init => FilterInv
<1> SUFFICES ASSUME Init PROVE FilterInv
  OBVIOUS
<1>1. LocalsInUse
  BY TypeInit
<1>2. pc["run"] = "idle" /\ pc["cli"] = "idle" /\ file["nftables"] = None
      /\ prev["nftables"] = None
  BY PathsType DEF Init
<1> QED
  BY <1>1, <1>2, ConstantsAssumption
  DEF FilterInv, OneAtATime, RunQuiet, RulesetKept, SwapKeepsRuleset,
      ApplyKeepsRuleset, ApplyIsFiltered, FromDiskIsFiltered, Applying, Writing,
      Loading, Opening, Restoring

LEMMA FilterStep ==
  ASSUME ~Interleave
  PROVE  TypeOK /\ LocalsInUse /\ FilterInv /\ [Next]_vars => FilterInv'
<1> SUFFICES ASSUME TypeOK, LocalsInUse, FilterInv, [Next]_vars
             PROVE  FilterInv'
  OBVIOUS
<1>0. /\ pc \in [{"run", "cli"} -> Labels] /\ plan \in [{"run", "cli"} -> Plans]
      /\ tx \in Transactions /\ rb \in Rollbacks
      /\ file \in [Paths -> Contents] /\ prev \in [Paths -> Contents]
  BY DEF TypeOK
<1>a. LocalsInUse'
  BY LocalsStep
<1>b. ASSUME NEW i \in Ifaces PROVE i # "nftables"
  BY ConstantsAssumption
<1> USE <1>0, <1>a, <1>b, ~Interleave, PathsType
    DEF FilterInv, OneAtATime, RulesetKept, SwapKeepsRuleset, ApplyKeepsRuleset,
        ApplyIsFiltered, FromDiskIsFiltered, RunQuiet, CliQuiet, Free,
        Goto, Applying, Writing, Loading, Opening, Restoring, disk, locals,
        kernel
<1>1. CASE Start
  BY <1>1 DEF Start
<1>2. CASE Wake
  BY <1>2 DEF Wake
<1>3. CASE KeepFirewall
  BY <1>3 DEF KeepFirewall, Table
<1>4. CASE BringUp
  BY <1>4 DEF BringUp, Call, Plans
<1>5. CASE Report
  BY <1>5 DEF Report
<1>6. CASE Unreachable
  BY <1>6 DEF Unreachable
<1>7. CASE HoldExpires
  BY <1>7 DEF HoldExpires
<1>8. CASE Fetch
  BY <1>8 DEF Fetch, Transactions
<1>9. CASE KeepPrev
  <2>1. /\ \/ prev'["nftables"] = prev["nftables"]
           \/ /\ prev'["nftables"] = tx.file["nftables"]
              /\ tx.file["nftables"] # None
        /\ UNCHANGED <<file, tx, rb, plan, nft>>
        /\ pc' = [pc EXCEPT !["run"] = "write"]
    BY <1>9 DEF KeepPrev
  <2>2. pc["run"] = "keepprev" /\ tx.want \in Versions
    BY <1>9, TxIfaceType DEF KeepPrev
  <2>3. /\ prev'["nftables"] \in {tx.file["nftables"], tx.prev["nftables"]}
        /\ prev'["nftables"] # None => tx.file["nftables"] # None
    BY <2>1, <2>2
  <2> QED
    BY <2>1, <2>2, <2>3, ConstantsAssumption
<1>10. CASE Write
  <2>1. TxIface \in Ifaces /\ tx.want \in Versions /\ tx.n \in 1..3
    BY <1>10, TxIfaceType DEF Write, LocalsInUse
  <2>2. /\ tx'.want = tx.want /\ tx'.file = tx.file /\ tx'.prev = tx.prev
        /\ UNCHANGED <<prev, rb, plan, nft>> /\ pc'["cli"] = pc["cli"]
        /\ pc["run"] = "write"
    BY <1>10 DEF Write, Transactions
  <2>3. CASE file' = file /\ pc'["run"] = "unwrite"
    BY <2>2, <2>3, <2>1
  <2>4. CASE /\ file' = [file EXCEPT ![Order(TxIface)[tx.n]] = tx.want]
             /\ tx'.n = tx.n + 1
             /\ IF tx.n < 3 THEN pc'["run"] = "keepprev"
                            ELSE pc'["run"] \in {"drop", "nft"}
    <3>1. /\ tx.n = 2 => file'["nftables"] = tx.want
          /\ tx.n # 2 => file'["nftables"] = file["nftables"]
      BY <2>1, <2>4 DEF Order
    <3> QED
      BY <2>1, <2>2, <2>4, <3>1, ConstantsAssumption
  <2> QED
    BY <1>10, <2>3, <2>4 DEF Write, Transactions
<1>11. CASE Drop
  BY <1>11, TxType DEF Drop
<1>12. CASE ApplyNft
  <2>1. tx.want \in Versions /\ file["nftables"] = tx.want /\ pc["run"] = "nft"
    <3>1. pc["run"] = "nft"
      BY <1>12 DEF ApplyNft
    <3>2. tx.want \in Versions
      BY <3>1 DEF LocalsInUse
    <3> QED
      BY <3>1, <3>2
  <2>2. pc'["run"] = "sysctl" => nft' = tx.want
    BY <1>12, <2>1 DEF ApplyNft, Proceed, Undo, Table
  <2>3. /\ tx'.want = tx.want /\ tx'.file = tx.file /\ tx'.prev = tx.prev
        /\ UNCHANGED <<file, prev, rb, plan>> /\ pc'["cli"] = pc["cli"]
        /\ pc'["run"] \in {"sysctl", "restore"}
    BY <1>12 DEF ApplyNft, Proceed, Undo, Transactions
  <2> QED
    BY <2>1, <2>2, <2>3
<1>13. CASE ApplySysctl
  BY <1>13 DEF ApplySysctl, Undo, Transactions
<1>14. CASE Delete
  BY <1>14 DEF Delete
<1>15. CASE Up
  BY <1>15 DEF Up, Proceed, Undo, Transactions
<1>16. CASE SyncPeers
  BY <1>16 DEF SyncPeers, Proceed, Undo, Transactions
<1>17. CASE SyncRoutes
  BY <1>17 DEF SyncRoutes, Proceed, Undo, Transactions
<1>18. CASE Finish
  BY <1>18 DEF Finish
<1>19. CASE Restore
  <2>1. /\ file'["nftables"] \in {file["nftables"], tx.file["nftables"]}
        /\ prev'["nftables"] \in {prev["nftables"], tx.prev["nftables"]}
    BY <1>19, TxType DEF Restore
  <2>2. tx' \in {[tx EXCEPT !.n = @ - 1], [tx EXCEPT !.n = @ - 1, !.err = TRUE]}
    BY <1>19 DEF Restore
  <2>3. tx'.want = tx.want /\ tx'.file = tx.file /\ tx'.prev = tx.prev
    BY <2>2 DEF Transactions
  <2>4. /\ pc["run"] \in {"restore", "unwrite"} /\ UNCHANGED <<rb, plan, nft>>
        /\ pc'["run"] \in {pc["run"], "undel", "idle"} /\ pc'["cli"] = pc["cli"]
    BY <1>19 DEF Restore
  <2>5. tx.want \in Versions
    BY <2>4, TxIfaceType
  <2>6. RulesetKept'
    BY <2>1, <2>4, <2>5, ConstantsAssumption
  <2> QED
    BY <2>1, <2>3, <2>4, <2>6
<1>20. CASE Undelete
  BY <1>20 DEF Undelete, Call, Plans
<1>21. CASE Resync
  BY <1>21 DEF Resync
<1>22. CASE Reroute
  BY <1>22 DEF Reroute
<1>23. CASE Swap
  BY <1>23 DEF Swap, AfterSwap, Rollbacks, Order, LocalsInUse, Contents
<1>24. CASE SwapPrev
  <2>1. rb.n \in 1..3 /\ rb.iface \in Ifaces
    BY <1>24 DEF SwapPrev, LocalsInUse, Rollbacks
  <2>2. /\ UNCHANGED <<file, tx, plan, nft>> /\ pc'["run"] = pc["run"]
        /\ pc'["cli"] \in {"swap", "lower", "idle"} /\ pc["cli"] = "swapprev"
        /\ pc["run"] \in {"down", "idle"}
    BY <1>24 DEF SwapPrev, AfterSwap
  <2>3. \/ prev'["nftables"] = prev["nftables"]
        \/ prev'["nftables"] \in Versions /\ file["nftables"] # None
    <3>1. CASE rb.n = 2
      <4>1. rb.cur \in Versions /\ file["nftables"] # None
        BY <3>1, <2>2
      <4> QED
        BY <1>24, <3>1, <4>1, ConstantsAssumption DEF SwapPrev, Order
    <3>2. CASE rb.n # 2
      BY <1>24, <2>1, <3>2 DEF SwapPrev, Order
    <3> QED
      BY <3>1, <3>2
  <2>4. RulesetKept'
    BY <2>2, <2>3, ConstantsAssumption
  <2> QED
    BY <2>2, <2>4
<1>25. CASE Lower
  BY <1>25 DEF Lower, Rollbacks
<1>26. CASE Unload
  BY <1>26 DEF Unload
<1>27. CASE Record
  BY <1>27 DEF Record
<1>28. CASE Publish
  BY <1>28 DEF Publish
<1>29. CASE Reboot
  BY <1>29 DEF Reboot, Plans, Rollbacks
<1>30. CASE Flush
  BY <1>30 DEF Flush
<1>31. CASE \E p \in {"run", "cli"} : FromDisk(p)
  <2> PICK p \in {"run", "cli"} : FromDisk(p)
    BY <1>31
  <2>1. CASE Check(p)
    BY <2>1 DEF Check, Plans, Fails
  <2>2. CASE Load(p)
    BY <2>2, ConstantsAssumption DEF Load, Unfiltered, Table, Fails, Contents
  <2>3. CASE Forward(p)
    BY <2>3 DEF Forward, Fails
  <2>4. CASE Raise(p)
    BY <2>4 DEF Raise, Fails, LocalsInUse
  <2> QED
    BY <2>1, <2>2, <2>3, <2>4 DEF FromDisk
<1>32. CASE \E op \in CliOps : Command(op)
  BY <1>32 DEF Command, Plans, Rollbacks
<1>33. CASE \E p \in {"run", "cli"} : Crash(p)
  BY <1>33 DEF Crash
<1>34. CASE \E i \in Ifaces : LinkDown(i)
  BY <1>34 DEF LinkDown
<1>35. CASE UNCHANGED vars
  BY <1>35 DEF vars
<1> QED
  BY <1>1, <1>2, <1>3, <1>4, <1>5, <1>6, <1>7, <1>8, <1>9, <1>10, <1>11,
     <1>12, <1>13, <1>14, <1>15, <1>16, <1>17, <1>18, <1>19, <1>20, <1>21,
     <1>22, <1>23, <1>24, <1>25, <1>26, <1>27, <1>28, <1>29, <1>30, <1>31,
     <1>32, <1>33, <1>34, <1>35
  DEF Next, Daemon, Apply, Undoing, Cli

-----------------------------------------------------------------------------
(* The host fails closed *)

\* The interfaces that are there.
HostUp == {i \in Ifaces : tun[i] # None}

\* What the steps of a host that fails closed are, in the agent's variables.
LEMMA HostMoves ==
  ASSUME \/ UNCHANGED <<file["nftables"], nft, fwd, HostUp>>
         \/ /\ file'["nftables"] \in Versions \cup {None}
            /\ UNCHANGED <<nft, fwd, HostUp>>
         \/ /\ file["nftables"] # None /\ nft' = file["nftables"]
            /\ UNCHANGED <<file["nftables"], fwd, HostUp>>
         \/ /\ nft # None /\ nft = file["nftables"] /\ fwd' = TRUE
            /\ UNCHANGED <<file["nftables"], nft, HostUp>>
         \/ /\ nft # None /\ nft = file["nftables"]
            /\ \E i \in Ifaces : HostUp' = HostUp \union {i}
            /\ UNCHANGED <<file["nftables"], nft, fwd>>
         \/ /\ \E i \in Ifaces : HostUp' = HostUp \ {i}
            /\ UNCHANGED <<file["nftables"], nft, fwd>>
         \/ /\ nft' = None
            /\ UNCHANGED <<file["nftables"], fwd, HostUp>>
         \/ /\ nft' = None /\ fwd' = FALSE /\ HostUp' = {}
            /\ UNCHANGED file["nftables"]
  PROVE  [Host!HostNext]_(Host!hostVars)
  BY DEF HostUp, Host!HostNext, Host!hostVars, Host!Replace, Host!Install, Host!Protected,
         Host!Forwards, Host!Connect, Host!Disconnect, Host!Lose, Host!PowerLoss

LEMMA OneLink ==
  ASSUME TypeOK, NEW i \in Ifaces, NEW l, tun' = [tun EXCEPT ![i] = l]
  PROVE  /\ l # None => HostUp' = HostUp \union {i}
         /\ l = None => HostUp' = HostUp \ {i}
  BY DEF HostUp, TypeOK

LEMMA SameLinks ==
  ASSUME TypeOK, NEW i \in Ifaces, tun[i] # None, NEW c \in Contents,
         tun' = Synced(i) \/ tun' = Rerouted(i, c)
  PROVE  HostUp' = HostUp
<1>1. tun[i] \in Links /\ file[i] \in Contents
  BY PathsType DEF TypeOK
<1>2. [tun[i] EXCEPT !.peers = file[i]] \in Links /\ [tun[i] EXCEPT !.routes = c] \in Links
  BY <1>1 DEF Links
<1>3. \E l \in Links : tun' = [tun EXCEPT ![i] = l]
  BY <1>2 DEF Synced, Rerouted
<1>4. HostUp' = HostUp \union {i}
  BY <1>3, OneLink, ConstantsAssumption
<1> QED
  BY <1>4 DEF HostUp

\* The steps of an apply, an undo or a command that do nothing to the host.
LEMMA HostUntouched ==
  ASSUME TypeOK, LocalsInUse,
         \/ Start \/ Wake \/ BringUp \/ Report \/ Unreachable \/ Fetch \/ HoldExpires
         \/ KeepPrev \/ Drop \/ Finish \/ Record \/ SwapPrev \/ Publish
         \/ SyncPeers \/ SyncRoutes \/ Resync \/ Reroute
         \/ \E op \in CliOps : Command(op)
         \/ \E p \in {"run", "cli"} : Check(p) \/ Crash(p)
         \/ UNCHANGED vars
  PROVE  UNCHANGED <<file["nftables"], nft, fwd, HostUp>>
<1> USE DEF disk, kernel
<1>1. ASSUME NEW i \in Ifaces PROVE i # "nftables"
  BY ConstantsAssumption
<1>2. CASE SyncPeers \/ SyncRoutes \/ Resync \/ Reroute
  <2>1. UNCHANGED <<file, nft, fwd>>
    BY <1>2 DEF SyncPeers, SyncRoutes, Resync, Reroute
  <2>2. \/ tun' = tun
        \/ \E i \in Ifaces, c \in Contents :
             tun[i] # None /\ (tun' = Synced(i) \/ tun' = Rerouted(i, c))
    <3>1. CASE SyncPeers
      <4>1. TxIface \in Ifaces /\ None \in Contents
        BY <3>1, TxIfaceType, PathsType DEF SyncPeers, Applying, Opening
      <4> QED
        BY <3>1, <4>1 DEF SyncPeers
    <3>2. CASE SyncRoutes
      <4>1. TxIface \in Ifaces /\ None \in Contents /\ tx.want \in Contents
        BY <3>2, TxIfaceType, PathsType DEF SyncRoutes, Applying, Opening
      <4> QED
        BY <3>2, <4>1 DEF SyncRoutes
    <3>3. CASE Resync \/ Reroute
      <4>1. tx.old \in Ifaces /\ None \in Contents /\ tx.file[tx.old] \in Contents
        BY TxType, PathsType
      <4> QED
        BY <3>3, <4>1 DEF Resync, Reroute
    <3> QED
      BY <1>2, <3>1, <3>2, <3>3
  <2> QED
    BY <2>1, <2>2, SameLinks DEF HostUp
<1>3. CASE Drop
  <2>1. tx.old \in Ifaces
    BY TxType
  <2> QED
    BY <1>1, <1>3, <2>1, PathsType DEF Drop, HostUp, TypeOK
<1> QED
  BY <1>2, <1>3
  DEF HostUp, Start, Wake, BringUp, Report, Unreachable, Fetch, HoldExpires, KeepPrev,
      Finish, Record, SwapPrev, Publish, Command, Check, Crash, Call, vars

\* With the ruleset that is on disk in the kernel one more thing is opened.
LEMMA HostOpens ==
  ASSUME TypeOK, nft # None, nft = file["nftables"], UNCHANGED <<file, nft>>,
         \/ UNCHANGED tun /\ fwd' \in {fwd, TRUE}
         \/ UNCHANGED fwd /\ \E i \in Ifaces, l \in Links : tun' = [tun EXCEPT ![i] = l]
  PROVE  [Host!HostNext]_(Host!hostVars)
<1>1. CASE UNCHANGED tun /\ fwd' \in {fwd, TRUE}
  BY <1>1, HostMoves DEF HostUp
<1>2. CASE UNCHANGED fwd /\ \E i \in Ifaces, l \in Links : tun' = [tun EXCEPT ![i] = l]
  <2>1. PICK i \in Ifaces, l \in Links : tun' = [tun EXCEPT ![i] = l]
    BY <1>2
  <2>2. HostUp' = HostUp \union {i}
    BY <2>1, OneLink, ConstantsAssumption
  <2> QED
    BY <1>2, <2>2, HostMoves
<1> QED
  BY <1>1, <1>2

LEMMA HostStep ==
  ASSUME TypeOK, LocalsInUse, FilterInv, [Next]_vars
  PROVE  [Host!HostNext]_(Host!hostVars)
<1> USE DEF kernel, disk
<1>0. /\ file["nftables"] \in Versions \cup {None}
      /\ prev["nftables"] \in Versions \cup {None}
  BY PathsType DEF FilterInv, RulesetKept, TypeOK, Contents
<1>f. file \in [Paths -> Contents] /\ "nftables" \in Paths
  BY PathsType DEF TypeOK
<1>1. CASE \/ Start \/ Wake \/ BringUp \/ Report \/ Unreachable \/ Fetch \/ HoldExpires
           \/ KeepPrev \/ Drop \/ Finish \/ Record \/ SwapPrev \/ Publish
           \/ SyncPeers \/ SyncRoutes \/ Resync \/ Reroute
           \/ \E op \in CliOps : Command(op)
           \/ \E p \in {"run", "cli"} : Check(p) \/ Crash(p)
           \/ UNCHANGED vars
  BY <1>1, HostUntouched, HostMoves
<1>2. CASE Write \/ Restore \/ Swap
  <2>1. UNCHANGED <<nft, fwd, tun>>
    BY <1>2 DEF Write, Restore, Swap
  <2>2. file'["nftables"] \in Versions \cup {None}
    <3>1. CASE Write
      <4>1. tx.want \in Versions
        BY <3>1, TxIfaceType DEF Write, Applying, Writing
      <4> QED
        BY <3>1, <4>1, <1>0, <1>f DEF Write
    <3>2. CASE Restore
      <4>1. tx.file["nftables"] \in Versions \cup {None}
        BY <3>2, TxType, PathsType
        DEF Restore, FilterInv, ApplyKeepsRuleset, Applying, Restoring, Contents
      <4> QED
        BY <3>2, <4>1, <1>0, <1>f DEF Restore
    <3>3. CASE Swap
      BY <3>3, <1>0, <1>f DEF Swap
    <3> QED
      BY <1>2, <3>1, <3>2, <3>3
  <2> QED
    BY <2>1, <2>2, HostMoves DEF HostUp
<1>3. CASE KeepFirewall \/ ApplyNft \/ \E p \in {"run", "cli"} : Load(p)
  <2>1. UNCHANGED <<file, fwd, tun>>
    BY <1>3 DEF KeepFirewall, ApplyNft, Load
  <2>2. nft' = nft \/ (file["nftables"] # None /\ nft' = file["nftables"])
    BY <1>0, <1>3 DEF KeepFirewall, ApplyNft, Load, Table
  <2> QED
    BY <2>1, <2>2, HostMoves DEF HostUp
<1>4. CASE ApplySysctl \/ Up
  <2>1. pc["run"] \in Opening
    BY <1>4 DEF ApplySysctl, Up, Opening
  <2>2. tx.want \in Versions /\ nft = tx.want /\ file["nftables"] = tx.want
    BY <2>1 DEF FilterInv, ApplyIsFiltered, LocalsInUse, Applying
  <2>3. nft # None
    BY <2>2, ConstantsAssumption
  <2>4. TxIface \in Ifaces /\ file[TxIface] \in Contents
    BY <2>1, TxIfaceType, PathsType DEF Applying, TypeOK
  <2>5. \/ UNCHANGED tun /\ fwd' \in {fwd, TRUE}
        \/ UNCHANGED fwd /\ \E i \in Ifaces, l \in Links : tun' = [tun EXCEPT ![i] = l]
    BY <1>4, <2>4, LinkForType DEF ApplySysctl, Up
  <2>6. UNCHANGED <<file, nft>>
    BY <1>4 DEF ApplySysctl, Up
  <2> QED
    BY <2>2, <2>3, <2>5, <2>6, HostOpens
<1>5. CASE \E p \in {"run", "cli"} : Forward(p) \/ Raise(p)
  <2> PICK p \in {"run", "cli"} : Forward(p) \/ Raise(p)
    BY <1>5
  <2>1. pc[p] \in {"forward", "raise"} /\ UNCHANGED <<file, nft>>
    BY DEF Forward, Raise
  <2>2. CASE plan[p].parts = {}
    <3>1. UNCHANGED <<tun, fwd>>
      BY <2>2 DEF Forward, Raise
    <3> QED
      BY <2>1, <3>1, HostMoves DEF HostUp
  <2>3. CASE plan[p].parts # {}
    <3>1. nft # None /\ nft = file["nftables"]
      BY <2>1, <2>3, ConstantsAssumption DEF FilterInv, FromDiskIsFiltered
    <3>2. plan[p].iface \in Ifaces /\ file[plan[p].iface] \in Contents
      BY PathsType DEF TypeOK, Plans
    <3>3. \/ UNCHANGED tun /\ fwd' \in {fwd, TRUE}
          \/ UNCHANGED fwd /\ \E i \in Ifaces, l \in Links : tun' = [tun EXCEPT ![i] = l]
      BY <3>2, LinkForType DEF Forward, Raise
    <3> QED
      BY <2>1, <3>1, <3>3, HostOpens
  <2> QED
    BY <2>2, <2>3
<1>6. CASE Delete \/ Undelete \/ Lower \/ \E i \in Ifaces : LinkDown(i)
  <2>1. UNCHANGED <<file, nft, fwd>>
    BY <1>6 DEF Delete, Undelete, Lower, LinkDown
  <2>2. tun' = tun \/ \E i \in Ifaces : tun' = [tun EXCEPT ![i] = None]
    <3>1. Delete => TxIface \in Ifaces /\ tx.old \in Ifaces
      BY TxIfaceType, TxType DEF Delete, Applying, Opening
    <3>2. CASE Undelete
      BY <3>2 DEF Undelete, TypeOK
    <3> QED
      BY <1>6, <3>1, <3>2 DEF Delete, Lower, LinkDown, TypeOK
  <2> QED
    BY <2>1, <2>2, OneLink, HostMoves DEF HostUp
<1>7. CASE Unload \/ Flush
  BY <1>7, HostMoves DEF Unload, Flush, HostUp
<1>8. CASE Reboot
  <2>1. HostUp' = {}
    BY <1>8 DEF Reboot, HostUp
  <2> QED
    BY <1>8, <2>1, HostMoves DEF Reboot
<1> QED
  BY <1>1, <1>2, <1>3, <1>4, <1>5, <1>6, <1>7, <1>8
  DEF Next, Daemon, Apply, Undoing, Cli, FromDisk

\* While the processes do not interleave, the agent, its commands and whatever
\* fails, crashes or is done to the host by hand implement a host that fails
\* closed (apply.go 386-431): whole rulesets on disk, that one and no other
\* loaded, and nothing opened but under it.
THEOREM AgentFailsClosed == ASSUME ~Interleave PROVE Spec => FailsClosed
<1> DEFINE Inv == TypeOK /\ LocalsInUse /\ FilterInv
<1>1. Init => Inv
  BY TypeInit, FilterInit
<1>2. Inv /\ [Next]_vars => Inv'
  BY TypeStep, LocalsStep, FilterStep
<1>3. Inv /\ [Next]_vars => [Host!HostNext]_(Host!hostVars)
  BY HostStep
<1>4. Init => Host!HostInit
  BY PathsType DEF Init, Host!HostInit
<1> QED
  BY <1>1, <1>2, <1>3, <1>4, PTL DEF Spec, FailsClosed, Host!HostSpec

\* While the processes do not interleave, whatever fails or crashes, nothing is
\* switched on without the ruleset that is on disk in the kernel: a consequence
\* of failing closed.
THEOREM FirewallFirst == ASSUME ~Interleave PROVE Spec => OpensOnlyFiltered
<1>1. [Host!HostNext]_(Host!hostVars) => [Opens => nft # None /\ nft = file["nftables"]]_vars
  <2> SUFFICES ASSUME [Host!HostNext]_(Host!hostVars), Opens, ~Host!Protected
               PROVE  FALSE
    BY DEF Host!Protected
  <2>1. /\ fwd' => fwd
        /\ \A i \in HostUp' : i \in HostUp
    BY DEF HostUp, Host!HostNext, Host!hostVars, Host!Replace, Host!Install, Host!Forwards,
           Host!Connect, Host!Disconnect, Host!Lose, Host!PowerLoss
  <2> QED
    BY <2>1 DEF Opens, HostUp
<1> QED
  BY <1>1, AgentFailsClosed, PTL DEF FailsClosed, Host!HostSpec, OpensOnlyFiltered

-----------------------------------------------------------------------------
(* Undo puts every file back *)

\* Why UndoRestoresFiles holds while no process acts in the middle of another's work: an
\* apply leaves alone what its transaction has not saved, and a restore that
\* went well so far has put back every path from the last down to here.
Restored(k) == LET s == Saved(TxIface, tx.old)[k] IN
               IF s[2] = "file" THEN file[s[1]] = tx.file[s[1]]
                                ELSE prev[s[1]] = tx.prev[s[1]]

\* Both together, for every path an apply may touch (applyConfig's transaction
\* and its restore, apply.go 192-262).
UndoInv ==
  /\ pc["run"] \in Applying =>
       \A x \in Paths \ {TxIface, "nftables", "sysctl"} :
         /\ prev[x] = tx.prev[x]
         /\ x # tx.old => file[x] = tx.file[x]
  /\ pc["run"] \in Restoring /\ ~tx.err =>
       \A k \in 1..7 : k > tx.n =>
         (k = 7 /\ TxIface = tx.old) \/ Restored(k)

\* What a restore step does to the k-th path of a transaction.
LEMMA RestoreSlot ==
  ASSUME TypeOK, LocalsInUse, UndoInv, Restore, ~tx'.err,
         NEW k \in 1..7, k > tx.n - 1, ~(k = 7 /\ TxIface = tx.old)
  PROVE  Restored(k)'
<1> DEFINE s == Saved(TxIface, tx.old)[tx.n]
           t == Saved(TxIface, tx.old)[k]
<1>1. pc["run"] \in Restoring /\ tx.n \in 1..7
  BY DEF Restore, LocalsInUse, Restoring
<1>2. TxIface \in Ifaces /\ tx.old \in Ifaces /\ tx \in Transactions
  BY <1>1, TxIfaceType, TxType DEF Applying, TypeOK
<1>3. tx' \in {[tx EXCEPT !.n = @ - 1], [tx EXCEPT !.n = @ - 1, !.err = TRUE]}
  BY DEF Restore
<1>4. tx' = [tx EXCEPT !.n = @ - 1] /\ ~tx.err
  BY <1>2, <1>3 DEF Transactions
<1>5. tx'.file = tx.file /\ tx'.prev = tx.prev
      /\ Saved(TxIface, tx.old)' = Saved(TxIface, tx.old)
  BY <1>2, <1>4 DEF Transactions, TxIface, Saved
<1>6. ASSUME NEW j \in 1..7
      PROVE  LET q == Saved(TxIface, tx.old)[j] IN
             q[1] \in Paths /\ q[2] \in {"file", "prev"}
  BY <1>2, PathsType DEF Saved
<1>7. IF s[2] = "file"
        THEN file' = [file EXCEPT ![s[1]] = tx.file[s[1]]] /\ prev' = prev
        ELSE prev' = [prev EXCEPT ![s[1]] = tx.prev[s[1]]] /\ file' = file
  <2>1. tx' # [tx EXCEPT !.n = @ - 1, !.err = TRUE]
    BY <1>2, <1>3 DEF Transactions
  <2> QED
    BY <2>1 DEF Restore
<1>8. CASE k = tx.n
  BY <1>1, <1>5, <1>6, <1>7, <1>8 DEF Restored, TypeOK
<1>9. CASE k > tx.n
  <2>1. IF t[2] = "file" THEN file[t[1]] = tx.file[t[1]]
                         ELSE prev[t[1]] = tx.prev[t[1]]
    BY <1>1, <1>4, <1>9 DEF UndoInv, Restored
  <2> QED
    BY <1>1, <1>5, <1>6, <1>7, <2>1 DEF Restored, TypeOK
<1> QED
  BY <1>1, <1>8, <1>9

LEMMA UndoStep ==
  ASSUME ~Interleave, TypeOK, LocalsInUse, OneAtATime, UndoInv, [Next]_vars
  PROVE  UndoInv'
<1>0. /\ pc \in [{"run", "cli"} -> Labels] /\ tx \in Transactions
      /\ file \in [Paths -> Contents] /\ prev \in [Paths -> Contents]
  BY DEF TypeOK
<1>a. ASSUME NEW i \in Ifaces
      PROVE  i # "nftables" /\ i # "sysctl" /\ i \in Paths
  BY ConstantsAssumption, PathsType
<1>b. LocalsInUse'
  BY LocalsStep
<1>c. pc["run"] \in Applying \cup {"finish"} => TxIface \in Ifaces
  BY TxIfaceType
<1>d. (pc["run"] \in Applying \cup {"finish"} => TxIface \in Ifaces)'
  BY <1>b, ConstantsAssumption DEF LocalsInUse, TxIface
<1>e. ASSUME UNCHANGED <<file, prev, tx>>,
             pc'["run"] \in Applying => pc["run"] \in Applying,
             pc'["run"] \in Restoring => pc["run"] \in Restoring
      PROVE  UndoInv'
  BY <1>e DEF UndoInv, Restored, TxIface
<1>f. ASSUME pc'["run"] \notin Applying PROVE UndoInv'
  BY <1>f DEF UndoInv, Applying
<1> USE <1>0 DEF Goto, Applying, Writing, Loading, Opening, Restoring
<1>1. CASE Fetch
  <2>1. /\ tx'.file = file' /\ tx'.prev = prev'
        /\ pc'["run"] \in {"finish", "idle", "keepprev"}
    BY <1>1 DEF Fetch, disk
  <2> QED
    BY <2>1 DEF UndoInv
<1>2. CASE KeepPrev
  <2>1. tx.n \in 1..3 /\ TxIface \in Ifaces
    BY <1>2, <1>c DEF KeepPrev, LocalsInUse
  <2> QED
    BY <1>2, <2>1, <1>a DEF KeepPrev, UndoInv, Order, locals, TxIface
<1>3. CASE Write
  <2>1. tx.n \in 1..3 /\ TxIface \in Ifaces
    BY <1>3, <1>c DEF Write, LocalsInUse
  <2> QED
    BY <1>3, <2>1, <1>a DEF Write, UndoInv, Order, TxIface, Transactions
<1>4. CASE Drop
  BY <1>4 DEF Drop, UndoInv, locals, TxIface
<1>5. CASE ApplyNft \/ ApplySysctl \/ Up \/ SyncPeers \/ SyncRoutes
  <2>1. /\ tx'.want = tx.want /\ tx'.old = tx.old /\ tx'.file = tx.file
        /\ tx'.prev = tx.prev /\ UNCHANGED <<file, prev>>
        /\ pc["run"] \in Applying
        /\ pc'["run"] \in Restoring =>
             tx'.n = IF TxIface # tx.old THEN 7 ELSE 6
    BY <1>5
    DEF ApplyNft, ApplySysctl, Up, SyncPeers, SyncRoutes, Proceed, Undo,
                disk, Transactions
  <2> QED
    BY <2>1 DEF UndoInv, TxIface
<1>6. CASE Restore
  <2>1. pc["run"] \in Restoring /\ tx.n \in 1..7 /\ TxIface \in Ifaces
        /\ tx.old \in Ifaces
    BY <1>6, <1>c DEF Restore, LocalsInUse, Transactions
  <2>2. tx' \in {[tx EXCEPT !.n = @ - 1], [tx EXCEPT !.n = @ - 1, !.err = TRUE]}
    BY <1>6 DEF Restore
  <2>3. /\ tx'.want = tx.want /\ tx'.old = tx.old /\ tx'.n = tx.n - 1
        /\ tx'.file = tx.file /\ tx'.prev = tx.prev /\ TxIface' = TxIface
    BY <2>2 DEF Transactions, TxIface
  <2>4. \A x \in Paths : /\ file'[x] \in {file[x], tx.file[x]}
                         /\ prev'[x] \in {prev[x], tx.prev[x]}
    BY <1>6 DEF Restore
  <2>5. pc'["run"] \in {pc["run"], "undel", "idle"}
    BY <1>6 DEF Restore
  <2>6. ASSUME pc'["run"] \in Applying,
               NEW x \in Paths \ {TxIface, "nftables", "sysctl"}
        PROVE  prev'[x] = tx.prev[x] /\ (x # tx.old => file'[x] = tx.file[x])
    BY <2>1, <2>4 DEF UndoInv
  <2>7. ASSUME ~tx'.err, NEW k \in 1..7, k > tx'.n, ~(k = 7 /\ TxIface = tx.old)
        PROVE  Restored(k)'
    BY RestoreSlot, <2>1, <2>3, <2>7, <1>6
  <2> QED
    BY <2>1, <2>3, <2>5, <2>6, <2>7 DEF UndoInv
<1>7. CASE \/ Delete \/ Finish \/ Undelete \/ Resync \/ Reroute
           \/ Start \/ Wake \/ KeepFirewall \/ BringUp \/ Report \/ Unreachable
           \/ HoldExpires
  BY <1>7, <1>e, <1>f
  DEF Delete, Finish, Undelete, Resync, Reroute, Start, Wake,
     KeepFirewall, BringUp, Report, Unreachable, HoldExpires, Call, locals, disk
<1>8. CASE Swap \/ SwapPrev \/ Lower \/ Unload \/ Record
  <2>1. pc["cli"] # "idle" /\ pc'["run"] = pc["run"]
    BY <1>8 DEF Swap, SwapPrev, Lower, Unload, Record
  <2> QED
    BY <2>1, <1>f DEF OneAtATime, RunQuiet, CliQuiet
<1>10. CASE FromDisk("run")
  <2>1. pc'["run"] \in {"load", "forward", "raise", "report", "idle", "resync"}
    BY <1>10 DEF FromDisk, Check, Load, Forward, Raise, Fails, LocalsInUse
  <2> QED
    BY <2>1, <1>f
<1>11. CASE FromDisk("cli")
  <2>1. UNCHANGED <<file, prev, tx>> /\ pc'["run"] = pc["run"]
    BY <1>11 DEF FromDisk, Check, Load, Forward, Raise, Fails, disk, locals
  <2> QED
    BY <2>1, <1>e
<1>9. CASE \/ Publish \/ Reboot \/ Flush \/ UNCHANGED vars
           \/ \E op \in CliOps : Command(op)
           \/ \E p \in {"run", "cli"} : Crash(p)
           \/ \E i \in Ifaces : LinkDown(i)
  BY <1>9, <1>e, <1>f
  DEF Publish, Reboot, Flush, Command, Crash, LinkDown, vars, locals, disk
<1> QED
  BY <1>1, <1>2, <1>3, <1>4, <1>5, <1>6, <1>7, <1>8, <1>9, <1>10, <1>11
  DEF Next, Daemon, Apply, Undoing, Cli

LEMMA UndoneStep ==
  ASSUME TypeOK, LocalsInUse, UndoInv, [Next]_vars,
         pc["run"] \in Restoring, pc'["run"] # pc["run"], pc'["run"] # "down",
         ~tx'.err
  PROVE  file' = tx.file /\ prev' = tx.prev
<1>1. Restore
  <2> USE DEF Restoring, Goto
  <2>1. pc \in [{"run", "cli"} -> Labels]
    BY DEF TypeOK
  <2>2. ~(Daemon \/ Apply \/ Undelete \/ Resync \/ Reroute \/ HoldExpires)
    BY DEF Daemon, Start, Wake, KeepFirewall, BringUp, Report, Unreachable,
       Fetch,
       FromDisk, Check, Load, Forward, Raise, Apply, KeepPrev, Write, Drop,
       ApplyNft, ApplySysctl, Delete, Up, SyncPeers, SyncRoutes, Finish,
       Undelete, Resync, Reroute, HoldExpires
  <2>3. ~(Cli \/ \E op \in CliOps : Command(op))
    BY <2>1
    DEF Cli, Swap, SwapPrev, Lower, Unload, Record, FromDisk, Check, Load,
       Forward, Raise, Fails, Command
  <2>4. ~(\/ Publish \/ Flush \/ Reboot \/ UNCHANGED vars
          \/ \E p \in {"run", "cli"} : Crash(p)
          \/ \E i \in Ifaces : LinkDown(i))
    BY <2>1 DEF Publish, Flush, Reboot, Crash, LinkDown, vars, locals
  <2> QED
    BY <2>2, <2>3, <2>4 DEF Next, Undoing
<1>2. tx.n = 1
  BY <1>1 DEF Restore, LocalsInUse, Restoring, Goto, TypeOK
<1>3. \A k \in 1..7 : (k = 7 /\ TxIface = tx.old) \/ Restored(k)'
  BY <1>1, <1>2, RestoreSlot
<1>4. tx'.file = tx.file /\ tx'.prev = tx.prev
      /\ Saved(TxIface, tx.old)' = Saved(TxIface, tx.old)
  <2>1. tx' \in {[tx EXCEPT !.n = @ - 1], [tx EXCEPT !.n = @ - 1, !.err = TRUE]}
    BY <1>1 DEF Restore
  <2> QED
    BY <2>1 DEF Transactions, TypeOK, Saved, TxIface
<1>5. TypeOK'
  BY TypeStep
<1>6. ASSUME NEW x \in Paths
      PROVE  file'[x] = tx.file[x] /\ prev'[x] = tx.prev[x]
  <2>1. CASE x \in {TxIface, "nftables", "sysctl"}
    BY <1>3, <1>4, <2>1 DEF Restored, Saved
  <2>2. CASE x \notin {TxIface, "nftables", "sysctl"}
    <3>1. prev[x] = tx.prev[x] /\ (x # tx.old => file[x] = tx.file[x])
      BY <2>2 DEF UndoInv, Applying
    <3>2. /\ file'[x] \in {file[x], tx.file[x]}
          /\ prev'[x] \in {prev[x], tx.prev[x]}
      BY <1>1 DEF Restore, TypeOK
    <3>3. CASE x = tx.old
      BY <1>3, <1>4, <2>2, <3>1, <3>2, <3>3 DEF Restored, Saved
    <3> QED
      BY <3>1, <3>2, <3>3
  <2> QED
    BY <2>1, <2>2
<1> QED
  BY <1>4, <1>5, <1>6, TxType DEF TypeOK

\* While the processes do not interleave, an apply that fails leaves every file
\* and every .prev copy as it found them, unless a write of the undo failed.
THEOREM UndoIsExact == ASSUME ~Interleave PROVE Spec => UndoRestoresFiles
<1> DEFINE Inv == TypeOK /\ LocalsInUse /\ FilterInv /\ UndoInv
<1>1. Init => Inv
  <2>1. Init => UndoInv
    BY DEF Init, UndoInv, Applying, Writing, Loading, Opening, Restoring
  <2> QED
    BY <2>1, TypeInit, FilterInit
<1>2. Inv /\ [Next]_vars => Inv'
  BY TypeStep, LocalsStep, FilterStep, UndoStep DEF FilterInv
<1>3. Inv /\ [Next]_vars =>
        [pc["run"] \in {"restore", "unwrite"} /\ pc'["run"] # pc["run"]
           /\ pc'["run"] # "down" /\ ~tx'.err
           => file' = tx.file /\ prev' = tx.prev]_vars
  BY UndoneStep DEF Restoring
<1> QED
  BY <1>1, <1>2, <1>3, PTL DEF Spec, UndoRestoresFiles


-----------------------------------------------------------------------------
(* What was applied is what runs *)

\* Why AppliedIsRunning holds while no process acts in the middle of another's
\* work and at most one thing goes wrong, as an inductive invariant.  What the
\* files describe, if they were applied, is in the kernel:
Described ==
  DiskIsApplied /\ tun[meta.iface] # None
    => file[meta.iface] # None /\ RunsDisk(meta.iface)

\* between two passes of the loop and while one only looks or brings up what is
\* missing, while a command has not touched a file, and before the first fault.
LoopLabels == {"down", "idle", "keep", "bring", "report", "fetch"}
Steady == \/ CliQuiet /\ pc["run"] \in LoopLabels
          \/ pc["run"] \in DiskLabels /\ plan["run"].ret # "resync"
          \/ pc["cli"] \in DiskLabels /\ plan["cli"].ret = "idle"
          \/ faults = 0

SteadyRuns == Steady => Described

\* What is recorded never had an interface without a firewall.
HashFiltered ==
  /\ meta.hash # None =>
       (meta.hash.wg # None => meta.hash.nftables # None)
  /\ pc["cli"] = "record" =>
       (file[meta.iface] # None => file["nftables"] # None)

\* applyFromDisk goes by what is on disk.
DiskRead ==
  \A p \in {"run", "cli"} :
    pc[p] \in {"load", "forward", "raise"} =>
      plan[p].iface = meta.iface /\ plan[p].parts = Parts(meta.iface)

\* A command was the one thing that went wrong.  A rollback has the link down
\* before it brings up the files it put in place, and records those.
RollingBack == \/ pc["cli"] = "record"
               \/ pc["cli"] \in DiskLabels /\ plan["cli"].ret = "record"

CommandRuns ==
  /\ pc["cli"] # "idle" => faults = MaxFaults /\ faults # 0
  /\ pc["cli"] = "swap" /\ ~rb.some => Described
  /\ pc["cli"] \in {"swap", "swapprev", "lower", "unload"} => ~rb.err
  /\ pc["cli"] = "unload" => tun[meta.iface] = None
  /\ pc["cli"] \in {"swap", "swapprev", "lower", "unload"} \/ RollingBack =>
       rb.iface = meta.iface
  /\ RollingBack /\ tun[meta.iface] # None =>
       file[meta.iface] # None /\ RunsDisk(meta.iface)

\* What applyConfig found: whether the files it saved were those applied, ...
WasApplied ==
  /\ meta.hash # None
  /\ meta.hash = [wg |-> tx.file[tx.old], nftables |-> tx.file["nftables"],
                  sysctl |-> tx.file["sysctl"]]

\* ... so that the old link ran them, behind their firewall ...
OldRuns ==
  WasApplied /\ tun[tx.old] # None =>
    tx.file[tx.old] # None /\ tun[tx.old] = LinkFor(tx.file[tx.old])
OldNft ==
  WasApplied /\ tun[tx.old] # None => nft \in {tx.file["nftables"], None}

\* ... and whether syncing peers on it is enough.
CanSync ==
  /\ TxIface = tx.old /\ WasApplied
  /\ tun[tx.old] # None /\ tx.file[tx.old] # None
  /\ tun[tx.old].section = Section(tx.file[tx.old])
  /\ Section(tx.file[tx.old]) = SectionOf[tx.want]

Ahead == Writing \cup Loading \cup Opening
Back == Restoring \cup {"undel", "resync", "reroute"}
UndoingDisk == pc["run"] \in DiskLabels /\ plan["run"].ret = "resync"

ApplyRuns ==
  /\ pc["run"] \in Ahead \cup Back \/ UndoingDisk => meta.iface = tx.old
  /\ pc["run"] \in Writing \cup Loading \cup {"sysctl"} =>
       tx.touched = "no" /\ OldRuns
  /\ pc["run"] \in Writing \cup Loading => OldNft
  /\ pc["run"] \in Ahead => ~tx.err /\ (~tx.restart => CanSync)
  /\ pc["run"] \in {"del", "up"} =>
       tx.restart /\ tx.touched = "restarted" /\ OldRuns
  /\ pc["run"] \in {"sync", "routes"} => tx.touched = "synced" /\ CanSync
  /\ pc["run"] = "routes" => tun[tx.old].peers = tx.want
  /\ pc["run"] = "drop" => TxIface # tx.old

\* The new files are there once written, and at the end what runs is theirs.
Written ==
  /\ pc["run"] \in Writing =>
       /\ tx.n > 1 => file[TxIface] = tx.want
       /\ tx.n > 2 => file["nftables"] = tx.want
  /\ pc["run"] \in Loading \cup Opening \cup {"finish"} =>
       /\ file[TxIface] = tx.want /\ file["nftables"] = tx.want
       /\ file["sysctl"] = tx.want
  /\ pc["run"] = "finish" =>
       tun[TxIface] = LinkFor(tx.want) /\ nft \in {tx.want, None}

\* Undo runs after the one fault there is: the files come back as they were,
\* and the old link with them.
UndoRuns ==
  /\ pc["run"] \in Back \/ UndoingDisk =>
       /\ faults = MaxFaults /\ faults # 0 /\ ~tx.err
       /\ tx.touched = "synced" => CanSync
  /\ pc["run"] = "unwrite" => OldRuns /\ OldNft
  /\ pc["run"] \in {"restore", "undel"} =>
       (tx.touched = "no" => OldRuns)
       /\ (tx.touched = "restarted" /\ TxIface # tx.old => OldRuns)
  /\ pc["run"] = "resync" \/ UndoingDisk => (tx.touched # "synced" => OldRuns)
  /\ pc["run"] \in {"undel", "resync", "reroute"} \/ UndoingDisk =>
       file = tx.file
  /\ pc["run"] \in {"resync", "reroute"} => nft \in {file["nftables"], None}
  /\ UndoingDisk => Parts(tx.old) # {}
  /\ pc["run"] = "reroute" =>
       tx.touched = "synced" /\ tun[tx.old].peers = file[tx.old]

\* Before the first fault: no link but the one meta.json names, and that one
\* whenever there is a configuration.
Alone(i) == \A j \in Ifaces \ {i} : tun[j] = None

Unfaulted ==
  faults = 0 =>
    /\ CliQuiet
    /\ pc["run"] \in {"idle", "keep", "bring", "report", "fetch", "finish"}
                       \cup Ahead
    /\ \/ meta.hash = None
       \/ \E v \in Versions : meta.hash = Bundle(v) /\ meta.iface = IfaceOf[v]
    /\ pc["run"] \in LoopLabels =>
         /\ Alone(meta.iface)
         /\ IF meta.hash = None THEN file[meta.iface] = None
                                ELSE DiskIsApplied /\ tun[meta.iface] # None
    /\ pc["run"] \in Ahead => Alone(tx.old) /\ meta.hash # Bundle(tx.want)
    /\ pc["run"] = "up" => tun[tx.old] = None
    /\ pc["run"] = "finish" => Alone(TxIface)

RunningInv == /\ SteadyRuns /\ HashFiltered /\ DiskRead /\ CommandRuns
              /\ ApplyRuns /\ Written /\ UndoRuns /\ Unfaulted

LEMMA Basics ==
  /\ \A i \in Ifaces : i # "nftables" /\ i # "sysctl"
  /\ \A c : LinkFor(c) # None \/ c \notin Contents
  /\ \A v \in Versions : Bundle(v) # None /\ v # None /\ v # Empty
  /\ \A v, w \in Versions : Bundle(v) = Bundle(w) => v = w
<1>1. \A c \in Contents : LinkFor(c) # None
  BY LinkForType, ConstantsAssumption
<1>2. \A v \in Versions :
        Bundle(v) \in [wg : Contents, nftables : Contents, sysctl : Contents]
  BY DEF Bundle, Contents
<1>3. \A v \in Versions : Bundle(v) # None
  BY <1>2, ConstantsAssumption
<1>4. \A v, w \in Versions : Bundle(v) = Bundle(w) => v = w
  BY DEF Bundle
<1> QED
  BY <1>1, <1>3, <1>4, ConstantsAssumption

\* The last fault there may be.
LEMMA OneFault ==
  ASSUME MaxFaults <= 1, TypeOK, NEW l
  PROVE  /\ faults = MaxFaults => ~Fault(l)
         /\ Fault(l) => faults = 0 /\ faults' # 0 /\ faults' = MaxFaults
         /\ faults < MaxFaults => faults = 0 /\ faults + 1 # 0 /\ faults + 1 = MaxFaults
  BY ConstantsAssumption DEF TypeOK, Fault

\* While the daemon waits, what an apply or an undo needs is not asked for.
LEMMA OnlyCommands ==
  ASSUME pc'["run"] \in {"down", "idle"}, faults' # 0,
         SteadyRuns', HashFiltered', DiskRead', CommandRuns'
  PROVE  RunningInv'
  BY DEF RunningInv, ApplyRuns, Written, UndoRuns, Unfaulted, Ahead, Back,
         UndoingDisk, Writing, Loading, Opening, Restoring, DiskLabels

LEMMA SwapRuns ==
  ASSUME MaxFaults <= 1, TypeOK, LocalsInUse, FilterInv, RunningInv,
         Swap \/ SwapPrev
  PROVE  RunningInv'
<1> USE DEF Goto, disk, kernel, loop, locals
<1>1. pc["cli"] \in {"swap", "swapprev"} /\ pc["run"] \in {"down", "idle"}
      /\ faults = MaxFaults /\ faults # 0
  BY DEF Swap, SwapPrev, FilterInv, OneAtATime, RunQuiet, CliQuiet, RunningInv, CommandRuns
<1>2. UNCHANGED <<meta, tun, nft, plan, faults>> /\ pc'["run"] = pc["run"]
  BY <1>1, OneFault DEF Swap, SwapPrev, TypeOK
<1>3. rb'.iface = rb.iface /\ rb'.err = rb.err
  BY <1>1, OneFault DEF Swap, SwapPrev, TypeOK, Rollbacks
<1>4. rb.iface = meta.iface /\ ~rb.err
  BY <1>1 DEF RunningInv, CommandRuns
<1>5. pc'["cli"] \in {"swap", "swapprev", "lower", "idle"}
  BY <1>1, OneFault DEF Swap, SwapPrev, AfterSwap, TypeOK
<1>6. ASSUME pc'["cli"] = "idle" \/ (pc'["cli"] = "swap" /\ ~rb'.some)
      PROVE  Described /\ file' = file
  <2>1. CASE SwapPrev
    <3>1. rb'.some /\ pc'["cli"] \in {"swap", "lower"}
      BY <2>1 DEF SwapPrev, AfterSwap, TypeOK, Rollbacks
    <3> QED
      BY <3>1, <1>6
  <2>2. CASE Swap
    <3>1. ~rb.some /\ file' = file /\ pc["cli"] = "swap"
      BY <2>2, <1>1, <1>6, OneFault DEF Swap, AfterSwap, TypeOK, Rollbacks
    <3> QED
      BY <3>1 DEF RunningInv, CommandRuns
  <2> QED
    BY <2>1, <2>2
<1>7. pc'["cli"] = "idle" \/ (pc'["cli"] = "swap" /\ ~rb'.some) => Described'
  BY <1>2, <1>6 DEF Described, DiskIsApplied, DiskHash, RunsDisk, LinkFor
<1>8. SteadyRuns'
  <2>1. Steady' => pc'["cli"] = "idle"
    BY <1>1, <1>2, <1>5 DEF Steady, CliQuiet, DiskLabels
  <2> QED
    BY <1>7, <2>1 DEF SteadyRuns
<1>9. HashFiltered'
  BY <1>2, <1>5 DEF RunningInv, HashFiltered
<1>10. DiskRead'
  BY <1>1, <1>2, <1>5 DEF DiskRead
<1>11. CommandRuns'
  BY <1>1, <1>2, <1>3, <1>4, <1>5, <1>7 DEF CommandRuns, RollingBack, DiskLabels
<1> QED
  BY <1>1, <1>2, <1>8, <1>9, <1>10, <1>11, OnlyCommands

LEMMA LowerRuns ==
  ASSUME MaxFaults <= 1, TypeOK, LocalsInUse, FilterInv, RunningInv,
         Lower \/ Unload
  PROVE  RunningInv'
<1> USE DEF Goto, disk, kernel, loop, locals
<1>1. pc["cli"] \in {"lower", "unload"} /\ pc["run"] \in {"down", "idle"}
      /\ faults = MaxFaults /\ faults # 0
  BY DEF Lower, Unload, FilterInv, OneAtATime, RunQuiet, CliQuiet, RunningInv, CommandRuns
<1>2. UNCHANGED <<file, meta, plan, rb, faults>> /\ pc'["run"] = pc["run"]
  BY <1>1, OneFault DEF Lower, Unload, TypeOK
<1>3. tun'[meta.iface] = None
  BY <1>1, OneFault DEF Lower, Unload, TypeOK, RunningInv, CommandRuns
<1>4. pc'["cli"] \in {"unload", "check", "idle"}
  BY <1>1 DEF Lower, Unload, TypeOK
<1>5. Described'
  BY <1>2, <1>3 DEF Described
<1>6. SteadyRuns'
  BY <1>5 DEF SteadyRuns
<1>7. HashFiltered'
  BY <1>2, <1>4 DEF RunningInv, HashFiltered
<1>8. DiskRead'
  BY <1>1, <1>2, <1>4 DEF DiskRead
<1>9. rb.iface = meta.iface /\ ~rb.err
  BY <1>1 DEF RunningInv, CommandRuns
<1>10. CommandRuns'
  BY <1>1, <1>2, <1>3, <1>4, <1>5, <1>9 DEF CommandRuns, RollingBack, DiskLabels
<1> QED
  BY <1>1, <1>2, <1>6, <1>7, <1>8, <1>10, OnlyCommands

LEMMA RecordRuns ==
  ASSUME MaxFaults <= 1, TypeOK, LocalsInUse, FilterInv, RunningInv, Record
  PROVE  RunningInv'
<1> USE DEF Goto, disk, kernel, loop, locals
<1>1. pc["cli"] = "record" /\ pc["run"] \in {"down", "idle"}
      /\ faults = MaxFaults /\ faults # 0 /\ rb.iface = meta.iface
  BY DEF Record, FilterInv, OneAtATime, RunQuiet, CliQuiet, RunningInv, CommandRuns, RollingBack
<1>2. /\ UNCHANGED <<file, tun, nft, plan, rb, faults>> /\ pc'["run"] = pc["run"]
      /\ pc'["cli"] = "idle" /\ meta' = [iface |-> rb.iface, hash |-> DiskHash(rb.iface)]
  BY <1>1, OneFault DEF Record, TypeOK
<1>3. meta'.iface = meta.iface /\ meta'.hash = DiskHash(meta.iface)
  BY <1>1, <1>2
<1>4. Described'
  BY <1>1, <1>2, <1>3 DEF Described, RunsDisk, LinkFor, RunningInv, CommandRuns, RollingBack
<1>5. SteadyRuns'
  BY <1>4 DEF SteadyRuns
<1>6. HashFiltered'
  BY <1>1, <1>2, <1>3 DEF RunningInv, HashFiltered, DiskHash
<1>7. DiskRead'
  BY <1>1, <1>2 DEF DiskRead
<1>8. CommandRuns'
  BY <1>1, <1>2 DEF CommandRuns, RollingBack, DiskLabels
<1> QED
  BY <1>1, <1>2, <1>5, <1>6, <1>7, <1>8, OnlyCommands

\* What a step of applyFromDisk does once nothing can fail any more.
LEMMA DiskStep ==
  ASSUME MaxFaults <= 1, TypeOK, LocalsInUse, FilterInv, DiskRead,
         faults = MaxFaults, NEW p \in {"run", "cli"}, FromDisk(p)
  PROVE  /\ pc[p] \in DiskLabels
         /\ UNCHANGED <<file, prev, meta, tx, rb, faults>>
         /\ \A q \in {"run", "cli"} :
              plan'[q].ret = plan[q].ret /\ (q # p => pc'[q] = pc[q])
         /\ DiskRead'
         /\ nft' \in {nft, file["nftables"]}
         /\ \/ tun' = tun
            \/ /\ tun[meta.iface] = None /\ file[meta.iface] # None
               /\ tun' = [tun EXCEPT ![meta.iface] = LinkFor(file[meta.iface])]
               /\ nft' = nft /\ nft = file["nftables"]
         /\ \/ pc'[p] \in {"load", "forward", "raise"}
            \/ pc[p] = "raise" /\ pc'[p] = plan[p].ret
            \/ /\ pc'[p] \in {"report", "idle"}
               /\ pc'[p] = "report" => plan[p].ret = "report"
               /\ Unfiltered(Parts(meta.iface)) \/ tun'[meta.iface] = None
<1> USE DEF Goto, disk, kernel, loop, locals, Fails
<1>1. /\ pc \in [{"run", "cli"} -> Labels] /\ plan \in [{"run", "cli"} -> Plans]
      /\ tun \in [Ifaces -> Links \cup {None}] /\ meta.iface \in Ifaces
  BY DEF TypeOK
<1>2. ASSUME NEW q \in {"run", "cli"}, pc[q] \in {"load", "forward", "raise"}
      PROVE  plan[q].iface = meta.iface /\ plan[q].parts = Parts(meta.iface)
  BY <1>2 DEF DiskRead
<1>3. \A l : ~Fault(l)
  BY OneFault
<1>4. CASE Check(p)
  <2>1. /\ plan' = [plan EXCEPT ![p].iface = meta.iface, ![p].parts = Parts(meta.iface)]
        /\ UNCHANGED <<file, prev, meta, tun, nft, tx, rb, faults>>
        /\ pc[p] = "check"
        /\ \A q \in {"run", "cli"} : q # p => pc'[q] = pc[q]
    BY <1>1, <1>4 DEF Check
  <2>2. \A q \in {"run", "cli"} : plan'[q].ret = plan[q].ret
                                  /\ (q # p => plan'[q] = plan[q])
    BY <1>1, <2>1 DEF Plans
  <2>3. plan'[p].iface = meta.iface /\ plan'[p].parts = Parts(meta.iface)
    BY <1>1, <2>1 DEF Plans
  <2>4. Parts(meta.iface)' = Parts(meta.iface)
    BY <2>1 DEF Parts
  <2>5. DiskRead'
    BY <1>2, <2>1, <2>2, <2>3, <2>4 DEF DiskRead
  <2>6. \/ pc'[p] = "load"
        \/ /\ pc'[p] \in {"report", "idle"}
           /\ pc'[p] = "report" => plan[p].ret = "report"
           /\ Unfiltered(Parts(meta.iface))
    BY <1>1, <1>4 DEF Check
  <2> QED
    BY <2>1, <2>2, <2>5, <2>6 DEF DiskLabels
<1>5. CASE Load(p) \/ Forward(p) \/ Raise(p)
  <2>1. /\ UNCHANGED <<file, prev, meta, plan, tx, rb>>
        /\ pc[p] \in {"load", "forward", "raise"}
        /\ \A q \in {"run", "cli"} : q # p => pc'[q] = pc[q]
    BY <1>1, <1>5 DEF Load, Forward, Raise
  <2>2. DiskRead'
    BY <1>2, <2>1 DEF DiskRead, Parts
  <2>3. plan[p].iface = meta.iface /\ plan[p].parts = Parts(meta.iface)
    BY <1>2, <2>1
  <2>4. "nftables" \in Parts(meta.iface) => file["nftables"] # None
    BY DEF Parts
  <2>5. "wg" \in Parts(meta.iface) => file[meta.iface] # None
    BY DEF Parts
  <2>6. file["nftables"] # None => Table(file["nftables"]) = file["nftables"]
    BY PathsType DEF Table, TypeOK, FilterInv, RulesetKept, Contents
  <2>7. CASE Load(p)
    <3>1. /\ UNCHANGED <<tun, faults>> /\ pc'[p] = "forward"
          /\ nft' \in {nft, file["nftables"]}
      BY <1>1, <1>3, <2>3, <2>4, <2>6, <2>7 DEF Load
    <3> QED
      BY <2>1, <2>2, <3>1 DEF DiskLabels
  <2>8. CASE Forward(p)
    <3>1. UNCHANGED <<tun, nft, faults>> /\ pc'[p] = "raise"
      BY <1>1, <1>3, <2>8 DEF Forward
    <3> QED
      BY <2>1, <2>2, <3>1 DEF DiskLabels
  <2>9. CASE Raise(p)
    <3>1. UNCHANGED <<nft, faults>> /\ pc[p] = "raise"
      BY <1>3, <2>9 DEF Raise
    <3>2. "wg" \in Parts(meta.iface) => nft = file["nftables"]
      BY <2>3, <3>1 DEF FilterInv, FromDiskIsFiltered
    <3>3. \/ tun' = tun
          \/ /\ tun[meta.iface] = None /\ file[meta.iface] # None
             /\ tun' = [tun EXCEPT ![meta.iface] = LinkFor(file[meta.iface])]
             /\ nft = file["nftables"]
      BY <2>3, <2>5, <2>9, <3>2 DEF Raise, CanRaise
    <3>4. \/ pc'[p] = plan[p].ret
          \/ /\ pc'[p] \in {"report", "idle"}
             /\ pc'[p] = "report" => plan[p].ret = "report"
             /\ tun'[meta.iface] = None
      BY <1>1, <1>3, <2>3, <2>9 DEF Raise
    <3> QED
      BY <2>1, <2>2, <3>1, <3>3, <3>4 DEF DiskLabels
  <2> QED
    BY <1>5, <2>7, <2>8, <2>9
<1> QED
  BY <1>4, <1>5 DEF FromDisk

\* It leaves a link that runs what is on disk as it is, and brings up no other.
LEMMA DiskKeepsRunning ==
  ASSUME MaxFaults <= 1, TypeOK, LocalsInUse, FilterInv, DiskRead,
         faults = MaxFaults, NEW p \in {"run", "cli"}, FromDisk(p),
         tun[meta.iface] # None => file[meta.iface] # None /\ RunsDisk(meta.iface)
  PROVE  (tun[meta.iface] # None =>
            file[meta.iface] # None /\ RunsDisk(meta.iface))'
<1>1. tun \in [Ifaces -> Links \cup {None}] /\ meta.iface \in Ifaces
  BY DEF TypeOK
<1>2. /\ UNCHANGED <<file, meta>> /\ nft' \in {nft, file["nftables"]}
      /\ \/ tun' = tun
         \/ /\ tun[meta.iface] = None /\ file[meta.iface] # None
            /\ tun' = [tun EXCEPT ![meta.iface] = LinkFor(file[meta.iface])]
            /\ nft' = nft /\ nft = file["nftables"]
  BY DiskStep, Zenon
<1>3. LinkFor(file[meta.iface])' = LinkFor(file[meta.iface])
  BY <1>2 DEF LinkFor, Section
<1> QED
  BY <1>1, <1>2, <1>3 DEF RunsDisk

LEMMA DiskKeepsDescribed ==
  ASSUME MaxFaults <= 1, TypeOK, LocalsInUse, FilterInv, DiskRead,
         faults = MaxFaults, NEW p \in {"run", "cli"}, FromDisk(p), Described
  PROVE  Described'
<1>1. UNCHANGED <<file, meta>>
  BY DiskStep, Zenon
<1>2. DiskIsApplied' <=> DiskIsApplied
  BY <1>1 DEF DiskIsApplied, DiskHash
<1>3. CASE DiskIsApplied
  BY <1>3, DiskKeepsRunning DEF Described
<1> QED
  BY <1>2, <1>3 DEF Described

LEMMA CommandFromDisk ==
  ASSUME MaxFaults <= 1, TypeOK, LocalsInUse, FilterInv, RunningInv,
         FromDisk("cli")
  PROVE  RunningInv'
<1>0. pc["cli"] \in DiskLabels
  BY DEF FromDisk, Check, Load, Forward, Raise, DiskLabels
<1>1. pc["run"] \in {"down", "idle"} /\ faults = MaxFaults /\ faults # 0
  BY <1>0 DEF FilterInv, OneAtATime, RunQuiet, CliQuiet, RunningInv, CommandRuns, DiskLabels
<1>2. /\ UNCHANGED <<file, meta, rb, faults>> /\ pc'["run"] = pc["run"]
      /\ plan'["run"].ret = plan["run"].ret /\ plan'["cli"].ret = plan["cli"].ret
      /\ DiskRead'
  BY <1>1, DiskStep DEF RunningInv
<1>3. \/ pc'["cli"] \in {"load", "forward", "raise"}
      \/ pc["cli"] = "raise" /\ pc'["cli"] = plan["cli"].ret
      \/ pc'["cli"] = "idle" /\ (Unfiltered(Parts(meta.iface)) \/ tun'[meta.iface] = None)
  BY <1>1, DiskStep DEF RunningInv, LocalsInUse
<1>4. CASE plan["cli"].ret = "idle"
  <2>1. Described
    BY <1>0, <1>4 DEF RunningInv, SteadyRuns, Steady
  <2>2. Described'
    BY <1>1, <2>1, DiskKeepsDescribed DEF RunningInv
  <2>3. SteadyRuns'
    BY <2>2 DEF SteadyRuns
  <2>4. pc'["cli"] \in {"load", "forward", "raise", "idle"}
    BY <1>3, <1>4
  <2>5. HashFiltered'
    BY <1>2, <2>4 DEF RunningInv, HashFiltered
  <2>6. CommandRuns'
    BY <1>1, <1>2, <1>4, <2>4 DEF CommandRuns, RollingBack
  <2> QED
    BY <1>1, <1>2, <2>3, <2>5, <2>6, OnlyCommands
<1>5. CASE plan["cli"].ret = "record"
  <2>1. /\ tun[meta.iface] # None => file[meta.iface] # None /\ RunsDisk(meta.iface)
        /\ rb.iface = meta.iface
    BY <1>0, <1>5 DEF RunningInv, CommandRuns, RollingBack
  <2>2. (tun[meta.iface] # None => file[meta.iface] # None /\ RunsDisk(meta.iface))'
    BY <1>1, <2>1, DiskKeepsRunning DEF RunningInv
  <2>3. Described'
    BY <2>2 DEF Described
  <2>4. SteadyRuns'
    BY <2>3 DEF SteadyRuns
  <2>5. pc'["cli"] = "record" => pc["cli"] = "raise"
    BY <1>3, <1>5
  <2>6. pc["cli"] = "raise" => (file[meta.iface] # None => file["nftables"] # None)
    <3> SUFFICES ASSUME pc["cli"] = "raise", file[meta.iface] # None
                 PROVE  file["nftables"] # None
      OBVIOUS
    <3>1. "wg" \in Parts(meta.iface) /\ plan["cli"].parts = Parts(meta.iface)
      BY DEF Parts, RunningInv, DiskRead
    <3> QED
      BY <3>1, ConstantsAssumption DEF FilterInv, FromDiskIsFiltered
  <2>7. HashFiltered'
    BY <1>2, <2>5, <2>6 DEF RunningInv, HashFiltered
  <2>8. pc'["cli"] \in {"load", "forward", "raise", "idle", "record"}
    BY <1>3, <1>5
  <2>9. CommandRuns'
    BY <1>1, <1>2, <2>1, <2>2, <2>8 DEF CommandRuns, RollingBack
  <2> QED
    BY <1>1, <1>2, <2>4, <2>7, <2>9, OnlyCommands
<1> QED
  BY <1>4, <1>5 DEF LocalsInUse

-----------------------------------------------------------------------------
(* The one thing that goes wrong from outside *)

LEMMA NothingYet ==
  ASSUME MaxFaults <= 1, TypeOK, RunningInv, faults < MaxFaults
  PROVE  faults = 0 /\ pc["cli"] = "idle" /\ Described
  BY OneFault DEF RunningInv, Unfaulted, CliQuiet, SteadyRuns, Steady

LEMMA OutsideRuns ==
  ASSUME ~Interleave, MaxFaults <= 1, TypeOK, LocalsInUse, FilterInv, RunningInv,
         \/ \E op \in CliOps : Command(op)
         \/ \E p \in {"run", "cli"} : Crash(p)
         \/ Reboot \/ Flush \/ \E i \in Ifaces : LinkDown(i)
  PROVE  RunningInv'
<1> USE DEF Goto, disk, kernel, loop, locals
<1>1. faults < MaxFaults /\ faults' = faults + 1
  BY DEF Command, Crash, Reboot, Flush, LinkDown
<1>2. faults = 0 /\ pc["cli"] = "idle" /\ Described
      /\ faults' = MaxFaults /\ faults' # 0
  BY <1>1, OneFault, NothingYet
<1>3. pc \in [{"run", "cli"} -> Labels] /\ meta.iface \in Ifaces
      /\ tun \in [Ifaces -> Links \cup {None}] /\ rb \in Rollbacks
      /\ plan \in [{"run", "cli"} -> Plans]
  BY DEF TypeOK
<1>4. /\ UNCHANGED <<file, meta>> /\ nft' \in {nft, None}
      /\ \A i \in Ifaces : tun'[i] \in {tun[i], None}
  BY <1>3 DEF Command, Crash, Reboot, Flush, LinkDown
<1>5. Described'
  BY <1>2, <1>3, <1>4 DEF Described, DiskIsApplied, DiskHash, RunsDisk, LinkFor, Section
<1>6. SteadyRuns'
  BY <1>5 DEF SteadyRuns
<1>7. CASE \E op \in CliOps : Command(op)
  <2> PICK op \in CliOps : Command(op)
    BY <1>7
  <2>1. /\ pc["run"] \in {"down", "idle"} /\ pc'["run"] = pc["run"]
        /\ pc'["cli"] \in {"check", "lower", "swap"}
        /\ pc'["cli"] = "check" => op = "up"
        /\ rb'.iface = meta.iface /\ ~rb'.err
        /\ plan'["cli"].ret = IF op = "rollback" THEN "record" ELSE "idle"
    BY <1>3, ~Interleave DEF Command, Free, RunQuiet, Plans
  <2>2. HashFiltered' /\ DiskRead'
    BY <1>4, <2>1 DEF RunningInv, HashFiltered, DiskRead
  <2>3. CommandRuns'
    BY <1>2, <1>4, <1>5, <2>1 DEF CommandRuns, RollingBack, DiskLabels
  <2> QED
    BY <1>2, <1>6, <2>1, <2>2, <2>3, OnlyCommands
<1>8. CASE \E p \in {"run", "cli"} : Crash(p)
  <2>1. pc'["run"] = "down" /\ pc'["cli"] = "idle"
    BY <1>2, <1>3, <1>8 DEF Crash
  <2>2. HashFiltered' /\ DiskRead' /\ CommandRuns'
    BY <1>2, <1>4, <2>1
    DEF RunningInv, HashFiltered, DiskRead, CommandRuns, RollingBack, DiskLabels
  <2> QED
    BY <1>2, <1>6, <2>1, <2>2, OnlyCommands
<1>9. CASE Reboot
  <2>1. pc'["run"] = "down" /\ pc'["cli"] = "check" /\ plan'["cli"].ret = "idle"
    BY <1>3, <1>9 DEF Reboot, Plans
  <2>2. HashFiltered' /\ DiskRead' /\ CommandRuns'
    BY <1>2, <1>4, <2>1
    DEF RunningInv, HashFiltered, DiskRead, CommandRuns, RollingBack, DiskLabels
  <2> QED
    BY <1>2, <1>6, <2>1, <2>2, OnlyCommands
<1>10. CASE Flush \/ \E i \in Ifaces : LinkDown(i)
  <2>1. pc["run"] \in {"down", "idle"} /\ pc' = pc
    BY <1>10, ~Interleave DEF Flush, LinkDown, Free, RunQuiet
  <2>2. HashFiltered' /\ DiskRead' /\ CommandRuns'
    BY <1>2, <1>4, <2>1
    DEF RunningInv, HashFiltered, DiskRead, CommandRuns, RollingBack, DiskLabels
  <2> QED
    BY <1>2, <1>6, <2>1, <2>2, OnlyCommands
<1> QED
  BY <1>7, <1>8, <1>9, <1>10

-----------------------------------------------------------------------------
(* The loop, and applyFromDisk called from it *)

\* Where no command is at work, what the daemon does is all there is to it.
LEMMA OnlyDaemon ==
  ASSUME pc'["cli"] = "idle", SteadyRuns', DiskRead', HashFiltered',
         ApplyRuns', Written', UndoRuns', Unfaulted'
  PROVE  RunningInv'
  BY DEF RunningInv, CommandRuns, RollingBack, DiskLabels

LEMMA NothingApplied ==
  ASSUME pc'["run"] \in LoopLabels \/ (pc'["run"] \in DiskLabels /\ plan'["run"].ret # "resync")
  PROVE  ApplyRuns' /\ Written' /\ UndoRuns'
  BY DEF ApplyRuns, Written, UndoRuns, Ahead, Back, UndoingDisk, LoopLabels,
         Writing, Loading, Opening, Restoring, DiskLabels

LEMMA SameRuns ==
  ASSUME RunningInv,
         UNCHANGED <<file, meta, tun, nft, pc, plan, tx, rb, faults>>
  PROVE  RunningInv'
  BY DEF RunningInv, SteadyRuns, Steady, Described, DiskIsApplied, DiskHash,
         RunsDisk, LinkFor, Section, HashFiltered, DiskRead, Parts, CommandRuns,
         RollingBack, ApplyRuns, Written, UndoRuns, Unfaulted, UndoingDisk,
         CliQuiet, OldRuns, OldNft, CanSync, WasApplied, TxIface, Alone

LEMMA LoopRuns ==
  ASSUME ~Interleave, MaxFaults <= 1, TypeOK, LocalsInUse, FilterInv, RunningInv,
         \/ Start \/ Wake \/ KeepFirewall \/ BringUp \/ Report \/ Unreachable
  PROVE  RunningInv'
<1> USE DEF Goto, disk, kernel, loop, locals
<1>1. pc \in [{"run", "cli"} -> Labels] /\ plan \in [{"run", "cli"} -> Plans]
      /\ nft \in Versions \cup {None} /\ file["nftables"] \in Contents
  BY PathsType DEF TypeOK
<1>2. pc["run"] \in LoopLabels /\ pc["cli"] = "idle"
  BY ~Interleave
  DEF Start, Wake, KeepFirewall, BringUp, Report, Unreachable, LoopLabels,
      Free, CliQuiet, FilterInv, OneAtATime, RunQuiet
<1>3. /\ UNCHANGED <<file, meta, tun>> /\ pc'["cli"] = "idle"
      /\ \/ pc'["run"] \in LoopLabels \ {"down"}
         \/ /\ BringUp /\ Missing /\ pc'["run"] = "check"
            /\ plan' = [plan EXCEPT !["run"].ret = "report"]
  BY <1>1, <1>2
  DEF Start, Wake, KeepFirewall, BringUp, Report, Unreachable, LoopLabels, Call
<1>4. nft' \in {nft, file["nftables"]}
  <2>1. file["nftables"] # None => Table(file["nftables"]) = file["nftables"]
    BY PathsType DEF Table, TypeOK, FilterInv, RulesetKept, Contents
  <2> QED
    BY <2>1 DEF Start, Wake, KeepFirewall, BringUp, Report, Unreachable
<1>5. faults' = faults \/ faults' # 0
  BY OneFault DEF Start, Wake, KeepFirewall, BringUp, Report, Unreachable
<1>6. Described
  BY <1>2 DEF RunningInv, SteadyRuns, Steady, CliQuiet
<1>7. Described'
  BY <1>3, <1>4, <1>6
  DEF Described, DiskIsApplied, DiskHash, RunsDisk, LinkFor, Section
<1>8. HashFiltered'
  BY <1>3 DEF RunningInv, HashFiltered
<1>9. pc'["run"] \in LoopLabels \/ (pc'["run"] = "check" /\ plan'["run"].ret = "report")
  BY <1>1, <1>3 DEF Plans
<1>10. DiskRead'
  BY <1>3, <1>9 DEF DiskRead, LoopLabels
<1>11. ApplyRuns' /\ Written' /\ UndoRuns'
  BY <1>9, NothingApplied DEF DiskLabels
<1>12. Unfaulted'
  <2> SUFFICES ASSUME faults' = 0 PROVE Unfaulted'
    BY DEF Unfaulted
  <2>1. faults = 0
    BY <1>5
  <2>2. ~Missing
    BY <1>2, <2>1, ConstantsAssumption DEF RunningInv, Unfaulted, Missing
  <2>3. pc'["run"] \in LoopLabels \ {"down"}
    BY <1>3, <2>2
  <2> QED
    BY <1>2, <1>3, <2>1, <2>3
    DEF RunningInv, Unfaulted, CliQuiet, DiskIsApplied, DiskHash, Alone,
        LoopLabels, Ahead, Writing, Loading, Opening
<1> QED
  BY <1>3, <1>7, <1>8, <1>10, <1>11, <1>12, OnlyDaemon DEF SteadyRuns

LEMMA DaemonFromDisk ==
  ASSUME MaxFaults <= 1, TypeOK, LocalsInUse, FilterInv, RunningInv,
         FromDisk("run"), ~UndoingDisk
  PROVE  RunningInv'
<1>1. pc["run"] \in DiskLabels
  BY DEF FromDisk, Check, Load, Forward, Raise, DiskLabels
<1>2. faults = MaxFaults /\ faults # 0
  BY <1>1, ConstantsAssumption
  DEF RunningInv, Unfaulted, TypeOK, DiskLabels, Ahead, Writing, Loading, Opening
<1>3. pc["cli"] = "idle" /\ plan["run"].ret \in {"report", "idle"}
  BY <1>1 DEF FilterInv, OneAtATime, RunQuiet, CliQuiet, LocalsInUse, UndoingDisk, DiskLabels
<1>4. /\ UNCHANGED <<file, meta, rb, faults>> /\ pc'["cli"] = "idle"
      /\ plan'["run"].ret = plan["run"].ret /\ DiskRead'
      /\ pc'["run"] \in {"load", "forward", "raise", "report", "idle"}
  BY <1>2, <1>3, DiskStep DEF RunningInv
<1>5. Described
  BY <1>1, <1>3 DEF RunningInv, SteadyRuns, Steady
<1>6. Described'
  BY <1>2, <1>5, DiskKeepsDescribed DEF RunningInv
<1>7. HashFiltered'
  BY <1>4 DEF RunningInv, HashFiltered
<1>8. ApplyRuns' /\ Written' /\ UndoRuns'
  BY <1>3, <1>4, NothingApplied DEF LoopLabels, DiskLabels
<1>9. Unfaulted'
  BY <1>2, <1>4 DEF Unfaulted
<1> QED
  BY <1>4, <1>6, <1>7, <1>8, <1>9, OnlyDaemon DEF SteadyRuns

-----------------------------------------------------------------------------
(* An apply *)

LEMMA ApplyAlone ==
  ASSUME LocalsInUse, FilterInv, RunningInv,
         pc["run"] \in {"fetch", "finish"} \cup Ahead \cup Back
  PROVE  pc["cli"] = "idle"
  BY DEF FilterInv, OneAtATime, RunQuiet, CliQuiet, Ahead, Back, Writing,
         Loading, Opening, Restoring

\* In the middle of an apply.
LEMMA InApply ==
  ASSUME HashFiltered, pc["cli"] = "idle", pc'["cli"] = "idle",
         pc'["run"] \in {"finish"} \cup Ahead \cup Back,
         meta' = meta, faults' = 0 => Described',
         ApplyRuns', Written', UndoRuns', Unfaulted'
  PROVE  RunningInv'
<1> USE DEF Ahead, Back, Writing, Loading, Opening, Restoring
<1>1. SteadyRuns'
  BY DEF SteadyRuns, Steady, LoopLabels, DiskLabels
<1>2. HashFiltered'
  BY DEF HashFiltered
<1>3. DiskRead'
  BY DEF DiskRead
<1> QED
  BY <1>1, <1>2, <1>3, OnlyDaemon

\* What an apply found does not change while it works.
LEMMA SameTx ==
  ASSUME tx'.want = tx.want, tx'.old = tx.old, tx'.file = tx.file, meta' = meta
  PROVE  /\ TxIface' = TxIface /\ (WasApplied' <=> WasApplied)
         /\ tun'[tx.old] = tun[tx.old] =>
              (OldRuns' <=> OldRuns) /\ (CanSync' <=> CanSync)
         /\ tun'[tx.old] = tun[tx.old] /\ nft' = nft => (OldNft' <=> OldNft)
         /\ tun'[tx.old] = None => OldRuns'
  BY DEF TxIface, WasApplied, OldRuns, OldNft, CanSync, LinkFor, Section

\* Before the first fault a new configuration on disk is not what was applied.
LEMMA NotYetApplied ==
  ASSUME TypeOK, LocalsInUse, RunningInv, faults = 0, pc["run"] \in Ahead
  PROVE  /\ file["nftables"] = tx.want => ~DiskIsApplied
         /\ file["sysctl"] = tx.want => ~DiskIsApplied
         /\ file[meta.iface] = tx.want => ~DiskIsApplied
<1>1. tx.want \in Versions /\ meta.hash # Bundle(tx.want)
  BY DEF LocalsInUse, RunningInv, Unfaulted, Ahead, Applying
<1>2. meta.hash = None \/ \E v \in Versions : meta.hash = Bundle(v)
  BY DEF RunningInv, Unfaulted
<1>3. SUFFICES ASSUME DiskIsApplied
               PROVE  /\ file["nftables"] # tx.want /\ file["sysctl"] # tx.want
                      /\ file[meta.iface] # tx.want
  OBVIOUS
<1>4. PICK v \in Versions : meta.hash = Bundle(v)
  BY <1>2, <1>3 DEF DiskIsApplied
<1>5. Bundle(v).wg = v /\ Bundle(v).nftables = v /\ Bundle(v).sysctl = v
  BY DEF Bundle
<1>6. /\ meta.hash.wg = file[meta.iface] /\ meta.hash.nftables = file["nftables"]
      /\ meta.hash.sysctl = file["sysctl"]
  BY <1>3 DEF DiskIsApplied, DiskHash
<1>7. v # tx.want
  BY <1>1, <1>4
<1> QED
  BY <1>4, <1>5, <1>6, <1>7

LEMMA FetchRuns ==
  ASSUME MaxFaults <= 1, TypeOK, LocalsInUse, LocalsInUse', FilterInv, RunningInv, Fetch
  PROVE  RunningInv'
<1> USE DEF Goto, disk, kernel, loop, locals
<1>1. /\ pc \in [{"run", "cli"} -> Labels] /\ meta.iface \in Ifaces
      /\ tun \in [Ifaces -> Links \cup {None}] /\ file \in [Paths -> Contents]
  BY DEF TypeOK
<1>2. pc["run"] = "fetch" /\ pc["cli"] = "idle" /\ desired \in Versions
  BY ApplyAlone DEF Fetch, TypeOK
<1>3. /\ UNCHANGED <<file, meta, tun, nft, plan, rb, faults>>
      /\ pc'["run"] \in {"finish", "idle", "keepprev"} /\ pc'["cli"] = "idle"
      /\ pc'["run"] = "finish" => Unchanged(desired)
      /\ pc'["run"] = "keepprev" => ~Unchanged(desired)
  BY <1>1, <1>2 DEF Fetch
<1>4. /\ tx'.want = desired /\ tx'.old = meta.iface /\ tx'.file = file
      /\ (tx'.restart <=> RestartNeeded(desired)) /\ tx'.touched = "no"
      /\ tx'.n = 1 /\ ~tx'.err
  <2>1. RestartNeeded(desired) \in BOOLEAN
    BY DEF RestartNeeded, DiskIsApplied
  <2> QED
    BY <2>1 DEF Fetch
<1>5. Described
  BY <1>2 DEF RunningInv, SteadyRuns, Steady, LoopLabels, CliQuiet
<1>6. Described' /\ (DiskIsApplied' <=> DiskIsApplied)
  BY <1>3, <1>5 DEF Described, DiskIsApplied, DiskHash, RunsDisk, LinkFor, Section
<1>7. HashFiltered' /\ DiskRead'
  BY <1>2, <1>3 DEF RunningInv, HashFiltered, DiskRead
<1>8. TxIface' = IfaceOf[desired] /\ (WasApplied' <=> DiskIsApplied)
  BY <1>3, <1>4 DEF TxIface, WasApplied, DiskIsApplied, DiskHash
<1>9. ASSUME faults = 0
      PROVE  /\ Alone(meta.iface)
             /\ IF meta.hash = None THEN file[meta.iface] = None
                                    ELSE DiskIsApplied /\ tun[meta.iface] # None
             /\ \/ meta.hash = None
                \/ \E v \in Versions : meta.hash = Bundle(v) /\ meta.iface = IfaceOf[v]
  BY <1>2, <1>9 DEF RunningInv, Unfaulted, LoopLabels
<1>10. Alone(meta.iface) => Alone(meta.iface)'
  BY <1>3 DEF Alone
<1>11. CASE pc'["run"] = "idle"
  <2>1. ApplyRuns' /\ Written' /\ UndoRuns'
    BY <1>11, NothingApplied DEF LoopLabels
  <2>2. Unfaulted'
    BY <1>3, <1>6, <1>9, <1>10, <1>11
    DEF Unfaulted, CliQuiet, Ahead, Writing, Loading, Opening
  <2> QED
    BY <1>3, <1>6, <1>7, <2>1, <2>2, OnlyDaemon DEF SteadyRuns
<1>12. CASE pc'["run"] = "finish"
  <2> USE <1>12 DEF Ahead, Back, Writing, Loading, Opening, Restoring
  <2>1. /\ meta.iface = IfaceOf[desired] /\ DiskHash(meta.iface) = Bundle(desired)
        /\ meta.hash = Bundle(desired) /\ tun[meta.iface] # None
    BY <1>3 DEF Unchanged
  <2>2. /\ file[meta.iface] = desired /\ file["nftables"] = desired
        /\ file["sysctl"] = desired
    BY <2>1 DEF DiskHash, Bundle
  <2>3. tun[meta.iface] = LinkFor(desired) /\ nft \in {desired, None}
    BY <1>2, <1>5, <2>1, <2>2, Basics DEF Described, DiskIsApplied, RunsDisk
  <2>4. LinkFor(tx.want)' = LinkFor(desired)
    BY <1>4 DEF LinkFor, Section
  <2>5. Written'
    BY <1>3, <1>4, <1>8, <2>1, <2>2, <2>3, <2>4 DEF Written
  <2>6. ApplyRuns' /\ UndoRuns'
    BY DEF ApplyRuns, UndoRuns, UndoingDisk, DiskLabels
  <2>7. Unfaulted'
    BY <1>3, <1>8, <1>9, <1>10, <2>1 DEF Unfaulted, CliQuiet, LoopLabels, Alone
  <2> QED
    BY <1>2, <1>3, <1>6, <2>5, <2>6, <2>7, InApply DEF RunningInv
<1>13. CASE pc'["run"] = "keepprev"
  <2> USE <1>13 DEF Ahead, Back, Writing, Loading, Opening, Restoring
  <2>1. OldRuns' /\ OldNft'
    BY <1>3, <1>4, <1>5, <1>8
    DEF OldRuns, OldNft, Described, RunsDisk, LinkFor, Section
  <2>2. ASSUME ~tx'.restart PROVE CanSync'
    <3>1. /\ meta.iface = IfaceOf[desired] /\ DiskIsApplied
          /\ tun[meta.iface] # None /\ Section(file[meta.iface]) = SectionOf[desired]
      BY <1>4, <2>2 DEF RestartNeeded
    <3>2. tun[meta.iface] = LinkFor(file[meta.iface]) /\ file[meta.iface] # None
      BY <1>5, <3>1 DEF Described, RunsDisk
    <3>3. Section(tx.file[tx.old])' = Section(file[meta.iface])
      BY <1>3, <1>4 DEF Section
    <3>4. tun[meta.iface].section = Section(file[meta.iface])
      BY <3>2 DEF LinkFor
    <3> QED
      BY <1>3, <1>4, <1>8, <3>1, <3>2, <3>3, <3>4 DEF CanSync
  <2>3. ApplyRuns'
    BY <1>3, <1>4, <2>1, <2>2 DEF ApplyRuns
  <2>4. Written' /\ UndoRuns'
    BY <1>4 DEF Written, UndoRuns, UndoingDisk, DiskLabels
  <2>5. Unfaulted'
    <3> SUFFICES ASSUME faults' = 0 PROVE Unfaulted'
      BY DEF Unfaulted
    <3>1. meta.hash # Bundle(desired)
      <4> SUFFICES ASSUME meta.hash = Bundle(desired) PROVE FALSE
        OBVIOUS
      <4>1. DiskIsApplied /\ tun[meta.iface] # None
        BY <1>2, <1>3, <1>9, Basics
      <4>2. meta.iface = IfaceOf[desired]
        BY <1>2, <1>3, <1>9, Basics
      <4>3. Unchanged(desired)
        BY <4>1, <4>2 DEF Unchanged, DiskIsApplied
      <4> QED
        BY <1>3, <4>3
    <3>2. Bundle(tx.want)' = Bundle(desired)
      BY <1>4 DEF Bundle
    <3> QED
      BY <1>3, <1>4, <1>9, <1>10, <3>1, <3>2 DEF Unfaulted, CliQuiet, LoopLabels, Alone
  <2> QED
    BY <1>2, <1>3, <1>6, <2>3, <2>4, <2>5, InApply DEF RunningInv
<1> QED
  BY <1>3, <1>11, <1>12, <1>13

\* A step failed after the files were written: undo begins.
LEMMA UndoStarts ==
  ASSUME LocalsInUse, FilterInv, RunningInv, pc["run"] \in Loading \cup Opening,
         pc' = [pc EXCEPT !["run"] = "restore"], pc \in [{"run", "cli"} -> Labels],
         Undo, tx \in Transactions, UNCHANGED <<file, meta>>,
         faults' = MaxFaults, faults' # 0,
         tx.touched = "synced" => CanSync',
         tx.touched = "no" \/ (tx.touched = "restarted" /\ TxIface # tx.old)
           => OldRuns'
  PROVE  RunningInv'
<1> USE DEF Ahead, Back, Writing, Loading, Opening, Restoring
<1>1. /\ pc["cli"] = "idle" /\ pc'["cli"] = "idle" /\ pc'["run"] = "restore"
  BY ApplyAlone
<1>2. /\ tx'.want = tx.want /\ tx'.old = tx.old /\ tx'.touched = tx.touched
      /\ tx'.err = tx.err
  BY DEF Undo, Transactions
<1>3. TxIface' = TxIface /\ meta.iface = tx.old /\ ~tx.err
  BY <1>2 DEF RunningInv, ApplyRuns, TxIface
<1>4. ApplyRuns'
  BY <1>1, <1>2, <1>3 DEF ApplyRuns
<1>5. Written'
  BY <1>1 DEF Written
<1>6. UndoRuns'
  BY <1>1, <1>2, <1>3 DEF UndoRuns, UndoingDisk, DiskLabels
<1>7. Unfaulted'
  BY DEF Unfaulted
<1> QED
  BY <1>1, <1>4, <1>5, <1>6, <1>7, InApply DEF RunningInv

LEMMA WriteRuns ==
  ASSUME MaxFaults <= 1, TypeOK, LocalsInUse, LocalsInUse', FilterInv,
         RunningInv, KeepPrev \/ Write
  PROVE  RunningInv'
<1> USE DEF Goto, disk, kernel, loop, locals,
            Ahead, Back, Writing, Loading, Opening, Restoring
<1>1. /\ pc \in [{"run", "cli"} -> Labels] /\ meta.iface \in Ifaces
      /\ tx \in Transactions /\ file \in [Paths -> Contents]
  BY DEF TypeOK
<1>2. /\ pc["run"] \in Writing /\ pc["cli"] = "idle" /\ tx.want \in Versions
      /\ TxIface \in Ifaces /\ tx.n \in 1..3
  BY ApplyAlone, TxIfaceType DEF KeepPrev, Write, LocalsInUse, Applying
<1>3. /\ UNCHANGED <<meta, tun, nft, plan, rb>> /\ pc'["cli"] = "idle"
      /\ tx'.want = tx.want /\ tx'.old = tx.old /\ tx'.file = tx.file
      /\ tx'.restart = tx.restart /\ tx'.touched = tx.touched /\ tx'.err = tx.err
  BY <1>1, <1>2 DEF KeepPrev, Write, Transactions
<1>4. /\ TxIface' = TxIface /\ (OldRuns' <=> OldRuns) /\ (OldNft' <=> OldNft)
      /\ (CanSync' <=> CanSync)
  BY <1>3, SameTx
<1>5. /\ meta.iface = tx.old /\ tx.touched = "no" /\ OldRuns /\ OldNft
      /\ ~tx.err /\ (~tx.restart => CanSync)
      /\ tx.n > 1 => file[TxIface] = tx.want
      /\ tx.n > 2 => file["nftables"] = tx.want
  BY <1>2 DEF RunningInv, ApplyRuns, Written
<1>6. faults = 0 => Described
  BY DEF RunningInv, SteadyRuns, Steady
<1>7. CASE pc'["run"] \in {"keepprev", "write", "drop", "nft"}
  <2>1. faults' = 0 => faults = 0
    BY <1>7, OneFault, <1>1 DEF KeepPrev, Write
  <2>2. \/ /\ KeepPrev /\ file' = file /\ tx' = tx /\ pc'["run"] = "write"
        \/ /\ Write /\ file' = [file EXCEPT ![Order(TxIface)[tx.n]] = tx.want]
           /\ tx'.n = tx.n + 1
           /\ pc'["run"] \in {"keepprev", "drop", "nft"}
           /\ pc'["run"] \in {"drop", "nft"} => tx.n = 3
           /\ pc'["run"] = "drop" => TxIface # tx.old
    BY <1>1, <1>2, <1>7 DEF KeepPrev, Write, Transactions
  <2>3. ApplyRuns'
    BY <1>3, <1>4, <1>5, <1>7, <2>2 DEF ApplyRuns
  <2>4. /\ tx.n = 1 => Order(TxIface)[tx.n] = TxIface
        /\ tx.n = 2 => Order(TxIface)[tx.n] = "nftables"
        /\ tx.n = 3 => Order(TxIface)[tx.n] = "sysctl"
        /\ TxIface \in Paths /\ "nftables" \in Paths /\ "sysctl" \in Paths
        /\ TxIface # "nftables" /\ TxIface # "sysctl" /\ meta.iface \in Paths
        /\ meta.iface # "nftables" /\ meta.iface # "sysctl"
    BY <1>1, <1>2, PathsType, Basics DEF Order
  <2>5. Written'
    BY <1>1, <1>2, <1>3, <1>4, <1>5, <1>7, <2>2, <2>4 DEF Written
  <2>6. UndoRuns'
    BY <1>7 DEF UndoRuns, UndoingDisk, DiskLabels
  <2>7. Unfaulted'
    <3> SUFFICES ASSUME faults' = 0 PROVE Unfaulted'
      BY DEF Unfaulted
    <3>1. Bundle(tx.want)' = Bundle(tx.want) /\ (Alone(tx.old) => Alone(tx.old)')
      BY <1>3 DEF Bundle, Alone
    <3> QED
      BY <1>2, <1>3, <1>7, <2>1, <3>1 DEF RunningInv, Unfaulted, CliQuiet, LoopLabels
  <2>8. ASSUME faults' = 0 PROVE Described'
    <3>1. Described /\ faults = 0
      BY <1>6, <2>1, <2>8
    <3>2. CASE file' = file
      BY <1>3, <3>1, <3>2
      DEF Described, DiskIsApplied, DiskHash, RunsDisk, LinkFor, Section
    <3>3. CASE /\ file' = [file EXCEPT ![Order(TxIface)[tx.n]] = tx.want]
               /\ Order(TxIface)[tx.n] \in {meta.iface, "nftables", "sysctl"}
      <4>1. meta.hash # Bundle(tx.want)
            /\ (meta.hash = None \/ \E v \in Versions : meta.hash = Bundle(v))
        BY <1>2, <3>1 DEF RunningInv, Unfaulted
      <4>2. \/ file'[meta.iface] = tx.want \/ file'["nftables"] = tx.want
            \/ file'["sysctl"] = tx.want
        BY <1>1, <2>4, <3>3
      <4>3. SUFFICES ASSUME DiskIsApplied' PROVE FALSE
        BY DEF Described
      <4>4. PICK v \in Versions : meta.hash = Bundle(v)
        BY <1>3, <4>1, <4>3 DEF DiskIsApplied
      <4>5. Bundle(v).wg = v /\ Bundle(v).nftables = v /\ Bundle(v).sysctl = v
        BY DEF Bundle
      <4>6. /\ meta.hash.wg = file'[meta.iface]
            /\ meta.hash.nftables = file'["nftables"]
            /\ meta.hash.sysctl = file'["sysctl"]
        BY <1>3, <4>3 DEF DiskIsApplied, DiskHash
      <4> QED
        BY <4>1, <4>2, <4>4, <4>5, <4>6
    <3>4. CASE /\ file' = [file EXCEPT ![Order(TxIface)[tx.n]] = tx.want]
               /\ Order(TxIface)[tx.n] \notin {meta.iface, "nftables", "sysctl"}
      <4>1. /\ file'[meta.iface] = file[meta.iface]
            /\ file'["nftables"] = file["nftables"]
            /\ file'["sysctl"] = file["sysctl"]
        BY <1>1, <2>4, <3>4
      <4> QED
        BY <1>3, <3>1, <4>1
        DEF Described, DiskIsApplied, DiskHash, RunsDisk, LinkFor, Section
    <3> QED
      BY <2>2, <3>2, <3>3, <3>4
  <2> QED
    BY <1>2, <1>3, <1>7, <2>3, <2>5, <2>6, <2>7, <2>8, InApply DEF RunningInv
<1>8. CASE pc'["run"] = "unwrite"
  <2>1. file' = file /\ faults' = MaxFaults /\ faults' # 0
    BY <1>1, <1>8, OneFault DEF KeepPrev, Write
  <2>2. ApplyRuns'
    BY <1>3, <1>4, <1>5, <1>8 DEF ApplyRuns
  <2>3. Written'
    BY <1>8 DEF Written
  <2>4. UndoRuns'
    BY <1>3, <1>4, <1>5, <1>8, <2>1 DEF UndoRuns, UndoingDisk, DiskLabels
  <2>5. Unfaulted'
    BY <2>1 DEF Unfaulted
  <2> QED
    BY <1>2, <1>3, <1>8, <2>1, <2>2, <2>3, <2>4, <2>5, InApply DEF RunningInv
<1> QED
  BY <1>1, <1>7, <1>8 DEF KeepPrev, Write

\* Once its ruleset is on disk, a first apply has nothing recorded to run.
LEMMA StillUnapplied ==
  ASSUME TypeOK, LocalsInUse, RunningInv, pc["run"] \in Loading \cup Opening,
         meta' = meta, file'["nftables"] = tx.want, faults = 0
  PROVE  Described'
<1>1. /\ tx.want \in Versions /\ meta.hash # Bundle(tx.want)
      /\ meta.hash = None \/ \E v \in Versions : meta.hash = Bundle(v)
  BY DEF LocalsInUse, RunningInv, Unfaulted, Ahead, Applying
<1>2. SUFFICES ASSUME DiskIsApplied' PROVE FALSE
  BY DEF Described
<1>3. PICK v \in Versions : meta.hash = Bundle(v)
  BY <1>1, <1>2 DEF DiskIsApplied
<1>4. Bundle(v).nftables = v /\ meta.hash.nftables = file'["nftables"]
  BY <1>2 DEF Bundle, DiskIsApplied, DiskHash
<1> QED
  BY <1>1, <1>3, <1>4

\* What holds in an apply once its files are on disk.
LEMMA WrittenFacts ==
  ASSUME MaxFaults <= 1, TypeOK, LocalsInUse, FilterInv, RunningInv,
         pc["run"] \in Loading \cup Opening
  PROVE  /\ pc["cli"] = "idle" /\ tx.want \in Versions
         /\ TxIface \in Ifaces /\ tx.old \in Ifaces /\ tx \in Transactions
         /\ meta.iface = tx.old /\ ~tx.err /\ (~tx.restart => CanSync)
         /\ file[TxIface] = tx.want /\ file["nftables"] = tx.want
         /\ file["sysctl"] = tx.want
         /\ faults = 0 => Alone(tx.old) /\ meta.hash # Bundle(tx.want)
                          /\ (meta.hash = None \/
                              \E v \in Versions : meta.hash = Bundle(v)
                                                  /\ meta.iface = IfaceOf[v])
  BY ApplyAlone, TxIfaceType
  DEF RunningInv, ApplyRuns, Written, Unfaulted, LocalsInUse, Applying, Ahead,
      TypeOK, Transactions

\* The next step of an apply, nothing having failed.
LEMMA ApplyGoesOn ==
  ASSUME MaxFaults <= 1, TypeOK, LocalsInUse, FilterInv, RunningInv,
         pc["run"] \in Loading \cup Opening,
         pc'["cli"] = pc["cli"], pc'["run"] \in (Loading \cup Opening \cup {"finish"}),
         meta' = meta, tx'.want = tx.want, tx'.old = tx.old,
         file'[TxIface] = tx.want, file'["nftables"] = tx.want,
         file'["sysctl"] = tx.want,
         faults' = 0 => faults = 0, ApplyRuns',
         pc'["run"] = "finish" =>
           tun'[TxIface] = LinkFor(tx.want) /\ nft' \in {tx.want, None},
         faults' = 0 /\ pc'["run"] # "finish" => Alone(tx.old)',
         faults' = 0 /\ pc'["run"] = "finish" => Alone(TxIface)',
         faults' = 0 /\ pc'["run"] = "up" => tun'[tx.old] = None
  PROVE  RunningInv'
<1> USE DEF Ahead, Back, Writing, Loading, Opening, Restoring
<1>1. /\ pc["cli"] = "idle" /\ tx.want \in Versions
      /\ faults = 0 => meta.hash # Bundle(tx.want)
                       /\ (meta.hash = None \/
                            \E v \in Versions : meta.hash = Bundle(v)
                                                /\ meta.iface = IfaceOf[v])
  BY WrittenFacts
<1>2. TxIface' = TxIface /\ LinkFor(tx.want)' = LinkFor(tx.want)
      /\ Bundle(tx.want)' = Bundle(tx.want)
  BY DEF TxIface, LinkFor, Section, Bundle
<1>3. Written'
  BY <1>2 DEF Written
<1>4. UndoRuns'
  BY DEF UndoRuns, UndoingDisk, DiskLabels
<1>5. Unfaulted'
  <2> SUFFICES ASSUME faults' = 0 PROVE Unfaulted'
    BY DEF Unfaulted
  <2> QED
    BY <1>1, <1>2 DEF Unfaulted, CliQuiet, LoopLabels
<1>6. faults' = 0 => Described'
  BY StillUnapplied
<1> QED
  BY <1>1, <1>3, <1>4, <1>5, <1>6, InApply DEF RunningInv

LEMMA LoadRuns ==
  ASSUME MaxFaults <= 1, TypeOK, LocalsInUse, FilterInv, RunningInv,
         Drop \/ ApplyNft \/ ApplySysctl
  PROVE  RunningInv'
<1> USE DEF Goto, disk, kernel, loop, locals,
            Ahead, Back, Writing, Loading, Opening, Restoring
<1>1. pc["run"] \in {"drop", "nft", "sysctl"} /\ pc \in [{"run", "cli"} -> Labels]
      /\ file \in [Paths -> Contents]
  BY DEF Drop, ApplyNft, ApplySysctl, TypeOK
<1>2. /\ pc["cli"] = "idle" /\ tx.want \in Versions
      /\ TxIface \in Ifaces /\ tx.old \in Ifaces /\ tx \in Transactions
      /\ meta.iface = tx.old /\ ~tx.err /\ (~tx.restart => CanSync)
      /\ file[TxIface] = tx.want /\ file["nftables"] = tx.want
      /\ file["sysctl"] = tx.want /\ (faults = 0 => Alone(tx.old))
  BY <1>1, WrittenFacts
<1>3. tx.touched = "no" /\ OldRuns /\ (pc["run"] # "sysctl" => OldNft)
      /\ (pc["run"] = "drop" => TxIface # tx.old)
  BY <1>1 DEF RunningInv, ApplyRuns
<1>4. /\ UNCHANGED <<meta, tun, plan, rb>> /\ pc'["cli"] = pc["cli"]
      /\ tx'.want = tx.want /\ tx'.old = tx.old /\ tx'.file = tx.file
      /\ tx'.restart = tx.restart /\ tx'.err = tx.err
  BY <1>1, <1>2 DEF Drop, ApplyNft, ApplySysctl, Undo, Proceed, Transactions
<1>5. /\ TxIface' = TxIface /\ OldRuns' /\ (CanSync' <=> CanSync)
      /\ (nft' = nft => (OldNft' <=> OldNft))
  BY <1>3, <1>4, SameTx
<1>6. Alone(tx.old) => Alone(tx.old)'
  BY <1>4 DEF Alone
<1>7. CASE Drop
  <2>1. /\ tx' = tx /\ nft' = nft /\ pc'["run"] = "nft" /\ pc["run"] = "drop"
        /\ faults' = 0 => faults = 0
    BY <1>1, <1>7, OneFault DEF Drop
  <2>2. tx.old # TxIface /\ tx.old # "nftables" /\ tx.old # "sysctl"
    BY <1>2, <1>3, <2>1, Basics
  <2>3. /\ file'[TxIface] = tx.want /\ file'["nftables"] = tx.want
        /\ file'["sysctl"] = tx.want
    BY <1>1, <1>2, <1>7, <2>2, PathsType DEF Drop
  <2>4. ApplyRuns'
    BY <1>2, <1>3, <1>4, <1>5, <2>1 DEF ApplyRuns
  <2> QED
    BY <1>1, <1>2, <1>4, <1>6, <2>1, <2>3, <2>4, ApplyGoesOn
<1>8. CASE pc'["run"] = "restore"
  <2>1. /\ Undo /\ pc' = [pc EXCEPT !["run"] = "restore"] /\ file' = file
        /\ faults' = MaxFaults /\ faults' # 0
    BY <1>1, <1>2, <1>8, Basics, OneFault DEF Drop, ApplyNft, ApplySysctl, Proceed, Undo
  <2> QED
    BY <1>1, <1>2, <1>3, <1>4, <1>5, <2>1, UndoStarts
<1>9. CASE ApplyNft /\ pc'["run"] # "restore"
  <2>1. /\ tx' = tx /\ file' = file /\ faults' = faults /\ pc'["run"] = "sysctl"
    BY <1>1, <1>9 DEF ApplyNft, Undo, Proceed
  <2>2. ApplyRuns'
    BY <1>2, <1>3, <1>4, <1>5, <2>1 DEF ApplyRuns
  <2> QED
    BY <1>1, <1>2, <1>4, <1>6, <2>1, <2>2, ApplyGoesOn
<1>10. CASE ApplySysctl /\ pc'["run"] # "restore"
  <2>1. /\ file' = file /\ faults' = faults
        /\ pc'["run"] = IF tx.restart THEN "del" ELSE "sync"
        /\ tx'.touched = IF tx.restart THEN "restarted" ELSE "synced"
    BY <1>1, <1>2, <1>10 DEF ApplySysctl, Undo, Transactions
  <2>2. ApplyRuns'
    BY <1>2, <1>3, <1>4, <1>5, <2>1 DEF ApplyRuns
  <2> QED
    BY <1>1, <1>2, <1>4, <1>6, <2>1, <2>2, ApplyGoesOn
<1> QED
  BY <1>7, <1>8, <1>9, <1>10

LEMMA RebuildRuns ==
  ASSUME MaxFaults <= 1, TypeOK, LocalsInUse, FilterInv, RunningInv, Delete \/ Up
  PROVE  RunningInv'
<1> USE DEF Goto, disk, kernel, loop, locals,
            Ahead, Back, Writing, Loading, Opening, Restoring
<1>1. /\ pc["run"] \in {"del", "up"} /\ pc \in [{"run", "cli"} -> Labels]
      /\ tun \in [Ifaces -> Links \cup {None}]
  BY DEF Delete, Up, TypeOK
<1>2. /\ pc["cli"] = "idle" /\ tx.want \in Versions
      /\ TxIface \in Ifaces /\ tx.old \in Ifaces /\ tx \in Transactions
      /\ meta.iface = tx.old /\ ~tx.err /\ (~tx.restart => CanSync)
      /\ file[TxIface] = tx.want /\ file["nftables"] = tx.want
      /\ file["sysctl"] = tx.want /\ (faults = 0 => Alone(tx.old))
  BY <1>1, WrittenFacts
<1>3. tx.restart /\ tx.touched = "restarted" /\ OldRuns
  BY <1>1 DEF RunningInv, ApplyRuns
<1>4. /\ UNCHANGED <<file, meta, nft, plan, rb>> /\ pc'["cli"] = pc["cli"]
      /\ tx'.want = tx.want /\ tx'.old = tx.old /\ tx'.file = tx.file
      /\ tx'.restart = tx.restart /\ tx'.err = tx.err /\ tx'.touched = tx.touched
  BY <1>1, <1>2 DEF Delete, Up, Undo, Proceed, Transactions
<1>5. /\ TxIface' = TxIface
      /\ tun'[tx.old] = tun[tx.old] => (CanSync' <=> CanSync)
      /\ tun'[tx.old] \in {tun[tx.old], None} => OldRuns'
  BY <1>3, <1>4, SameTx
<1>6. CASE Delete
  <2>1. /\ tx' = tx /\ pc'["run"] = "up" /\ pc["run"] = "del"
        /\ faults' = 0 => faults = 0
    BY <1>1, <1>6, OneFault, TypeOK DEF Delete
  <2>2. \A i \in Ifaces : tun'[i] \in {tun[i], None}
    BY <1>1, <1>6 DEF Delete
  <2>3. OldRuns'
    BY <1>2, <1>5, <2>2
  <2>4. ASSUME faults' = 0 PROVE tun'[tx.old] = None
    <3>1. tun' = [tun EXCEPT ![IF TxIface # tx.old /\ tun[tx.old] # None
                                 THEN tx.old ELSE TxIface] = None]
      BY <1>6, <2>4, OneFault DEF Delete
    <3> QED
      BY <1>1, <1>2, <3>1
  <2>5. ASSUME faults = 0 PROVE Alone(tx.old)'
    BY <1>2, <1>4, <2>2, <2>5 DEF Alone
  <2>6. ApplyRuns'
    BY <1>1, <1>2, <1>3, <1>4, <2>1, <2>3 DEF ApplyRuns
  <2> QED
    BY <1>1, <1>2, <1>4, <2>1, <2>4, <2>5, <2>6, ApplyGoesOn
<1>7. CASE Up /\ pc'["run"] = "restore"
  <2>1. /\ Undo /\ pc' = [pc EXCEPT !["run"] = "restore"] /\ pc["run"] = "up"
    BY <1>1, <1>7 DEF Up, Proceed, Undo
  <2>2. faults = 0 => CanRaise(TxIface)
    <3> SUFFICES ASSUME faults = 0 PROVE CanRaise(TxIface)
      OBVIOUS
    <3>1. \A i \in Ifaces : tun[i] = None
      BY <1>2, <2>1 DEF RunningInv, Unfaulted, Alone
    <3> QED
      BY <1>2, <3>1, Basics DEF CanRaise, PortFree
  <2>3. \/ Fault("up")
        \/ ~CanRaise(TxIface) /\ faults' = faults
    BY <1>1, <1>7 DEF Up, Proceed
  <2>4. faults' = MaxFaults /\ faults' # 0
    BY <2>2, <2>3, OneFault, ConstantsAssumption DEF TypeOK
  <2>5. \A i \in Ifaces \ {TxIface} : tun'[i] = tun[i]
    BY <1>1, <1>7 DEF Up
  <2> QED
    BY <1>1, <1>2, <1>3, <1>4, <1>5, <2>1, <2>4, <2>5, UndoStarts
<1>8. CASE Up /\ pc'["run"] # "restore"
  <2>1. /\ tun' = [tun EXCEPT ![TxIface] = LinkFor(file[TxIface])]
        /\ tx' = tx /\ faults' = faults /\ pc'["run"] = "finish" /\ pc["run"] = "up"
    BY <1>1, <1>8 DEF Up, Proceed, Undo
  <2>2. nft = tx.want
    BY <2>1 DEF FilterInv, ApplyIsFiltered
  <2>3. tun'[TxIface] = LinkFor(tx.want)
    BY <1>1, <1>2, <2>1
  <2>4. ASSUME faults = 0 PROVE Alone(TxIface)'
    <3>1. \A i \in Ifaces : tun[i] = None
      BY <1>2, <2>1, <2>4 DEF RunningInv, Unfaulted, Alone
    <3> QED
      BY <1>1, <1>4, <1>5, <2>1, <3>1 DEF Alone
  <2>5. ApplyRuns'
    BY <2>1 DEF ApplyRuns, UndoingDisk, DiskLabels
  <2> QED
    BY <1>1, <1>2, <1>4, <2>1, <2>2, <2>3, <2>4, <2>5, ApplyGoesOn
<1> QED
  BY <1>6, <1>7, <1>8

\* Syncing touches what a link is told of its peers and routes, not what it is.
LEMMA SyncKeepsLink ==
  ASSUME TypeOK, NEW i \in Ifaces, tun[i] # None, NEW c \in Contents,
         \/ tun' = [tun EXCEPT ![i].peers = c]
         \/ tun' = [tun EXCEPT ![i].routes = c]
  PROVE  /\ tun'[i] # None /\ tun'[i].section = tun[i].section
         /\ \A j \in Ifaces \ {i} : tun'[j] = tun[j]
<1>1. tun[i] \in Links /\ tun \in [Ifaces -> Links \cup {None}]
  BY DEF TypeOK
<1>2. /\ [tun[i] EXCEPT !.peers = c] \in Links /\ [tun[i] EXCEPT !.routes = c] \in Links
      /\ [tun[i] EXCEPT !.peers = c].section = tun[i].section
      /\ [tun[i] EXCEPT !.routes = c].section = tun[i].section
  BY <1>1 DEF Links
<1>3. CASE tun' = [tun EXCEPT ![i].peers = c]
  <2>1. tun'[i] = [tun[i] EXCEPT !.peers = c]
    BY <1>1, <1>3
  <2> QED
    BY <1>1, <1>2, <1>3, <2>1, ConstantsAssumption
<1>4. CASE tun' = [tun EXCEPT ![i].routes = c]
  <2>1. tun'[i] = [tun[i] EXCEPT !.routes = c]
    BY <1>1, <1>4
  <2> QED
    BY <1>1, <1>2, <1>4, <2>1, ConstantsAssumption
<1> QED
  BY <1>3, <1>4

LEMMA SyncRuns ==
  ASSUME MaxFaults <= 1, TypeOK, LocalsInUse, FilterInv, RunningInv,
         SyncPeers \/ SyncRoutes
  PROVE  RunningInv'
<1> USE DEF Goto, disk, kernel, loop, locals,
            Ahead, Back, Writing, Loading, Opening, Restoring
<1>1. /\ pc["run"] \in {"sync", "routes"} /\ pc \in [{"run", "cli"} -> Labels]
      /\ tun \in [Ifaces -> Links \cup {None}]
  BY DEF SyncPeers, SyncRoutes, TypeOK
<1>2. /\ pc["cli"] = "idle" /\ tx.want \in Versions
      /\ TxIface \in Ifaces /\ tx.old \in Ifaces /\ tx \in Transactions
      /\ meta.iface = tx.old /\ ~tx.err
      /\ file[TxIface] = tx.want /\ file["nftables"] = tx.want
      /\ file["sysctl"] = tx.want /\ (faults = 0 => Alone(tx.old))
  BY <1>1, WrittenFacts
<1>3. /\ tx.touched = "synced" /\ CanSync
      /\ pc["run"] = "routes" => tun[tx.old].peers = tx.want
  BY <1>1 DEF RunningInv, ApplyRuns
<1>4. /\ TxIface = tx.old /\ tun[tx.old] # None /\ tx.want # None
      /\ tx.want \in Contents /\ None \in Contents
  BY <1>2, <1>3, Basics, PathsType DEF CanSync
<1>5. /\ UNCHANGED <<file, meta, nft, plan, rb>> /\ pc'["cli"] = pc["cli"]
      /\ tx'.want = tx.want /\ tx'.old = tx.old /\ tx'.file = tx.file
      /\ tx'.restart = tx.restart /\ tx'.err = tx.err /\ tx'.touched = tx.touched
  BY <1>1, <1>2 DEF SyncPeers, SyncRoutes, Undo, Proceed, Transactions
<1>6. \/ tun' = tun
      \/ \E c \in Contents : \/ tun' = [tun EXCEPT ![tx.old].peers = c]
                             \/ tun' = [tun EXCEPT ![tx.old].routes = c]
  BY <1>2, <1>4 DEF SyncPeers, SyncRoutes, Synced, Rerouted
<1>7. /\ tun'[tx.old] # None /\ tun'[tx.old].section = tun[tx.old].section
      /\ \A j \in Ifaces \ {tx.old} : tun'[j] = tun[j]
  BY <1>2, <1>4, <1>6, SyncKeepsLink
<1>8. CanSync'
  BY <1>3, <1>5, <1>7 DEF CanSync, WasApplied, TxIface, Section
<1>9. CASE pc'["run"] = "restore"
  <2>1. /\ Undo /\ pc' = [pc EXCEPT !["run"] = "restore"]
        /\ faults' = MaxFaults /\ faults' # 0
    BY <1>1, <1>2, <1>4, <1>9, OneFault DEF SyncPeers, SyncRoutes, Proceed, Undo
  <2> QED
    BY <1>1, <1>2, <1>3, <1>5, <1>8, <2>1, UndoStarts
<1>10. CASE SyncPeers /\ pc'["run"] # "restore"
  <2>1. /\ tun' = [tun EXCEPT ![tx.old].peers = tx.want] /\ tx' = tx
        /\ faults' = faults /\ pc'["run"] = "routes"
    BY <1>1, <1>2, <1>4, <1>10 DEF SyncPeers, Proceed, Undo, Synced
  <2>2. tun'[tx.old].peers = tx.want
    <3>1. tun[tx.old] \in Links
      BY <1>1, <1>2, <1>4
    <3>2. [tun[tx.old] EXCEPT !.peers = tx.want].peers = tx.want
      BY <3>1 DEF Links
    <3> QED
      BY <1>1, <1>2, <2>1, <3>2
  <2>3. ApplyRuns'
    BY <1>2, <1>3, <1>5, <1>8, <2>1, <2>2 DEF ApplyRuns
  <2>4. faults = 0 => Alone(tx.old)'
    BY <1>2, <1>5, <1>7 DEF Alone
  <2> QED
    BY <1>1, <1>2, <1>5, <2>1, <2>3, <2>4, ApplyGoesOn
<1>11. CASE SyncRoutes /\ pc'["run"] # "restore"
  <2>1. /\ tun' = [tun EXCEPT ![tx.old].routes = tx.want] /\ tx' = tx
        /\ faults' = faults /\ pc'["run"] = "finish" /\ pc["run"] = "routes"
    BY <1>1, <1>2, <1>4, <1>11 DEF SyncRoutes, Proceed, Undo, Rerouted
  <2>2. tun'[TxIface] = LinkFor(tx.want)
    <3>1. /\ tun[tx.old] \in Links /\ tun[tx.old].peers = tx.want
          /\ tun[tx.old].section = Section(tx.want)
      BY <1>1, <1>2, <1>3, <1>4, <2>1 DEF CanSync, Section
    <3>2. [tun[tx.old] EXCEPT !.routes = tx.want]
            = [section |-> Section(tx.want), peers |-> tx.want, routes |-> tx.want]
      BY <3>1 DEF Links
    <3> QED
      BY <1>1, <1>2, <1>4, <2>1, <3>2 DEF LinkFor
  <2>3. nft = tx.want
    BY <2>1 DEF FilterInv, ApplyIsFiltered
  <2>4. ApplyRuns'
    BY <2>1 DEF ApplyRuns, UndoingDisk, DiskLabels
  <2>5. TxIface' = TxIface
    BY <2>1 DEF TxIface
  <2>6. faults = 0 => Alone(TxIface)'
    BY <1>2, <1>4, <1>7, <2>5 DEF Alone
  <2> QED
    BY <1>1, <1>2, <1>5, <2>1, <2>2, <2>3, <2>4, <2>6, ApplyGoesOn
<1> QED
  BY <1>9, <1>10, <1>11

LEMMA FinishRuns ==
  ASSUME MaxFaults <= 1, TypeOK, LocalsInUse, FilterInv, RunningInv, Finish
  PROVE  RunningInv'
<1> USE DEF Goto, disk, kernel, loop, locals
<1>1. /\ pc["run"] = "finish" /\ pc["cli"] = "idle" /\ tx.want \in Versions
      /\ TxIface \in Ifaces
  BY ApplyAlone, TxIfaceType DEF Finish, LocalsInUse
<1>2. /\ UNCHANGED <<file, tun, nft, plan, rb>> /\ pc'["run"] = "idle"
      /\ pc'["cli"] = "idle"
  BY <1>1 DEF Finish, TypeOK
<1>3. /\ file[TxIface] = tx.want /\ file["nftables"] = tx.want
      /\ file["sysctl"] = tx.want
      /\ tun[TxIface] = LinkFor(tx.want) /\ nft \in {tx.want, None}
  BY <1>1 DEF RunningInv, Written
<1>4. ApplyRuns' /\ Written' /\ UndoRuns'
  BY <1>2, NothingApplied DEF LoopLabels
<1>5. DiskRead'
  BY <1>2 DEF DiskRead
<1>6. CASE meta' = [iface |-> TxIface, hash |-> Bundle(tx.want)] /\ faults' = faults
  <2>1. /\ meta'.iface = TxIface /\ meta'.hash = Bundle(tx.want)
        /\ meta'.hash # None /\ tx.want # None
    BY <1>1, <1>6, Basics
  <2>2. DiskIsApplied'
    BY <1>2, <1>3, <2>1 DEF DiskIsApplied, DiskHash, Bundle
  <2>3. RunsDisk(meta.iface)'
    BY <1>2, <1>3, <2>1 DEF RunsDisk, LinkFor, Section
  <2>4. Described'
    BY <1>2, <1>3, <2>1, <2>3 DEF Described
  <2>5. HashFiltered'
    BY <1>2, <2>1 DEF HashFiltered, Bundle
  <2>6. tun'[meta'.iface] # None
    BY <1>1, <1>2, <1>3, <2>1, Basics, PathsType
  <2>7. Unfaulted'
    <3> SUFFICES ASSUME faults' = 0 PROVE Unfaulted'
      BY DEF Unfaulted
    <3>1. Alone(TxIface)
      BY <1>1, <1>6 DEF RunningInv, Unfaulted
    <3>2. Alone(meta.iface)'
      BY <1>2, <2>1, <3>1 DEF Alone
    <3>3. Bundle(tx.want)' = Bundle(tx.want) /\ TxIface = IfaceOf[tx.want]
      BY DEF Bundle, Finish, TxIface
    <3>4. \E v \in Versions : meta'.hash = Bundle(v) /\ meta'.iface = IfaceOf[v]
      BY <1>1, <2>1, <3>3
    <3> QED
      BY <1>2, <2>1, <2>2, <2>6, <3>2, <3>4
      DEF Unfaulted, CliQuiet, LoopLabels, Ahead, Writing, Loading, Opening, Bundle
  <2> QED
    BY <1>2, <1>4, <1>5, <2>4, <2>5, <2>7, OnlyDaemon DEF SteadyRuns
<1>7. CASE Fault("finish") /\ meta' = meta
  <2>1. faults = 0 /\ faults' # 0
    BY <1>7, OneFault
  <2>2. Described'
    BY <1>2, <1>7, <2>1
    DEF RunningInv, SteadyRuns, Steady, Described, DiskIsApplied, DiskHash,
        RunsDisk, LinkFor, Section
  <2>3. HashFiltered' /\ Unfaulted'
    BY <1>2, <1>7, <2>1 DEF RunningInv, HashFiltered, Unfaulted
  <2> QED
    BY <1>2, <1>4, <1>5, <2>2, <2>3, OnlyDaemon DEF SteadyRuns
<1> QED
  BY <1>6, <1>7 DEF Finish

-----------------------------------------------------------------------------
(* The undo *)

LEMMA UndoFacts ==
  ASSUME MaxFaults <= 1, TypeOK, LocalsInUse, FilterInv, RunningInv,
         pc["run"] \in Back \/ UndoingDisk
  PROVE  /\ pc["cli"] = "idle" /\ faults = MaxFaults /\ faults # 0 /\ ~tx.err
         /\ \A l : ~Fault(l)
         /\ meta.iface = tx.old /\ tx.old \in Ifaces /\ tx \in Transactions
         /\ tx.touched = "synced" => CanSync
         /\ tx.touched \in {"no", "synced", "restarted"}
<1>1. pc["cli"] = "idle"
  BY ApplyAlone
  DEF FilterInv, OneAtATime, RunQuiet, CliQuiet, UndoingDisk, DiskLabels
<1>2. faults = MaxFaults /\ faults # 0 /\ ~tx.err /\ (tx.touched = "synced" => CanSync)
  BY DEF RunningInv, UndoRuns
<1>3. meta.iface = tx.old
  BY DEF RunningInv, ApplyRuns
<1> QED
  BY <1>1, <1>2, <1>3, OneFault DEF TypeOK, Transactions

\* With the files back, they are what was applied if they were so before.
LEMMA FilesBack ==
  ASSUME meta' = meta, meta.iface = tx.old, tx'.old = tx.old, tx'.file = tx.file,
         file' = tx.file
  PROVE  /\ DiskIsApplied' <=> WasApplied
         /\ WasApplied /\ tun'[tx.old] # None =>
              (OldRuns' /\ nft' \in {file'["nftables"], None} => Described')
         /\ tun'[tx.old] = None => Described'
  BY DEF DiskIsApplied, DiskHash, WasApplied, OldRuns, Described, RunsDisk,
         LinkFor, Section

LEMMA UndoEnds ==
  ASSUME HashFiltered, pc["cli"] = "idle", pc'["cli"] = "idle",
         pc'["run"] = "idle", meta' = meta, faults' # 0, Described'
  PROVE  RunningInv'
<1>1. ApplyRuns' /\ Written' /\ UndoRuns'
  BY NothingApplied DEF LoopLabels
<1>2. HashFiltered' /\ DiskRead' /\ Unfaulted'
  BY DEF HashFiltered, DiskRead, Unfaulted
<1> QED
  BY <1>1, <1>2, OnlyDaemon DEF SteadyRuns

\* The next step of an undo, nothing being able to fail any more.
LEMMA UndoGoesOn ==
  ASSUME HashFiltered, pc["cli"] = "idle", pc'["cli"] = "idle",
         pc'["run"] \in Back, meta' = meta, meta.iface = tx'.old,
         faults' = MaxFaults, faults' # 0, UndoRuns'
  PROVE  RunningInv'
<1> USE DEF Ahead, Back, Writing, Loading, Opening, Restoring
<1>1. ApplyRuns' /\ Written' /\ Unfaulted'
  BY DEF ApplyRuns, Written, Unfaulted
<1> QED
  BY <1>1, InApply

LEMMA RestoreRuns ==
  ASSUME MaxFaults <= 1, TypeOK, LocalsInUse, FilterInv, UndoInv, RunningInv,
         Restore, [Next]_vars
  PROVE  RunningInv'
<1> USE DEF Goto, disk, kernel, loop, locals, Back, Restoring
<1>1. pc["run"] \in {"restore", "unwrite"} /\ pc \in [{"run", "cli"} -> Labels]
  BY DEF Restore, TypeOK
<1>2. /\ pc["cli"] = "idle" /\ faults = MaxFaults /\ faults # 0 /\ ~tx.err
      /\ \A l : ~Fault(l)
      /\ meta.iface = tx.old /\ tx.old \in Ifaces /\ tx \in Transactions
      /\ tx.touched = "synced" => CanSync
  BY <1>1, UndoFacts
<1>3. /\ tx' = [tx EXCEPT !.n = @ - 1]
      /\ UNCHANGED <<meta, tun, nft, plan, rb, faults>>
      /\ pc'["cli"] = "idle"
      /\ \/ pc'["run"] = pc["run"]
         \/ pc["run"] = "restore" /\ pc'["run"] = "undel"
         \/ pc["run"] = "unwrite" /\ pc'["run"] = "idle"
  BY <1>1, <1>2 DEF Restore
<1>4. /\ tx'.want = tx.want /\ tx'.old = tx.old /\ tx'.file = tx.file
      /\ tx'.touched = tx.touched /\ tx'.err = tx.err
  BY <1>2, <1>3 DEF Transactions
<1>5. /\ TxIface' = TxIface /\ (OldRuns' <=> OldRuns) /\ (OldNft' <=> OldNft)
      /\ (CanSync' <=> CanSync) /\ (WasApplied' <=> WasApplied)
  BY <1>3, <1>4, SameTx
<1>6. pc'["run"] # pc["run"] => file' = tx.file
  <2>1. pc'["run"] # "down"
    BY <1>1, <1>3
  <2> QED
    BY <1>1, <1>2, <1>4, <2>1, UndoneStep
<1>7. /\ pc["run"] = "unwrite" => OldRuns /\ OldNft
      /\ pc["run"] = "restore" =>
           (tx.touched = "no" => OldRuns)
           /\ (tx.touched = "restarted" /\ TxIface # tx.old => OldRuns)
  BY <1>1 DEF RunningInv, UndoRuns
<1>8. CASE pc'["run"] \in {"restore", "unwrite", "undel"}
  <2>1. /\ faults' = MaxFaults /\ faults' # 0 /\ ~tx'.err
        /\ tx'.touched = "synced" => CanSync'
    BY <1>2, <1>3, <1>4, <1>5
  <2>2. /\ pc'["run"] = "unwrite" => OldRuns' /\ OldNft'
        /\ pc'["run"] \in {"restore", "undel"} =>
             (tx'.touched = "no" => OldRuns')
             /\ (tx'.touched = "restarted" /\ TxIface' # tx'.old => OldRuns')
        /\ pc'["run"] = "undel" => file' = tx'.file
    BY <1>1, <1>3, <1>4, <1>5, <1>6, <1>7
  <2>3. UndoRuns'
    BY <1>8, <2>1, <2>2 DEF UndoRuns, UndoingDisk, DiskLabels
  <2> QED
    BY <1>2, <1>3, <1>4, <1>8, <2>3, UndoGoesOn DEF RunningInv
<1>9. CASE pc["run"] = "unwrite" /\ pc'["run"] = "idle"
  <2>1. file' = tx.file /\ (DiskIsApplied' <=> WasApplied)
    BY <1>2, <1>3, <1>4, <1>6, <1>9, FilesBack
  <2>2. Described'
    BY <1>2, <1>3, <1>4, <1>5, <1>7, <1>9, <2>1, FilesBack DEF Described, OldNft
  <2> QED
    BY <1>2, <1>3, <1>9, <2>2, UndoEnds DEF RunningInv
<1> QED
  BY <1>1, <1>3, <1>8, <1>9

LEMMA UndeleteRuns ==
  ASSUME MaxFaults <= 1, TypeOK, LocalsInUse, FilterInv, RunningInv, Undelete
  PROVE  RunningInv'
<1> USE DEF Goto, disk, kernel, loop, locals, Back, Restoring
<1>1. /\ pc["run"] = "undel" /\ pc \in [{"run", "cli"} -> Labels]
      /\ tun \in [Ifaces -> Links \cup {None}] /\ plan \in [{"run", "cli"} -> Plans]
  BY DEF Undelete, TypeOK
<1>2. /\ pc["cli"] = "idle" /\ faults = MaxFaults /\ faults # 0 /\ ~tx.err
      /\ \A l : ~Fault(l)
      /\ meta.iface = tx.old /\ tx.old \in Ifaces /\ tx \in Transactions
      /\ tx.touched = "synced" => CanSync
      /\ tx.touched \in {"no", "synced", "restarted"}
  BY <1>1, UndoFacts
<1>3. /\ UNCHANGED <<file, meta, nft, tx, rb, faults>> /\ pc'["cli"] = "idle"
      /\ tun' = IF tx.touched = "restarted"
                  THEN [tun EXCEPT ![TxIface] = None] ELSE tun
      /\ IF Parts(tx.old) = {} THEN pc'["run"] = "idle"
           ELSE pc'["run"] = "check" /\ plan' = [plan EXCEPT !["run"].ret = "resync"]
  BY <1>1, <1>2 DEF Undelete, Call
<1>4. /\ file = tx.file /\ (tx.touched = "no" => OldRuns)
      /\ (tx.touched = "restarted" /\ TxIface # tx.old => OldRuns)
  BY <1>1 DEF RunningInv, UndoRuns
<1>5. tx.touched # "synced" => OldRuns'
  BY <1>1, <1>2, <1>3, <1>4, SameTx
<1>6. tx.touched = "synced" => CanSync'
  BY <1>2, <1>3, SameTx
<1>7. CASE Parts(tx.old) = {}
  <2>1. tx.file[tx.old] = None
    BY <1>4, <1>7 DEF Parts
  <2>2. tx.touched # "synced"
    BY <1>2, <2>1 DEF CanSync
  <2>3. DiskIsApplied' => tun'[tx.old] = None
    BY <1>2, <1>3, <1>4, <1>5, <2>1, <2>2, FilesBack, SameTx DEF OldRuns
  <2>4. Described'
    BY <1>2, <1>3, <2>3 DEF Described
  <2> QED
    BY <1>2, <1>3, <1>7, <2>4, UndoEnds DEF RunningInv
<1>8. CASE Parts(tx.old) # {}
  <2>1. pc'["run"] = "check" /\ plan'["run"].ret = "resync"
    BY <1>1, <1>3, <1>8 DEF Plans
  <2>2. UndoRuns'
    <3>1. Parts(tx.old)' = Parts(tx.old)
      BY <1>3 DEF Parts
    <3> QED
      BY <1>2, <1>3, <1>4, <1>5, <1>6, <1>8, <2>1, <3>1
      DEF UndoRuns, UndoingDisk, DiskLabels
  <2>3. ApplyRuns' /\ Written' /\ Unfaulted'
    BY <1>2, <1>3, <2>1
    DEF ApplyRuns, Written, Unfaulted, Ahead, Writing, Loading, Opening
  <2>4. HashFiltered' /\ DiskRead'
    BY <1>2, <1>3, <2>1 DEF RunningInv, HashFiltered, DiskRead
  <2>5. SteadyRuns'
    BY <1>2, <1>3, <2>1 DEF SteadyRuns, Steady, LoopLabels, DiskLabels
  <2> QED
    BY <1>3, <2>2, <2>3, <2>4, <2>5, OnlyDaemon
<1> QED
  BY <1>7, <1>8

LEMMA UndoFromDisk ==
  ASSUME MaxFaults <= 1, TypeOK, LocalsInUse, FilterInv, RunningInv,
         FromDisk("run"), UndoingDisk
  PROVE  RunningInv'
<1>1. /\ pc["cli"] = "idle" /\ faults = MaxFaults /\ faults # 0 /\ ~tx.err
      /\ meta.iface = tx.old /\ tx.old \in Ifaces
      /\ tx.touched = "synced" => CanSync
  BY UndoFacts
<1>2. /\ file = tx.file /\ (tx.touched # "synced" => OldRuns) /\ Parts(tx.old) # {}
      /\ plan["run"].ret = "resync" /\ tun \in [Ifaces -> Links \cup {None}]
  BY DEF RunningInv, UndoRuns, UndoingDisk, TypeOK
<1>3. /\ UNCHANGED <<file, meta, tx, rb, faults>> /\ pc'["cli"] = "idle"
      /\ plan'["run"].ret = "resync" /\ DiskRead'
      /\ nft' \in {nft, file["nftables"]}
      /\ \/ tun' = tun
         \/ /\ tun[tx.old] = None /\ file[tx.old] # None
            /\ tun' = [tun EXCEPT ![tx.old] = LinkFor(file[tx.old])]
      /\ \/ pc'["run"] \in {"load", "forward", "raise"}
         \/ pc["run"] = "raise" /\ pc'["run"] = "resync"
         \/ /\ pc'["run"] = "idle"
            /\ Unfiltered(Parts(tx.old)) \/ tun'[tx.old] = None
  BY <1>1, <1>2, DiskStep DEF RunningInv
<1>4. tx.touched = "synced" => CanSync'
  BY <1>1, <1>3, SameTx DEF CanSync
<1>5. tx.touched # "synced" => OldRuns'
  <2>1. CASE tun' = tun
    BY <1>2, <1>3, <2>1, SameTx
  <2>2. CASE tun'[tx.old] = LinkFor(file[tx.old]) /\ file[tx.old] # None
    BY <1>2, <1>3, <2>2 DEF OldRuns, LinkFor, Section
  <2> QED
    BY <1>1, <1>2, <1>3, <2>1, <2>2
<1>6. Parts(tx.old)' = Parts(tx.old)
  BY <1>3 DEF Parts
<1>7. CASE pc'["run"] \in {"load", "forward", "raise"}
  <2>1. UndoRuns'
    BY <1>1, <1>2, <1>3, <1>4, <1>5, <1>6, <1>7
    DEF UndoRuns, UndoingDisk, Back, Restoring
  <2>2. ApplyRuns' /\ Written' /\ Unfaulted'
    BY <1>1, <1>3, <1>7
    DEF ApplyRuns, Written, Unfaulted, Ahead, Back, Writing, Loading, Opening, Restoring
  <2>3. HashFiltered'
    BY <1>3 DEF RunningInv, HashFiltered
  <2>4. SteadyRuns'
    BY <1>1, <1>3, <1>7 DEF SteadyRuns, Steady, LoopLabels, DiskLabels
  <2> QED
    BY <1>3, <2>1, <2>2, <2>3, <2>4, OnlyDaemon
<1>8. CASE pc["run"] = "raise" /\ pc'["run"] = "resync"
  <2>1. nft = file["nftables"]
    <3>1. plan["run"].parts = Parts(tx.old)
      BY <1>1, <1>8 DEF RunningInv, DiskRead
    <3> QED
      BY <1>2, <1>8, <3>1 DEF FilterInv, FromDiskIsFiltered
  <2>2. UndoRuns'
    BY <1>1, <1>2, <1>3, <1>4, <1>5, <1>8, <2>1
    DEF UndoRuns, UndoingDisk, Back, Restoring, DiskLabels
  <2> QED
    BY <1>1, <1>3, <1>8, <2>2, UndoGoesOn DEF RunningInv, Back
<1>9. CASE pc'["run"] = "idle"
  <2>1. CASE tun'[tx.old] = None
    BY <1>1, <1>2, <1>3, <1>9, <2>1, FilesBack, UndoEnds DEF RunningInv
  <2>2. CASE Unfiltered(Parts(tx.old))
    <3>1. file["nftables"] = None
      BY <2>2 DEF Unfiltered, Parts
    <3>2. ASSUME DiskIsApplied' PROVE tun'[tx.old] = None
      <4>1. WasApplied
        BY <1>1, <1>2, <1>3, <3>2, FilesBack
      <4>2. /\ meta.hash # None /\ meta.hash.wg = tx.file[tx.old]
            /\ meta.hash.nftables = tx.file["nftables"]
        BY <4>1 DEF WasApplied
      <4>3. tx.file[tx.old] = None
        BY <1>2, <3>1, <4>2 DEF RunningInv, HashFiltered
      <4>4. tx.touched # "synced"
        BY <1>1, <4>3 DEF CanSync
      <4>5. WasApplied'
        BY <1>3, <4>1, SameTx
      <4> QED
        BY <1>3, <1>5, <4>3, <4>4, <4>5 DEF OldRuns
    <3>3. Described'
      BY <1>1, <1>3, <3>2 DEF Described
    <3> QED
      BY <1>1, <1>3, <1>9, <3>3, UndoEnds DEF RunningInv
  <2> QED
    BY <1>3, <1>9, <2>1, <2>2
<1> QED
  BY <1>3, <1>7, <1>8, <1>9

LEMMA ResyncRuns ==
  ASSUME MaxFaults <= 1, TypeOK, LocalsInUse, FilterInv, RunningInv,
         Resync \/ Reroute
  PROVE  RunningInv'
<1> USE DEF Goto, disk, kernel, loop, locals, Back, Restoring
<1>1. /\ pc["run"] \in {"resync", "reroute"} /\ pc \in [{"run", "cli"} -> Labels]
      /\ tun \in [Ifaces -> Links \cup {None}] /\ file \in [Paths -> Contents]
  BY DEF Resync, Reroute, TypeOK
<1>2. /\ pc["cli"] = "idle" /\ faults = MaxFaults /\ faults # 0 /\ ~tx.err
      /\ \A l : ~Fault(l)
      /\ meta.iface = tx.old /\ tx.old \in Ifaces
      /\ tx.touched = "synced" => CanSync
  BY <1>1, UndoFacts
<1>3. /\ file = tx.file /\ nft \in {file["nftables"], None}
      /\ pc["run"] = "resync" => (tx.touched # "synced" => OldRuns)
      /\ pc["run"] = "reroute" =>
           tx.touched = "synced" /\ tun[tx.old].peers = file[tx.old]
  BY <1>1 DEF RunningInv, UndoRuns
<1>4. /\ UNCHANGED <<file, meta, nft, tx, plan, rb, faults>> /\ pc'["cli"] = "idle"
      /\ pc'["run"] \in {"idle", "reroute"}
  BY <1>1, <1>2 DEF Resync, Reroute
<1>5. tx.touched = "synced" => tun[tx.old] # None /\ file[tx.old] # None
                               /\ tx.file[tx.old] \in Contents
  BY <1>1, <1>2, <1>3, PathsType DEF CanSync
<1>6. CASE Resync /\ pc'["run"] = "reroute"
  <2>1. tun' = [tun EXCEPT ![tx.old].peers = file[tx.old]] /\ tx.touched = "synced"
    BY <1>1, <1>6 DEF Resync, Synced
  <2>2. /\ tun'[tx.old] # None /\ tun'[tx.old].section = tun[tx.old].section
    BY <1>2, <1>3, <1>5, <2>1, SyncKeepsLink
  <2>3. tun'[tx.old].peers = file[tx.old]
    <3>1. tun[tx.old] \in Links
      BY <1>1, <1>2, <1>5, <2>1
    <3>2. [tun[tx.old] EXCEPT !.peers = file[tx.old]].peers = file[tx.old]
      BY <3>1 DEF Links
    <3> QED
      BY <1>1, <1>2, <2>1, <3>2
  <2>4. CanSync'
    BY <1>2, <1>4, <2>1, <2>2 DEF CanSync, WasApplied, TxIface, Section
  <2>5. UndoRuns'
    BY <1>2, <1>3, <1>4, <1>6, <2>1, <2>3, <2>4
    DEF UndoRuns, UndoingDisk, DiskLabels
  <2> QED
    BY <1>2, <1>4, <1>6, <2>5, UndoGoesOn DEF RunningInv
<1>7. CASE Resync /\ pc'["run"] = "idle"
  <2>1. tx.touched # "synced" /\ tun' = tun /\ pc["run"] = "resync"
    BY <1>1, <1>2, <1>5, <1>7 DEF Resync
  <2>2. OldRuns'
    BY <1>3, <1>4, <2>1, SameTx
  <2>3. DiskIsApplied' <=> WasApplied
    BY <1>2, <1>3, <1>4, FilesBack
  <2>4. Described'
    BY <1>2, <1>3, <1>4, <2>2, <2>3, FilesBack DEF Described
  <2> QED
    BY <1>2, <1>4, <1>7, <2>4, UndoEnds DEF RunningInv
<1>8. CASE Reroute
  <2>1. /\ tun' = [tun EXCEPT ![tx.old].routes = tx.file[tx.old]]
        /\ tx.touched = "synced" /\ pc'["run"] = "idle"
        /\ tun[tx.old].peers = tx.file[tx.old]
    BY <1>1, <1>2, <1>3, <1>5, <1>8 DEF Reroute, Rerouted
  <2>2. tun[tx.old] \in Links /\ tun[tx.old].section = Section(tx.file[tx.old])
    BY <1>1, <1>2, <1>5, <2>1 DEF CanSync
  <2>3. [tun[tx.old] EXCEPT !.routes = tx.file[tx.old]]
          = [section |-> Section(tx.file[tx.old]), peers |-> tx.file[tx.old],
             routes |-> tx.file[tx.old]]
    BY <2>1, <2>2 DEF Links
  <2>4. tun'[tx.old] = LinkFor(tx.file[tx.old])
    BY <1>1, <1>2, <2>1, <2>3 DEF LinkFor
  <2>5. Described'
    BY <1>2, <1>3, <1>4, <1>5, <2>1, <2>4 DEF Described, RunsDisk, LinkFor, Section
  <2> QED
    BY <1>2, <1>4, <2>1, <2>5, UndoEnds DEF RunningInv
<1> QED
  BY <1>1, <1>4, <1>6, <1>7, <1>8 DEF Reroute

LEMMA RunningInit == Init => RunningInv
<1> SUFFICES ASSUME Init PROVE RunningInv
  OBVIOUS
<1>1. /\ pc["run"] = "idle" /\ pc["cli"] = "idle" /\ meta.hash = None
      /\ \A i \in Ifaces : tun[i] = None
      /\ meta.iface \in Ifaces /\ file[meta.iface] = None
  BY ConstantsAssumption, PathsType DEF Init
<1> QED
  BY <1>1
  DEF RunningInv, SteadyRuns, Described, DiskIsApplied, HashFiltered, DiskRead,
      CommandRuns, RollingBack, ApplyRuns, Written, UndoRuns, Unfaulted, CliQuiet,
      UndoingDisk, Alone, LoopLabels, DiskLabels, Ahead, Back, Writing, Loading,
      Opening, Restoring

LEMMA RunningStep ==
  ASSUME ~Interleave, MaxFaults <= 1, TypeOK, LocalsInUse, FilterInv, UndoInv,
         RunningInv, [Next]_vars
  PROVE  RunningInv'
<1>a. LocalsInUse'
  BY LocalsStep
<1>1. CASE Start \/ Wake \/ KeepFirewall \/ BringUp \/ Report \/ Unreachable
  BY <1>1, LoopRuns
<1>2. CASE Fetch
  BY <1>2, <1>a, FetchRuns
<1>3. CASE FromDisk("run")
  BY <1>3, DaemonFromDisk, UndoFromDisk
<1>4. CASE KeepPrev \/ Write
  BY <1>4, <1>a, WriteRuns
<1>5. CASE Drop \/ ApplyNft \/ ApplySysctl
  BY <1>5, LoadRuns
<1>6. CASE Delete \/ Up
  BY <1>6, RebuildRuns
<1>7. CASE SyncPeers \/ SyncRoutes
  BY <1>7, SyncRuns
<1>8. CASE Finish
  BY <1>8, FinishRuns
<1>9. CASE Restore
  BY <1>9, RestoreRuns
<1>10. CASE Undelete
  BY <1>10, UndeleteRuns
<1>11. CASE Resync \/ Reroute
  BY <1>11, ResyncRuns
<1>12. CASE Swap \/ SwapPrev
  BY <1>12, SwapRuns
<1>13. CASE Lower \/ Unload
  BY <1>13, LowerRuns
<1>14. CASE Record
  BY <1>14, RecordRuns
<1>15. CASE FromDisk("cli")
  BY <1>15, CommandFromDisk
<1>16. CASE \/ \E op \in CliOps : Command(op)
            \/ \E p \in {"run", "cli"} : Crash(p)
            \/ Reboot \/ Flush \/ \E i \in Ifaces : LinkDown(i)
  BY <1>16, OutsideRuns
<1>17. CASE HoldExpires \/ Publish \/ UNCHANGED vars
  BY <1>17, SameRuns DEF HoldExpires, Publish, vars, disk, kernel, loop, locals
<1> QED
  BY <1>1, <1>2, <1>3, <1>4, <1>5, <1>6, <1>7, <1>8, <1>9, <1>10, <1>11,
     <1>12, <1>13, <1>14, <1>15, <1>16, <1>17
  DEF Next, Daemon, Apply, Undoing, Cli

\* While the processes do not interleave and at most one thing goes wrong - a
\* step fails, a process is killed, an operator runs a command, the power goes,
\* somebody flushes the ruleset or takes the link down - files that are what was
\* last applied describe what is running, whenever the daemon looks.
THEOREM AppliedAlwaysRuns ==
  ASSUME ~Interleave, MaxFaults <= 1 PROVE Spec => []AppliedIsRunning
<1> DEFINE Inv == TypeOK /\ LocalsInUse /\ FilterInv /\ UndoInv /\ RunningInv
<1>1. Init => Inv
  <2>1. Init => UndoInv
    BY DEF Init, UndoInv, Applying, Writing, Loading, Opening, Restoring
  <2> QED
    BY <2>1, TypeInit, FilterInit, RunningInit
<1>2. Inv /\ [Next]_vars => Inv'
  BY TypeStep, LocalsStep, FilterStep, UndoStep, RunningStep DEF FilterInv
<1>3. Inv => AppliedIsRunning
  BY DEF RunningInv, SteadyRuns, Steady, Described, AppliedIsRunning, RunQuiet,
         CliQuiet, LoopLabels
<1> QED
  BY <1>1, <1>2, <1>3, PTL DEF Spec

-----------------------------------------------------------------------------
(* `up` races the daemon *)

\* Why NeverOpensBare holds although `up` may run in the middle of an apply:
\* whoever switches forwarding on or brings a link up has loaded a table, be it
\* the other's, and nobody takes it away but a power loss, which ends both.
\* Until the next `up` there is always a table, for no file is ever empty;
RulesetNeverEmpty ==
  \A c \in {file["nftables"], prev["nftables"], tx.file["nftables"], tx.prev["nftables"]} :
    c # Empty

\* all that the operator runs is applyFromDisk;
OnlyUp == pc["cli"] \in {"idle"} \cup DiskLabels /\ plan["cli"].ret = "idle"

\* and the table is loaded before anything opens.
SomeTable ==
  /\ pc["run"] \in Opening => nft # None
  /\ \A p \in {"run", "cli"} :
       /\ pc[p] = "load" => ~Unfiltered(plan[p].parts)
       /\ pc[p] \in {"forward", "raise"} /\ plan[p].parts # {} => nft # None

UpInv == LocalsInUse /\ RulesetNeverEmpty /\ OnlyUp /\ SomeTable

LEMMA UpInit == Init => UpInv
<1> SUFFICES ASSUME Init PROVE UpInv
  OBVIOUS
<1>1. LocalsInUse
  BY TypeInit
<1>2. /\ pc["run"] = "idle" /\ pc["cli"] = "idle" /\ plan["cli"].ret = "idle"
      /\ file["nftables"] = None /\ prev["nftables"] = None
      /\ tx.file["nftables"] = None /\ tx.prev["nftables"] = None
  BY PathsType DEF Init
<1> QED
  BY <1>1, <1>2, ConstantsAssumption
  DEF UpInv, RulesetNeverEmpty, OnlyUp, SomeTable, Opening

LEMMA UpStep ==
  ASSUME CliOps \subseteq {"up"}, "flush" \notin Externals
  PROVE  TypeOK /\ UpInv /\ [Next]_vars => UpInv'
<1> SUFFICES ASSUME TypeOK, UpInv, [Next]_vars PROVE UpInv'
  OBVIOUS
<1>0. /\ pc \in [{"run", "cli"} -> Labels] /\ plan \in [{"run", "cli"} -> Plans]
      /\ tx \in Transactions /\ rb \in Rollbacks
      /\ file \in [Paths -> Contents] /\ prev \in [Paths -> Contents]
  BY DEF TypeOK
<1>a. LocalsInUse'
  BY LocalsStep DEF UpInv
<1>b. ASSUME NEW i \in Ifaces PROVE i # "nftables"
  BY ConstantsAssumption
<1>c. LocalsInUse
  BY DEF UpInv
<1> USE <1>0, <1>a, <1>b, <1>c, PathsType
    DEF UpInv, RulesetNeverEmpty, OnlyUp, SomeTable, Opening, DiskLabels, Goto, disk,
        locals, kernel
<1>1. CASE Start
  BY <1>1 DEF Start
<1>2. CASE Wake
  BY <1>2 DEF Wake
<1>3. CASE KeepFirewall
  BY <1>3 DEF KeepFirewall, Table
<1>4. CASE BringUp
  BY <1>4 DEF BringUp, Call, Plans
<1>5. CASE Report
  BY <1>5 DEF Report
<1>6. CASE Unreachable
  BY <1>6 DEF Unreachable
<1>7. CASE HoldExpires
  BY <1>7 DEF HoldExpires
<1>8. CASE Fetch
  BY <1>8 DEF Fetch, Transactions
<1>9. CASE KeepPrev
  BY <1>9 DEF KeepPrev
<1>10. CASE Write
  <2>1. tx.want \in Versions /\ pc["run"] = "write"
    BY <1>10, TxIfaceType DEF Write, Applying, Writing
  <2>2. /\ tx'.file = tx.file /\ tx'.prev = tx.prev
        /\ UNCHANGED <<prev, plan, nft>> /\ pc'["cli"] = pc["cli"]
        /\ pc'["run"] \in {"keepprev", "drop", "nft", "unwrite"}
    BY <1>10 DEF Write, Transactions
  <2>3. file'["nftables"] \in {file["nftables"], tx.want}
    BY <1>10 DEF Write
  <2> QED
    BY <2>1, <2>2, <2>3, ConstantsAssumption
<1>11. CASE Drop
  BY <1>11, TxType DEF Drop
<1>12. CASE ApplyNft
  <2>1. pc'["run"] = "sysctl" => nft' # None
    BY <1>12, ConstantsAssumption DEF ApplyNft, Proceed, Undo, Table, Contents
  <2>2. nft # None => nft' # None
    BY <1>12, ConstantsAssumption DEF ApplyNft, Table
  <2>3. /\ tx'.file = tx.file /\ tx'.prev = tx.prev
        /\ UNCHANGED <<file, prev, plan>> /\ pc'["cli"] = pc["cli"]
        /\ pc'["run"] \in {"sysctl", "restore"}
    BY <1>12 DEF ApplyNft, Proceed, Undo, Transactions
  <2> QED
    BY <2>1, <2>2, <2>3
<1>13. CASE ApplySysctl
  BY <1>13 DEF ApplySysctl, Undo, Transactions
<1>14. CASE Delete
  BY <1>14 DEF Delete
<1>15. CASE Up
  BY <1>15 DEF Up, Proceed, Undo, Transactions
<1>16. CASE SyncPeers
  BY <1>16 DEF SyncPeers, Proceed, Undo, Transactions
<1>17. CASE SyncRoutes
  BY <1>17 DEF SyncRoutes, Proceed, Undo, Transactions
<1>18. CASE Finish
  BY <1>18 DEF Finish
<1>19. CASE Restore
  <2>1. /\ file'["nftables"] \in {file["nftables"], tx.file["nftables"]}
        /\ prev'["nftables"] \in {prev["nftables"], tx.prev["nftables"]}
    BY <1>19, TxType DEF Restore
  <2>2. tx' \in {[tx EXCEPT !.n = @ - 1], [tx EXCEPT !.n = @ - 1, !.err = TRUE]}
    BY <1>19 DEF Restore
  <2>3. tx'.file = tx.file /\ tx'.prev = tx.prev
    BY <2>2 DEF Transactions
  <2>4. /\ UNCHANGED <<plan, nft>> /\ pc'["cli"] = pc["cli"]
        /\ pc'["run"] \in {"restore", "unwrite", "undel", "idle"}
    BY <1>19 DEF Restore
  <2> QED
    BY <2>1, <2>3, <2>4
<1>20. CASE Undelete
  BY <1>20 DEF Undelete, Call, Plans
<1>21. CASE Resync
  BY <1>21 DEF Resync
<1>22. CASE Reroute
  BY <1>22 DEF Reroute
<1>23. CASE Swap \/ SwapPrev \/ Lower \/ Unload \/ Record
  BY <1>23 DEF Swap, SwapPrev, Lower, Unload, Record
<1>24. CASE Publish
  BY <1>24 DEF Publish
<1>25. CASE Reboot
  BY <1>25 DEF Reboot, Plans
<1>26. CASE Flush
  BY <1>26 DEF Flush
<1>27. CASE \E p \in {"run", "cli"} : FromDisk(p)
  <2> PICK p \in {"run", "cli"} : FromDisk(p)
    BY <1>27
  <2>1. CASE Check(p)
    BY <2>1 DEF Check, Plans, Fails
  <2>2. CASE Load(p)
    BY <2>2, ConstantsAssumption DEF Load, Unfiltered, Table, Fails, Contents
  <2>3. CASE Forward(p)
    BY <2>3 DEF Forward, Fails
  <2>4. CASE Raise(p)
    BY <2>4 DEF Raise, Fails, LocalsInUse
  <2> QED
    BY <2>1, <2>2, <2>3, <2>4 DEF FromDisk
<1>28. CASE \E op \in CliOps : Command(op)
  BY <1>28 DEF Command, Plans
<1>29. CASE \E p \in {"run", "cli"} : Crash(p)
  BY <1>29 DEF Crash
<1>30. CASE \E i \in Ifaces : LinkDown(i)
  BY <1>30 DEF LinkDown
<1>31. CASE UNCHANGED vars
  BY <1>31 DEF vars
<1> QED
  BY <1>1, <1>2, <1>3, <1>4, <1>5, <1>6, <1>7, <1>8, <1>9, <1>10, <1>11, <1>12,
     <1>13, <1>14, <1>15, <1>16, <1>17, <1>18, <1>19, <1>20, <1>21, <1>22,
     <1>23, <1>24, <1>25, <1>26, <1>27, <1>28, <1>29, <1>30, <1>31
  DEF Next, Daemon, Apply, Undoing, Cli

\* The steps that only take links down or change what runs on one.
OpensNothing == \/ Delete \/ Undelete \/ Lower \/ Reboot \/ \E i \in Ifaces : LinkDown(i)
                \/ SyncPeers \/ SyncRoutes \/ Resync \/ Reroute

LEMMA StaysShut == ASSUME TypeOK, OpensNothing PROVE ~Opens
<1> USE DEF kernel
<1>1. CASE \/ Delete \/ Undelete \/ Lower \/ Reboot
           \/ \E i \in Ifaces : LinkDown(i)
  <2>1. fwd' = fwd \/ ~fwd'
    BY <1>1 DEF Delete, Undelete, Lower, Reboot, LinkDown
  <2>2. ASSUME NEW i \in Ifaces, tun[i] = None PROVE tun'[i] = None
    BY <1>1, <2>2 DEF Delete, Undelete, Lower, Reboot, LinkDown, TypeOK
  <2> QED
    BY <2>1, <2>2 DEF Opens
<1>2. CASE SyncPeers \/ SyncRoutes \/ Resync \/ Reroute
  <2>1. fwd' = fwd
    BY <1>2 DEF SyncPeers, SyncRoutes, Resync, Reroute
  <2>2. \/ tun' = tun
        \/ \E i \in {TxIface, tx.old} :
             /\ tun[i] # None
             /\ \/ tun' = Synced(i)
                \/ \E c : tun' = Rerouted(i, c)
    BY <1>2 DEF SyncPeers, SyncRoutes, Resync, Reroute
  <2>3. ASSUME NEW i \in Ifaces, tun[i] = None PROVE tun'[i] = None
    BY <2>2, <2>3 DEF Synced, Rerouted, TypeOK
  <2> QED
    BY <2>1, <2>3 DEF Opens
<1> QED
  BY <1>1, <1>2 DEF OpensNothing

\* Every other step leaves the links and forwarding alone.
LEMMA WhoOpens ==
  ASSUME [Next]_vars
  PROVE  \/ UNCHANGED <<tun, fwd>>
         \/ ApplySysctl \/ Up \/ OpensNothing
         \/ \E p \in {"run", "cli"} : Forward(p) \/ Raise(p)
<1> USE DEF kernel
<1>1. ASSUME Daemon, ~ \E p \in {"run", "cli"} : FromDisk(p)
      PROVE  UNCHANGED <<tun, fwd>>
  BY <1>1
  DEF Daemon, Start, Wake, KeepFirewall, BringUp, Report, Unreachable,
              Fetch
<1>2. ASSUME KeepPrev \/ Write \/ Drop \/ ApplyNft \/ Finish \/ Restore
               \/ HoldExpires
      PROVE  UNCHANGED <<tun, fwd>>
  BY <1>2 DEF KeepPrev, Write, Drop, ApplyNft, Finish, Restore, HoldExpires
<1>3. ASSUME \/ Swap \/ SwapPrev \/ Unload \/ Record \/ Publish \/ Flush
             \/ \E op \in CliOps : Command(op)
             \/ \E p \in {"run", "cli"} : Crash(p)
             \/ UNCHANGED vars
      PROVE  UNCHANGED <<tun, fwd>>
  BY <1>3
  DEF Swap, SwapPrev, Unload, Record, Publish, Flush, Command, Crash, vars
<1>4. ASSUME NEW p \in {"run", "cli"}, FromDisk(p)
      PROVE  UNCHANGED <<tun, fwd>> \/ Forward(p) \/ Raise(p)
  BY <1>4 DEF FromDisk, Check, Load
<1> QED
  BY <1>1, <1>2, <1>3, <1>4 DEF OpensNothing, Next, Daemon, Apply, Undoing, Cli

LEMMA OpensBareStep ==
  ASSUME TypeOK, UpInv, [Next]_vars
  PROVE  Opens => nft # None
<1> SUFFICES ASSUME Opens PROVE nft # None
  OBVIOUS
<1>1. CASE UNCHANGED <<tun, fwd>>
  BY <1>1 DEF Opens
<1>2. CASE ApplySysctl \/ Up
  BY <1>2 DEF ApplySysctl, Up, Opening, UpInv, SomeTable
<1>3. CASE \E p \in {"run", "cli"} : Forward(p) \/ Raise(p)
  BY <1>1, <1>3 DEF Forward, Raise, UpInv, SomeTable
<1>4. CASE OpensNothing
  BY <1>4, StaysShut
<1> QED
  BY <1>1, <1>2, <1>3, <1>4, WhoOpens

\* However `up` races the daemon, whatever fails and whenever either is killed or
\* the power lost, forwarding is never switched on and no link brought up on a
\* host without a table (applyFromDisk and applyConfig, apply.go), as long as
\* nobody else takes the table away: no `down` or `rollback` runs, and nobody
\* flushes the ruleset by hand.
THEOREM UpNeverOpensBare ==
  ASSUME CliOps \subseteq {"up"}, "flush" \notin Externals
  PROVE  Spec => NeverOpensBare
<1>1. Init => TypeOK /\ UpInv
  BY TypeInit, UpInit
<1>2. TypeOK /\ UpInv /\ [Next]_vars => (TypeOK /\ UpInv)'
  BY TypeStep, UpStep DEF UpInv
<1>3. TypeOK /\ UpInv /\ [Next]_vars => [Opens => nft # None]_vars
  BY OpensBareStep
<1> QED
  BY <1>1, <1>2, <1>3, PTL DEF Spec, NeverOpensBare

=============================================================================
