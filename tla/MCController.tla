---------------------------- MODULE MCController ----------------------------
(* The parts of the controller that do not touch each other's state, in one  *)
(* run: the account and its sessions, the counting of sign-ins, clients and  *)
(* their links, the record of the mesh, the history of reports, health       *)
(* checks, the agent's installation, the reports kept, the data directory,   *)
(* the mail server and the tunnel addresses.  A behaviour moves one of them. *)
(* What a router answers does not depend on how many requests there were or  *)
(* when: with routes of every kind one is made, with several requests the    *)
(* router stays as it is.                                                    *)
EXTENDS Sessions, Throttle, Invites, Fleet, Telemetry, Checks, Install, Reporting,
        DataDir, MailSettings, Addresses, TLC

CONSTANTS a1, a2, k1, k2

\* Two seconds and six.
TwoIntervals == {4, 12}

\* In the record of the mesh: more would take longer to compare than it saves.
Symmetry == Permutations(Sites) \union Permutations(Gateways) \union Permutations(EnrolTokens)
            \union Permutations({k1, k2})

\* Two users of one server, and a relay without.
ThreeAccounts ==
    {[host |-> "mail", port |-> 587, user |-> "u"], [host |-> "mail", port |-> 587, user |-> "v"],
     [host |-> "relay", port |-> 465, user |-> ""]}

\* Neighbours, and the second with what follows it.
ThreeRanges == {[first |-> 0, last |-> 3], [first |-> 4, last |-> 7], [first |-> 4, last |-> 11]}

VARIABLE part

MCInit ==
    /\ part \in {"sessions", "throttle", "invites", "fleet", "telemetry", "checks", "router",
                "install", "reporting", "data", "mail", "addresses"}
    /\ SessionInit /\ ThrottleInit /\ InviteInit /\ FleetInit /\ TelemetryInit
    /\ ChecksInit /\ InstallInit /\ ReportingInit
    /\ DataDirInit /\ MailInit /\ AddressesInit
    /\ part # "throttle" => watched = Nobody
    /\ part # "fleet" => range = CHOOSE r \in SettingsValues : TRUE
    /\ part # "router" => routed = {} /\ own = {}
    /\ part # "install" => agent = Absent
    /\ part # "reporting" => every = CHOOSE n \in Intervals : TRUE
    /\ part # "data" => given = Missing
    /\ gatewayRange.first = 0 /\ clientRange.last = 7

MCNext ==
    /\ UNCHANGED part
    /\ IF part = "sessions" THEN SessionNext ELSE UNCHANGED sessionVars
    /\ IF part = "throttle" THEN ThrottleNext ELSE UNCHANGED throttleVars
    /\ IF part = "invites" THEN InviteNext ELSE UNCHANGED inviteVars
    /\ IF part = "fleet" THEN FleetNext ELSE UNCHANGED fleetVars
    /\ IF part = "telemetry" THEN TelemetryNext ELSE UNCHANGED telemetryVars
    /\ IF part \in {"checks", "router"} THEN ChecksNext ELSE UNCHANGED checksVars
    /\ part = "checks" => UNCHANGED routed
    /\ part = "router" => asked' <= 1 /\ UNCHANGED now
    /\ IF part = "install" THEN InstallNext ELSE UNCHANGED installVars
    /\ IF part = "reporting" THEN ReportingNext ELSE UNCHANGED reportingVars
    /\ IF part = "data" THEN DataDirNext ELSE UNCHANGED dataDirVars
    /\ IF part = "mail" THEN MailNext ELSE UNCHANGED mailVars
    /\ IF part = "addresses" THEN AddressesNext ELSE UNCHANGED addressVars

MCVars == <<part, sessionVars, throttleVars, inviteVars, fleetVars, telemetryVars,
            checksVars, installVars, reportingVars, dataDirVars, mailVars, addressVars>>

MCSpec == MCInit /\ [][MCNext]_MCVars
=============================================================================
