------------------------------- MODULE Console -------------------------------
(***************************************************************************)
(* Linking a site to its UniFi console: the form (src/ui/site/unifi-        *)
(* panel.tsx), the probe and the link (src/server/unifi/index.ts), and      *)
(* which console a client talks to (src/server/unifi/client.ts).            *)
(*                                                                          *)
(* A console is reached under an address and shows a certificate; it may be *)
(* renewed or replaced at any moment.  A certificate is publicly trusted    *)
(* for some addresses, or for none (self-signed).  The probe fetches it     *)
(* with one connection and checks the credentials over others; the form's   *)
(* fields can be edited while its answer is awaited and after it.           *)
(* Expiry dates and plain http (tests only) are left out.                   *)
(***************************************************************************)
EXTENDS Naturals

CONSTANTS
    Hosts, Certificates,
    Public,          \* pairs: a certificate the system's CAs vouch for, and its host name
    FirstShown,      \* what consoles show at first
    MaxRenewals,     \* bound: changes of a console's certificate
    MaxProbes,       \* bound: tests of a connection
    NoCert           \* none

ASSUME ConsoleAssumption ==
    /\ Public \subseteq Certificates \X Hosts /\ NoCert \notin Certificates
    /\ FirstShown \subseteq [Hosts -> Certificates]
    /\ MaxRenewals \in Nat /\ MaxProbes \in Nat

VARIABLES
    shows,       \* the certificate of the console at each address
    form,        \* LinkForm's state
    probing,     \* a probe under way
    siteLink,    \* the site's row
    syncing,     \* the client of a pass, made from the row as it was
    confirmed,   \* history: certificates the admin pressed "Trust" for
    vouched,     \* history: those that were publicly trusted where a probe found them
    gave,        \* history: where the credentials went last, and to what certificate
    renewals, probes

consoleVars == <<shows, form, probing, siteLink, syncing, confirmed, vouched, gave, renewals, probes>>

Certs == Certificates \union {NoCert}

\* fresh (history): the address was tested, and since then neither it nor the
\* console's own certificate has changed.
NoForm == [open |-> FALSE, addr |-> NoCert, probed |-> NoCert, public |-> FALSE,
           identity |-> FALSE, trusted |-> NoCert, fresh |-> FALSE]
NoProbe == [at |-> "none", addr |-> NoCert, trust |-> NoCert, cert |-> NoCert,
            identity |-> FALSE, fresh |-> FALSE]
NoLink == [addr |-> NoCert, pin |-> NoCert, fresh |-> FALSE]
NoClient == [addr |-> NoCert, pin |-> NoCert]

ConsoleInit ==
    /\ shows \in FirstShown
    /\ form = NoForm /\ probing = NoProbe /\ siteLink = NoLink /\ syncing = NoClient
    /\ confirmed = {} /\ vouched = {} /\ gave = NoClient
    /\ renewals = 0 /\ probes = 0

---------------------------------------------------------------------------
(* Connections *)

SystemTrusted(c, a) == <<c, a>> \in Public

\* A pinned client takes this certificate and no other, under whatever name;
\* one without a pin what the system's CAs and the host name allow.
Connects(pin, a) == IF pin # NoCert THEN shows[a] = pin ELSE SystemTrusted(shows[a], a)

\* A request, which carries the credentials, over a new connection.
Credentials(pin, a) ==
    gave' = IF Connects(pin, a) THEN [addr |-> a, pin |-> shows[a]] ELSE gave

---------------------------------------------------------------------------
(* The form *)

NeedsTrust == form.probed # NoCert /\ ~form.public /\ form.trusted # form.probed
Verified == form.identity

OpenForm(a) ==
    /\ ~form.open
    /\ siteLink = NoLink \/ a = siteLink.addr
    /\ form' = [NoForm EXCEPT !.open = TRUE, !.addr = a, !.trusted = siteLink.pin]
    /\ UNCHANGED <<shows, probing, siteLink, syncing, confirmed, vouched, gave, renewals, probes>>

\* At any time; what was found at the address before stays.
EditAddress(a) ==
    /\ form.open /\ a # form.addr
    /\ form' = [form EXCEPT !.addr = a, !.fresh = FALSE]
    /\ UNCHANGED <<shows, probing, siteLink, syncing, confirmed, vouched, gave, renewals, probes>>

CancelForm ==
    /\ form.open /\ siteLink # NoLink
    /\ form' = NoForm
    /\ UNCHANGED <<shows, probing, siteLink, syncing, confirmed, vouched, gave, renewals, probes>>

DoProbe(trust) ==
    /\ form.open /\ probing = NoProbe
    /\ probes < MaxProbes /\ probes' = probes + 1
    /\ probing' = [NoProbe EXCEPT !.at = "sent", !.addr = form.addr, !.trust = trust]
    /\ UNCHANGED <<shows, form, siteLink, syncing, vouched, gave, renewals>>

TestConnection == ~Verified /\ DoProbe(form.trusted) /\ UNCHANGED confirmed

TrustCertificate ==
    /\ NeedsTrust /\ DoProbe(form.probed)
    /\ confirmed' = confirmed \union {form.probed}

\* The answer reaches the form, if it is still there, or is lost on the way.
ProbeAnswered ==
    /\ probing.at \in {"answered", "threw"}
    /\ LET p == probing
           public == SystemTrusted(p.cert, p.addr)
       IN  form' = IF ~form.open \/ p.at = "threw" THEN form
                   ELSE [form EXCEPT !.probed = p.cert, !.public = public, !.identity = p.identity,
                           !.trusted = IF public \/ p.trust = p.cert THEN p.cert ELSE @,
                           !.fresh = p.fresh /\ p.identity /\ p.addr = form.addr]
    /\ probing' = NoProbe
    /\ UNCHANGED <<shows, siteLink, syncing, confirmed, vouched, gave, renewals, probes>>

ProbeLost ==
    /\ probing # NoProbe
    /\ probing' = [probing EXCEPT !.at = "threw"]
    /\ UNCHANGED <<shows, form, siteLink, syncing, confirmed, vouched, gave, renewals, probes>>

---------------------------------------------------------------------------
(* The probe *)

\* (mutant: any fingerprint will do)
TrustedAny(p, cert) == SystemTrusted(cert, p.addr) \/ p.trust # NoCert

\* The credentials are sent only once the certificate is trusted or confirmed.
Trusted(p, cert) == SystemTrusted(cert, p.addr) \/ p.trust = cert

\* fetchConsoleCertificate: over a connection that checks nothing.
FetchConsoleCertificate ==
    /\ probing.at = "sent"
    /\ LET cert == shows[probing.addr] IN
         /\ probing' = [probing EXCEPT !.cert = cert, !.fresh = TRUE,
                          !.at = IF Trusted(probing, cert) THEN "trusted" ELSE "answered"]
         /\ vouched' = IF SystemTrusted(cert, probing.addr) THEN vouched \union {cert} ELSE vouched
    /\ UNCHANGED <<shows, form, siteLink, syncing, confirmed, gave, renewals, probes>>

\* login and whoami: requests of a client pinned to what was just fetched, unless
\* the system vouches for it.  Any of them may be the last; only all of them
\* answered give an identity.
CheckCredentials ==
    /\ probing.at = "trusted"
    /\ LET a == probing.addr
           pin == IF SystemTrusted(probing.cert, a) THEN NoCert ELSE probing.cert
       IN  /\ Credentials(pin, a)
           /\ \/ Connects(pin, a) /\ UNCHANGED probing
              \/ \E ok \in BOOLEAN :
                   /\ ok => Connects(pin, a)
                   /\ probing' = [probing EXCEPT !.at = "answered", !.identity = ok]
    /\ UNCHANGED <<shows, form, siteLink, syncing, confirmed, vouched, renewals, probes>>

---------------------------------------------------------------------------
(* The link *)

\* (mutant: a certificate is pinned whoever vouches for it)
PinToSaveAlways(f) == f.probed

\* The form's certMode, and checkPin.
PinToSave(f) == IF f.public THEN NoCert ELSE f.probed

\* PUT, at the address the form has now.  The answer closes the form, or is lost.
SaveForm ==
    /\ form.open /\ Verified /\ probing = NoProbe
    /\ siteLink' = [addr |-> form.addr, pin |-> PinToSave(form), fresh |-> form.fresh]
    /\ form' \in {NoForm, form}
    /\ UNCHANGED <<shows, probing, syncing, confirmed, vouched, gave, renewals, probes>>

\* clientFor: a pass, a sync by hand or an unlink makes its client of the row.
ClientFor ==
    /\ siteLink # NoLink /\ syncing = NoClient
    /\ syncing' = [addr |-> siteLink.addr, pin |-> siteLink.pin]
    /\ UNCHANGED <<shows, form, probing, siteLink, confirmed, vouched, gave, renewals, probes>>

\* A request of it; after one that fails, or when it is through, it is dropped.
SyncRequest ==
    /\ syncing # NoClient
    /\ Credentials(syncing.pin, syncing.addr)
    /\ \/ Connects(syncing.pin, syncing.addr) /\ UNCHANGED syncing
       \/ syncing' = NoClient
    /\ UNCHANGED <<shows, form, probing, siteLink, confirmed, vouched, renewals, probes>>

RemoveLink ==
    /\ siteLink # NoLink
    /\ siteLink' = NoLink
    /\ UNCHANGED <<shows, form, probing, syncing, confirmed, vouched, gave, renewals, probes>>

---------------------------------------------------------------------------

\* A console is renewed, replaced or moved.  Another publicly trusted
\* certificate in place of one is a renewal; anything else ends what was tested.
ConsoleChanges(a, c) ==
    /\ c # shows[a]
    /\ renewals < MaxRenewals /\ renewals' = renewals + 1
    /\ shows' = [shows EXCEPT ![a] = c]
    /\ LET renewed == SystemTrusted(shows[a], a) /\ SystemTrusted(c, a)
           Still(x) == IF x.addr = a /\ ~renewed THEN [x EXCEPT !.fresh = FALSE] ELSE x
       IN  form' = Still(form) /\ probing' = Still(probing) /\ siteLink' = Still(siteLink)
    /\ UNCHANGED <<syncing, confirmed, vouched, gave, probes>>

ConsoleNext ==
    \/ \E a \in Hosts : OpenForm(a) \/ EditAddress(a) \/ \E c \in Certificates : ConsoleChanges(a, c)
    \/ CancelForm \/ TestConnection \/ TrustCertificate \/ ProbeAnswered \/ ProbeLost
    \/ FetchConsoleCertificate \/ CheckCredentials
    \/ SaveForm \/ ClientFor \/ SyncRequest \/ RemoveLink

ConsoleSpec == ConsoleInit /\ [][ConsoleNext]_consoleVars

---------------------------------------------------------------------------
(* Properties *)

\* Whatever is edited, renewed or replaced between the probe, the confirmation,
\* the saving and a pass, the credentials only reach a console whose certificate
\* the admin has confirmed or a probe has found publicly trusted, or which is
\* publicly trusted under the address they are meant for (client.ts:12-17).
\* And a link saved as it was tested connects, through the renewals of a public
\* certificate, for as long as the console keeps its own (client.ts:15-17,
\* unifi-panel.tsx:172).
TrustIsKept ==
    /\ gave # NoClient =>
         gave.pin \in confirmed \union vouched \/ SystemTrusted(gave.pin, gave.addr)
    /\ siteLink.fresh => Connects(siteLink.pin, siteLink.addr)
=============================================================================
