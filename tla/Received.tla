------------------------------- MODULE Received -------------------------------
(***************************************************************************)
(* What the controller takes from an administrator and a gateway, the files *)
(* it writes from it, and the agent's check of every file it receives       *)
(* (src/core/generate/, src/server/settings.ts, agent/validate.go).         *)
(*                                                                          *)
(* The two sides are written apart: the controller checks values, in        *)
(* TypeScript, and the agent the finished text, in Go, statement by         *)
(* statement, against all that the generator ever writes.  What the one     *)
(* lets through and the other refuses stops a gateway from taking any       *)
(* configuration at all.                                                    *)
(*                                                                          *)
(* The text of a network or address is what the two parsers tell apart: the *)
(* length of its prefix, whether host bits are set, and whether a number in *)
(* it has leading zeros.  Words in double quotes are data to nftables: they *)
(* stand as "quoted" in a statement, and the names apart from it.  A name   *)
(* of an interface with "include" or "masquerade" between hyphens counts as *)
(* that word.  The three files always come together, with the hash the      *)
(* agent computes too, so its checks of that are left out.                  *)
(***************************************************************************)
EXTENDS Integers, Sequences, SequencesExt

CONSTANTS
    NetworkTexts,  \* what is typed for a network
    Numbers,       \* what is typed for a number
    Hosts,         \* what is typed for an endpoint
    InterfaceNames, \* what is typed for the tunnel's interface
    Keys,          \* what a gateway sends as its key: "canonical", "trailing bits", "short"
    Shapes,        \* what the gateway's place in the mesh calls for
    MaxChanges     \* bound on changes

PrefixText == [bits : 0..32, host : BOOLEAN, zeros : BOOLEAN]
Shape == [masquerade : BOOLEAN, self : BOOLEAN, remote : BOOLEAN, relayed : BOOLEAN,
          open : BOOLEAN, restricted : BOOLEAN, inbound : BOOLEAN, outbound : BOOLEAN]

HostKinds == {"address", "name", "with port", "malformed"}

ASSUME ReceivedAssumption ==
    /\ NetworkTexts \subseteq PrefixText /\ Numbers \subseteq Nat /\ Hosts \subseteq HostKinds
    /\ Shapes \subseteq Shape /\ MaxChanges \in Nat

Unset == 0      \* the column is null

VARIABLES
    values,    \* what the controller has stored
    shape,     \* where the gateway stands in the mesh
    answer,    \* the agent's verdict on the files it last fetched
    edited     \* changes so far

receivedVars == <<values, shape, answer, edited>>

Whole == [bits |-> 32, host |-> FALSE, zeros |-> FALSE]

---------------------------------------------------------------------------
(* What the controller takes *)

\* isValidCidr and cidrHasHostBits look at the numbers, whatever their zeros.
ValidLan(t) == ~t.host

\* ^[a-z][a-z0-9_-]{0,14}$, at both ends.
InterfaceForm(name) == name # "malformed"

MtuInRange(n) == n >= 1280 /\ n <= 1500
PortInRange(n) == n >= 1 /\ n <= 65535

AcceptsSetting(field, v) ==
    CASE field = "listenPort" -> PortInRange(v)
      [] field = "mtu" -> MtuInRange(v)
      [] field = "keepalive" -> v >= 1 /\ v <= 3600
      [] field = "interface" -> InterfaceForm(v)

AcceptsGatewayValue(field, v) ==
    CASE field = "endpoint" -> v \notin {"with port", "malformed"}
      [] field = "peerPort" -> v = Unset \/ PortInRange(v)
      [] field = "ownMtu" -> v = Unset \/ MtuInRange(v)

\* The last character of a key of 32 bytes has bits that carry nothing.
IsWgKey(k) == k = "canonical"

Store(field, v) ==
    /\ edited < MaxChanges
    /\ values' = [values EXCEPT ![field] = v]
    /\ edited' = edited + 1
    /\ answer' = "none"
    /\ UNCHANGED shape

AddLan(t) == ValidLan(t) /\ Store("lan", t)
ChangeSetting(field, v) == AcceptsSetting(field, v) /\ Store(field, v)
ChangeGateway(field, v) == AcceptsGatewayValue(field, v) /\ Store(field, v)
GatewayEnrols(k) == IsWgKey(k) /\ Store("key", k)

---------------------------------------------------------------------------
(* The files *)

Line(at, value) == [at |-> at, value |-> value]
When(b, lines) == IF b THEN lines ELSE <<>>

ListenPortOf(v) == IF v.peerPort # Unset THEN v.peerPort ELSE v.listenPort
MtuOf(v) == IF v.ownMtu # Unset THEN v.ownMtu ELSE v.mtu

GenerateGatewayConf(v, sh) ==
    <<Line("Interface.address", [bits |-> 24, host |-> TRUE, zeros |-> FALSE]),
      Line("Interface.listenport", v.listenPort), Line("Interface.mtu", MtuOf(v)),
      Line("Interface.postup", "/etc/opnmesh/private.key")>>
    \o When(sh.remote \/ sh.relayed,
        <<Line("Peer.publickey", v.key)>>
        \o When(v.endpoint # "none", <<Line("Peer.endpoint", [host |-> v.endpoint, port |-> ListenPortOf(v)])>>)
        \o <<Line("Peer.allowedips", {Whole} \union (IF sh.remote THEN {v.lan} ELSE {}))>>
        \o When(sh.outbound, <<Line("Peer.persistentkeepalive", v.keepalive)>>))
    \o When(sh.open \/ sh.restricted,
        <<Line("Peer.publickey", "canonical"), Line("Peer.allowedips", {Whole})>>)

St(words, term) == [words |-> words, term |-> term]
Rule(words) == <<St(words, "\n")>>

SetBlock(name) ==
    <<St(<<"set", name>>, "{"), St(<<"type", "ipv4_addr">>, "\n"), St(<<"flags", "interval">>, "\n"),
      St(<<"elements">>, "{"), St(<<"a network">>, "}"), St(<<>>, "}")>>

Counter(name) == <<St(<<"counter", name>>, "{"), St(<<>>, "}")>>

MssClamp == <<"tcp", "option", "maxseg", "size", "set", "rt", "mtu">>
ForwardHook == <<"type", "filter", "hook", "forward", "priority", "filter">>
NatHook == <<"type", "nat", "hook", "postrouting", "priority", "srcnat">>

Count(src, dst) == Rule(<<"ip", "saddr", src, "ip", "daddr", dst, "counter", "name", "quoted">>)
Between(src, dst) ==
    Rule(<<"iifname", "quoted", "oifname", "quoted", "ip", "saddr", src, "ip", "daddr", dst, "accept">>)

Clamp == Rule(<<"oifname", "quoted", "tcp", "flags", "syn">> \o MssClamp)

ForwardChain(sh) ==
    <<St(<<"chain", "forward">>, "{"), St(ForwardHook, ";"), St(<<"policy", "drop">>, ";")>>
    \o Rule(<<"iifname", "quoted", "oifname", "quoted", "accept">>)
    \o When(sh.self /\ sh.remote, Count("@lan_self", "@lan_other"))
    \o When(sh.self, Count("@clients", "@lan_self") \o Count("@lan_self", "@clients"))
    \o Rule(<<"ct", "state", "established", "related", "accept">>) \o Rule(<<"ct", "state", "invalid", "drop">>)
    \o Clamp
    \o When(sh.inbound, Rule(<<"oifname", "quoted", "ip", "daddr", "a client", "accept">>))
    \o Rule(<<"oifname", "quoted", "ip", "daddr", "@clients", "ct", "state", "new", "drop">>)
    \o When(sh.self /\ sh.remote, Between("@lan_self", "@lan_other") \o Between("@lan_other", "@lan_self"))
    \o When(sh.relayed, Between("@lan_other", "@lan_third") \o Between("@lan_third", "@lan_other"))
    \o When(sh.self /\ sh.open, Between("@clients_open", "@lan_self"))
    \o When(sh.self /\ sh.restricted, Between("a client", "@lan_self"))
    \o When(sh.relayed /\ sh.open, Between("@clients_open", "@lan_other"))
    \o <<St(<<>>, "}")>>

GenerateNftables(sh) ==
    <<St(<<"table", "inet", "opnmesh">>, "{"), St(<<>>, "}"),
      St(<<"delete", "table", "inet", "opnmesh">>, "\n"), St(<<"table", "inet", "opnmesh">>, "{")>>
    \o When(sh.self, SetBlock("lan_self")) \o When(sh.remote \/ sh.relayed, SetBlock("lan_other"))
    \o When(sh.relayed, SetBlock("lan_third"))
    \o SetBlock("clients") \o When(sh.open, SetBlock("clients_open"))
    \o When(sh.remote, Counter("c4_self_to_other") \o Counter("c5_other_to_self"))
    \o Counter("clients_to_self") \o Counter("clients_from_self")
    \o ForwardChain(sh)
    \o When(sh.masquerade,
        <<St(<<"chain", "postrouting">>, "{"), St(NatHook, ";"), St(<<"policy", "accept">>, ";")>>
        \o Rule(<<"iifname", "quoted", "oifname", "quoted", "masquerade">>) \o <<St(<<>>, "}")>>)
    \o <<St(<<>>, "}")>>

GenerateSysctl == <<Line("net.ipv4.ip_forward", "1")>>

\* The files are kept back while a value in them is wrong: read off the
\* WireGuard file again, or off any line that speaks of NAT.
Held(v, sh) ==
    \/ ~MtuInRange(MtuOf(v)) \/ ~PortInRange(ListenPortOf(v)) \/ ~IsWgKey(v.key)
    \/ v.lan.host \/ v.endpoint = "with port"
    \/ sh.remote /\ v.lan.bits < 8
    \/ ~sh.masquerade /\ v.interface \in {"masquerade", "snat"}

---------------------------------------------------------------------------
(* The agent's check: the WireGuard file and the kernel's settings *)

CheckNumber(n, lo, hi) == n >= lo /\ n <= hi

\* Go's netip takes no number with leading zeros.
ParsePrefix(t) == ~t.zeros
CheckPrefixes(t) == ParsePrefix(t)
CheckAllowedIPs(ts) == \A t \in ts : ParsePrefix(t) /\ t.bits >= 8 /\ ~t.host

CheckEndpoint(e) == e.host \in {"address", "name"} /\ CheckNumber(e.port, 1, 65535)

CheckLine(l) ==
    CASE l.at = "Interface.address" -> CheckPrefixes(l.value)
      [] l.at = "Interface.listenport" -> CheckNumber(l.value, 1, 65535)
      [] l.at = "Interface.mtu" -> CheckNumber(l.value, 68, 65535)
      [] l.at = "Interface.postup" -> l.value = "/etc/opnmesh/private.key"
      [] l.at = "Peer.publickey" -> l.value = "canonical"
      [] l.at = "Peer.allowedips" -> CheckAllowedIPs(l.value)
      [] l.at = "Peer.endpoint" -> CheckEndpoint(l.value)
      [] l.at = "Peer.persistentkeepalive" -> CheckNumber(l.value, 0, 65535)
      [] OTHER -> FALSE

ValidateWireGuard(file) == \A i \in DOMAIN file : CheckLine(file[i])
ParseSysctl(file) == \A i \in DOMAIN file : file[i].at = "net.ipv4.ip_forward" /\ file[i].value \in {"0", "1"}

---------------------------------------------------------------------------
(* The agent's check: the firewall *)

NftForbidden == {"dnat", "snat", "redirect", "tproxy", "queue", "notrack", "dup", "fwd", "flow",
                 "flowtable", "offload", "synproxy", "define", "redefine", "undefine"}

\* The word at i is the "set" of the MSS clamp.
IsMSSClamp(words, i) ==
    i >= 5 /\ i + 2 <= Len(words) /\ SubSeq(words, i - 4, i + 2) = MssClamp

\* (mutant: "flags" is looked for anywhere in a statement)
CheckWordAnywhere(s, i, stack) ==
    LET w == s.words[i] inner == Last(stack) IN
    /\ w \notin NftForbidden
    /\ w = "flags" => inner.kind \in {"set", "map"}

CheckWord(s, i, stack) ==
    LET w == s.words[i]
        inner == Last(stack)
        chain == SelectLastInSeq(stack, LAMBDA b : b.kind = "chain")
    IN  /\ w \notin NftForbidden
        /\ w = "set" =>
             \/ i = 1 /\ Len(s.words) = 2 /\ s.term = "{" /\ inner.kind = "table"
             \/ IsMSSClamp(s.words, i)
        /\ w = "masquerade" => chain # 0 /\ stack[chain].hook = NatHook
        /\ w = "flags" /\ i = 1 => inner.kind \in {"set", "map"}
        /\ w = "policy" /\ i = 1 => inner.kind = "chain" /\ Len(s.words) = 2

CheckHook(s, stack) ==
    "hook" \in {s.words[i] : i \in DOMAIN s.words} =>
        /\ Last(stack).kind = "chain" /\ Last(stack).hook = <<>>
        /\ s.words \in {ForwardHook, NatHook}

\* At the top level only the generated table, made, deleted and made again.
CheckNftStatement(s, stack) ==
    IF stack = <<>>
    THEN <<s.words, s.term>> \in {<<<<"table", "inet", "opnmesh">>, "{">>,
                                  <<<<"delete", "table", "inet", "opnmesh">>, "\n">>}
    ELSE (\A i \in DOMAIN s.words : CheckWord(s, i, stack)) /\ CheckHook(s, stack)

\* What the statement says of the block it is in.
Noting(s, stack) ==
    IF stack = <<>> \/ s.words = <<>> THEN stack
    ELSE LET top == Len(stack) IN
         IF s.words[1] = "policy" THEN [stack EXCEPT ![top].policy = s.words[2]]
         ELSE IF "hook" \in {s.words[i] : i \in DOMAIN s.words} THEN [stack EXCEPT ![top].hook = s.words]
         ELSE stack

Block(s, stack) ==
    [kind |-> IF stack # <<>> /\ s.words # <<>> THEN s.words[1] ELSE "table", hook |-> <<>>, policy |-> "none"]

ReadStatement(r, s) ==
    IF ~r.ok \/ ~CheckNftStatement(s, r.stack) THEN [r EXCEPT !.ok = FALSE]
    ELSE LET stack == Noting(s, r.stack) IN
         CASE s.term = "{" -> [r EXCEPT !.stack = Append(stack, Block(s, stack))]
           [] s.term = "}" ->
                LET forward == stack # <<>> /\ Last(stack).hook = ForwardHook IN
                [stack |-> IF stack = <<>> THEN stack ELSE Front(stack),
                 ok |-> stack # <<>> /\ (forward => Last(stack).policy = "drop"),
                 filters |-> r.filters \/ forward]
           [] OTHER -> [r EXCEPT !.stack = stack]

CheckNftBody(file) == FoldLeft(ReadStatement, [stack |-> <<>>, ok |-> TRUE, filters |-> FALSE], file)

\* "include" is looked for as a word of the text, in quotes too.
ValidateNftables(file, quoted) ==
    LET r == CheckNftBody(file) IN "include" \notin quoted /\ r.ok /\ r.stack = <<>>

NftFiltersForwarding(file) == LET r == CheckNftBody(file) IN r.ok /\ r.filters

ValidateFiles(v, sh) ==
    /\ ValidateWireGuard(GenerateGatewayConf(v, sh))
    /\ ParseSysctl(GenerateSysctl)
    /\ ValidateNftables(GenerateNftables(sh), {v.interface})

---------------------------------------------------------------------------
(* A gateway asks for its configuration and reads it *)

\* The names of the three files: an interface of that name would have its
\* configuration written over one of them.
ManagedNames == {"wireguard", "nftables", "sysctl"}
ValidInterfaceName(name) == InterfaceForm(name) /\ name \notin ManagedNames

FetchAndCheck ==
    /\ answer = "none" /\ ~Held(values, shape)
    /\ answer' = IF ~ValidInterfaceName(values.interface) \/ ~ValidateFiles(values, shape) THEN "refused"
                 ELSE IF ~NftFiltersForwarding(GenerateNftables(shape)) THEN "unfiltered" ELSE "accepted"
    /\ UNCHANGED <<values, shape, edited>>

ReceivedInit ==
    /\ values = [lan |-> [bits |-> 24, host |-> FALSE, zeros |-> FALSE], endpoint |-> "none",
                 listenPort |-> 51820, peerPort |-> Unset, mtu |-> 1420, ownMtu |-> Unset,
                 keepalive |-> 25, interface |-> "opnmesh0", key |-> "canonical"]
    /\ shape \in Shapes /\ answer = "none" /\ edited = 0

ReceivedNext ==
    \/ \E t \in NetworkTexts : AddLan(t)
    \/ \E n \in Numbers : \/ \E f \in {"listenPort", "mtu", "keepalive"} : ChangeSetting(f, n)
                          \/ \E f \in {"peerPort", "ownMtu"} : ChangeGateway(f, n)
    \/ \E h \in Hosts : ChangeGateway("endpoint", h)
    \/ \E name \in InterfaceNames : ChangeSetting("interface", name)
    \/ \E k \in Keys : GatewayEnrols(k)
    \/ FetchAndCheck

ReceivedSpec == ReceivedInit /\ [][ReceivedNext]_receivedVars

---------------------------------------------------------------------------
(* Properties *)

\* What the agent does refuse of what the controller takes and hands out: a
\* network of another site that was typed with a leading zero, and four names.
LeadingZero == shape.remote /\ values.lan.zeros
RefusedName == values.interface \in ManagedNames \union {"include"}

\* Whatever the controller takes and does not hold back, in every place in the
\* mesh and layout, the agent accepts, and finds that it filters forwarding,
\* but for those, which no gateway that gets them takes (settings.ts:101 and
\* ip.ts:9 against apply.go:63 and validate.go:190, 335).
RefusedAsKnown == answer # "none" => (answer # "accepted" <=> LeadingZero \/ RefusedName)

\* All of it is accepted: the agent's rules are what "the generator writes"
\* (validate.go:3-7, 182-184).
GeneratedIsAccepted == answer \in {"none", "accepted"}
=============================================================================
