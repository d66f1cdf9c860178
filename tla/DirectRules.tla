----------------------------- MODULE DirectRules -----------------------------
(* The rules of app-config.json for connections that leave directly. A rule   *)
(* comes as lists of texts, of which some cannot be read; what was read is    *)
(* kept, and the packet path compares every new connection with it.           *)
EXTENDS Integers, Sequences, FiniteSets
LOCAL INSTANCE SequencesExt

CONSTANTS
  PortNumber,      \* the ports of a destination
  App,             \* the processes
  AddressBits,     \* the width of an IPv4 address
  AppText,         \* names and paths, each as the processes that contain it
  CidrText,        \* IPv4 networks: an address and the prefix behind its slash
  NoSlash,         \* the prefix of a single address
  Bad,             \* a text that is empty or cannot be read
  MaxTexts,        \* bound: texts in a list of a rule
  MaxRules         \* bound: rules in the configuration

ASSUME DirectRulesAssumption ==
  /\ PortNumber \subseteq Nat /\ MaxRules \in Nat /\ AddressBits \in Nat \ {0}
  /\ AppText \subseteq SUBSET App
  /\ CidrText \subseteq [address : SUBSET (1 .. AddressBits), prefix : Nat \cup {NoSlash}]

\* The bits of an address, the highest one first
Bit == 1 .. AddressBits

\* An address is the set of its bits that are 1.
RemoteHost == SUBSET Bit

\* Two ports with a dash between them, in either order; one port is a range too.
PortText == PortNumber \X PortNumber

\* A list of a rule; its order is of no consequence.
ListOf(S) == {T \in SUBSET S : Cardinality(T) <= MaxTexts}

RuleText == [networks : ListOf({"tcp", "udp", "both", "other"}),
             apps  : ListOf(AppText),
             ports : ListOf(PortText \cup {Bad}),
             hosts : ListOf(CidrText)]

VARIABLES
  texts,       \* the rules of the configuration so far
  rules        \* destination_direct_rules_

ruleVars == <<texts, rules>>

RulesInit == texts = <<>> /\ rules = <<>>

Readable(S) == S \ {Bad}

\* Mutant: the ports of a range are taken in the order they are written.
RangeAsWritten(text) == [from |-> text[1], to |-> text[2]]

\* parse_port_range
PortRange(text) ==
  IF text[1] > text[2] THEN [from |-> text[2], to |-> text[1]]
                       ELSE [from |-> text[1], to |-> text[2]]

Matched(networks, protocol) == networks = {} \/ networks \cap {protocol, "both"} # {}

\* The loop of from_cidr: all bits of the mask one to the right, and the highest
\* one is set.
NetMask[n \in Nat] ==
  IF n = 0 THEN {} ELSE ({b + 1 : b \in NetMask[n - 1]} \cap Bit) \cup {1}

\* ip_subnet::from_cidr; a prefix that is too long makes no subnet.
FromCidr(text) ==
  IF text.prefix = NoSlash THEN {[address |-> text.address, mask |-> Bit]}
  ELSE IF text.prefix > AddressBits THEN {}
  ELSE {[address |-> text.address, mask |-> NetMask[text.prefix]]}

\* add_destination_direct_rule: a list of which nothing could be read is as
\* good as a list that was not given.
ParsedRule(text) ==
  [tcp   |-> Matched(text.networks, "tcp"),
   udp   |-> Matched(text.networks, "udp"),
   apps  |-> text.apps,
   ports |-> {PortRange(p) : p \in Readable(text.ports)},
   hosts |-> UNION {FromCidr(h) : h \in text.hosts}]

AddRule(text) ==
  /\ Len(texts) < MaxRules
  /\ texts' = Append(texts, text)
  /\ LET rule == ParsedRule(text)
     IN  rules' = IF rule.tcp \/ rule.udp THEN Append(rules, rule) ELSE rules

RulesNext == \E text \in RuleText : AddRule(text)

RulesSpec == RulesInit /\ [][RulesNext]_ruleVars

NewConnection == [protocol : {"tcp", "udp"}, app : App, port : PortNumber, host : RemoteHost]

MatchesProcess(rule, c) == rule.apps = {} \/ \E S \in rule.apps : c.app \in S
MatchesPort(rule, c) == rule.ports = {} \/ \E r \in rule.ports : r.from <= c.port /\ c.port <= r.to

\* ip_subnet::address_in_subnet
AddressInSubnet(host, net) == host \cap net.mask = net.address \cap net.mask

MatchesCidr(rule, c) == rule.hosts = {} \/ \E net \in rule.hosts : AddressInSubnet(c.host, net)

\* match_destination_direct_rule
MatchesDirectRule(c) ==
  \E rule \in ToSet(rules) :
    /\ IF c.protocol = "tcp" THEN rule.tcp ELSE rule.udp
    /\ MatchesProcess(rule, c) /\ MatchesPort(rule, c) /\ MatchesCidr(rule, c)

-----------------------------------------------------------------------------
RulesTypeOK ==
  /\ Len(rules) <= Len(texts) /\ Len(texts) <= MaxRules
  /\ \A rule \in ToSet(rules) : \A r \in rule.ports : r.from <= r.to

\* The list says nothing that can be read, or one of its texts covers it.
Names(readable, Covers(_)) == readable # {} => \E text \in readable : Covers(text)

\* The addresses that agree in the bits of the prefix; none for a text that is
\* not an IPv4 network.
Network(text) ==
  IF text.prefix = NoSlash THEN {text.address}
  ELSE IF text.prefix > AddressBits THEN {}
  ELSE {h \in RemoteHost : \A b \in 1 .. text.prefix : b \in h <=> b \in text.address}

Says(text, c) ==
  /\ text.networks # {} => text.networks \cap {c.protocol, "both"} # {}
  /\ Names(text.apps, LAMBDA S : c.app \in S)
  /\ Names({Network(h) : h \in text.hosts} \ {{}}, LAMBDA S : c.host \in S)
  /\ Names(Readable(text.ports), LAMBDA p : \/ p[1] <= c.port /\ c.port <= p[2]
                                            \/ p[2] <= c.port /\ c.port <= p[1])

\* add_destination_direct_rule and match_destination_direct_rule: a connection
\* leaves directly exactly when one of the rules of the configuration says so,
\* read on its own: no rule that is refused, unreadable in part or added later
\* changes what another one lets out.
DirectAsConfigured ==
  \A c \in NewConnection : MatchesDirectRule(c) <=> \E text \in ToSet(texts) : Says(text, c)

=============================================================================
