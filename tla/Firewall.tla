------------------------------- MODULE Firewall -------------------------------
(***************************************************************************)
(* The firewall's rules: how they are read from a file or from the table,  *)
(* the decision of Firewall, which scans them, and of IndexedFirewall,     *)
(* which groups them by source.                                            *)
(*                                                                         *)
(* An address has Bits bits.  A network is what its mask leaves of an      *)
(* address, the first bits.  Nil stands for a nil network and a nil IP.    *)
(* The state is the table of rules, to which an operator adds rows.        *)
(***************************************************************************)
EXTENDS Integers, Sequences, Lists

CONSTANTS
    Bits,       \* width of an address
    Nil,
    Ends,       \* what the columns of a row may hold for one end of a rule
    Addresses,  \* a list to filter; Nil is an address whose host is no IP
    MaxRules    \* most rows

IPs == [1..Bits -> {0, 1}]

Networks == UNION {[1..len -> {0, 1}] : len \in 0..Bits}

ASSUME FirewallAssumption ==
    /\ Bits \in Nat
    /\ Nil \notin IPs \cup Networks
    /\ Ends \subseteq [network : Networks \cup {Nil}, ip : IPs \cup {Nil}]
    /\ Addresses \in Seq(IPs \cup {Nil})
    /\ MaxRules \in Nat

\* What ParseCIDR makes of ip/len.
Network(ip, len) == [b \in 1..len |-> ip[b]]

\* net.IPNet.Contains; a nil IP is in no network, and nothing is in a nil one.
InNetwork(network, ip) ==
    ip # Nil /\ network # Nil /\ \A b \in DOMAIN network : ip[b] = network[b]

-----------------------------------------------------------------------------
\* One end of a rule: parseRule reads a text with a slash as a network and
\* any other as an address.  A text has what it parses to either way.
parseEnd(text) ==
    IF text.slash THEN [network |-> text.network, ip |-> Nil]
    ELSE [network |-> Nil, ip |-> text.ip]

Unparsed == [network |-> Nil, ip |-> Nil]

\* LoadFromFile, without comments and blank lines: an end that does not parse
\* fails the whole file.
LoadFromFile(lines) ==
    LET rules == [i \in DOMAIN lines |->
            [source |-> parseEnd(lines[i].source), dest |-> parseEnd(lines[i].dest)]]
    IN  IF \E i \in DOMAIN lines : Unparsed \in {rules[i].source, rules[i].dest}
        THEN [err |-> TRUE, rules |-> <<>>]
        ELSE [err |-> FALSE, rules |-> rules]

\* Mutation: the address wins.
columnsEndIPFirst(row) ==
    IF row.ip # Nil THEN [network |-> Nil, ip |-> row.ip]
    ELSE [network |-> row.network, ip |-> Nil]

\* The columns of a row for one end: the network wins, and a row may have
\* neither.
columnsEnd(row) ==
    IF row.network # Nil THEN [network |-> row.network, ip |-> Nil]
    ELSE [network |-> Nil, ip |-> row.ip]

DatabaseRules(table) ==
    [i \in DOMAIN table |->
        [source |-> columnsEnd(table[i].source), dest |-> columnsEnd(table[i].dest)]]

-----------------------------------------------------------------------------
\* Firewall: the linear scan.  A nil IP equals a nil IP.
matches(end, ip) ==
    IF end.network # Nil THEN InNetwork(end.network, ip) ELSE end.ip = ip

IsAllowed(rules, source, dest) ==
    \/ rules = <<>>
    \/ \E i \in DOMAIN rules :
          matches(rules[i].source, source) /\ matches(rules[i].dest, dest)

\* Addresses whose host is no IP are skipped once there are rules.
FilterAddresses(rules, source, addresses) ==
    IF rules = <<>> THEN addresses
    ELSE Subsequence(addresses,
            {i \in DOMAIN addresses :
                addresses[i] # Nil /\ IsAllowed(rules, source, addresses[i])})

-----------------------------------------------------------------------------
\* IndexedFirewall: source networks to the networks their rules allow.  A
\* single address is the network of full length; a nil address has a key
\* that does not parse and a network that contains nothing.
ipToNetwork(ip) == IF ip = Nil THEN Nil ELSE Network(ip, Bits)

networkOf(end) == IF end.network # Nil THEN end.network ELSE ipToNetwork(end.ip)

\* Mutation: a later rule replaces the earlier ones of its source.
lastRuleIndex(rules) ==
    LET keys == {networkOf(rules[i].source) : i \in DOMAIN rules}
        last(key) == CHOOSE i \in DOMAIN rules :
            /\ networkOf(rules[i].source) = key
            /\ \A j \in (i + 1)..Len(rules) : networkOf(rules[j].source) # key
    IN  [key \in keys |-> {networkOf(rules[last(key)].dest)}]

rebuildIndex(rules) ==
    LET keys == {networkOf(rules[i].source) : i \in DOMAIN rules}
    IN  [key \in keys |-> {networkOf(rules[i].dest) :
            i \in {j \in DOMAIN rules : networkOf(rules[j].source) = key}}]

IndexAllows(index, source, dest) ==
    \/ DOMAIN index = {}
    \/ \E key \in DOMAIN index :
          /\ InNetwork(key, source)
          /\ \E destNet \in index[key] : InNetwork(destNet, dest)

\* filterAddressHelper for every address.
IndexFilter(index, source, addresses) ==
    IF DOMAIN index = {} THEN addresses
    ELSE Subsequence(addresses,
            {i \in DOMAIN addresses :
                addresses[i] # Nil /\ IndexAllows(index, source, addresses[i])})

-----------------------------------------------------------------------------
\* The table of rules.
VARIABLE rows

FirewallInit == rows = <<>>

AddRow ==
    /\ Len(rows) < MaxRules
    /\ \E s, d \in Ends : rows' = Append(rows, [source |-> s, dest |-> d])

FirewallSpec == FirewallInit /\ [][AddRow]_rows

\* The index of IndexedFirewall decides like the scan of Firewall, rules
\* without an address or with the same source under another spelling
\* included, and both filters keep the same addresses.
IndexMatchesScan ==
    LET rules == DatabaseRules(rows)
        index == rebuildIndex(rules)
    IN  \A source \in IPs :
           /\ \A dest \in IPs :
                 IndexAllows(index, source, dest) = IsAllowed(rules, source, dest)
           /\ IndexFilter(index, source, Addresses)
                 = FilterAddresses(rules, source, Addresses)

\* The columns of a row as a text in the rules file; with neither column the
\* text does not parse.
Text(end) ==
    [slash |-> end.network # Nil, network |-> end.network, ip |-> end.ip]

\* Rules mean the same from either source, except that a file with an end
\* that is missing is refused, where such a row is loaded and matches nothing.
SourcesAgree ==
    LET file == LoadFromFile([i \in DOMAIN rows |->
            [source |-> Text(rows[i].source), dest |-> Text(rows[i].dest)]])
        table == DatabaseRules(rows)
    IN  IF file.err
        THEN \E i \in DOMAIN rows : \A s, d \in IPs : ~IsAllowed(<<table[i]>>, s, d)
        ELSE \A s, d \in IPs : IsAllowed(file.rules, s, d) = IsAllowed(table, s, d)
=============================================================================
