------------------------------ MODULE MCDevices ------------------------------
(***************************************************************************)
(* Instances of Devices for TLC: lease files with blocks of two addresses  *)
(* and of none, the other formats, and any ARP table, as SourceFiles reads *)
(* them.                                                                   *)
(***************************************************************************)
EXTENDS SourceFiles, TLC

CONSTANTS
  leased, other,    \* the addresses files mention
  own, others, bad  \* names of their devices, and of a lease that does not parse

NameHomes == [n \in Names |-> CASE n = own -> leased [] n = others -> other [] OTHER -> NoName]

Kind(kind) == [kind |-> kind]

LeaseLines ==
  {Kind("}"), Kind("bad lease")}
    \cup {[kind |-> "lease", addr |-> a] : a \in {leased, other}}
    \cup {[kind |-> "client-hostname", name |-> name] : name \in {own, bad}}
    \cup {[kind |-> "hostname", name |-> others]}
    \cup {[kind |-> "hardware", mac |-> mac] : mac \in Macs}

FilesOf(lines, length) == UNION {[1 .. n -> lines] : n \in 0 .. length}

\* Rows for one address, in the other formats.
Rows(addr, names, macs) ==
  {Kind("other")} \cup {[kind |-> "row", addr |-> addr, name |-> name, mac |-> mac] :
                         name \in names, mac \in macs}

\* At most one address at a time: its name or none, any hardware address or none.
FileReads ==
  {parseDHCPDLeases(file) : file \in {f \in FilesOf(LeaseLines, 5) : NamesInPlace(f)}}
    \cup {parseDnsmasqLeases(file) :
            file \in FilesOf(Rows(leased, {own, NoName}, Macs \cup {NoMac}), 2)}
    \cup {parseHosts(file) : file \in FilesOf(Rows(other, {others}, {NoMac}), 2)}

ARPRows == UNION {Rows(a, {NoName}, Macs) : a \in Addrs}

\* Every table of hardware addresses.
ARPReads == {readARP(<<Kind("other")>> \o file) : file \in FilesOf(ARPRows, Cardinality(Addrs))}

\* Hardware addresses are interchangeable.
Symmetry == Permutations(Macs)
=============================================================================
