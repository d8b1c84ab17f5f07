------------------------------ MODULE SourceFiles ------------------------------
(***************************************************************************)
(* What sources.go reads of the files that name devices: the tables that   *)
(* refresh merges, in Devices. Pure operators: a file is a sequence of     *)
(* lines, and an address it does not mention, or says nothing of, maps to  *)
(* Blank.                                                                  *)
(*                                                                         *)
(* Data kept: a line is its kind and the fields used. One of no use to the *)
(* parser (a comment, too few fields, an address that does not parse) is   *)
(* of kind "other"; a hardware address that does not parse is NoMac.       *)
(***************************************************************************)
EXTENDS Devices, Sequences, SequencesExt

CONSTANTS
  WrittenFor  \* address each name is that of, NoName for a lease of none

ASSUME SourceFilesAssumption == WrittenFor \in [Names -> Addrs \cup {NoName}]

-----------------------------------------------------------------------------
(***************************************************************************)
(* hosts, dnsmasq and ARP: a line for each address                         *)
(***************************************************************************)

\* Of two lines for an address the later one replaces the earlier, whole.
ReadRow(t, line) ==
  IF line.kind = "other" THEN t
  ELSE [t EXCEPT ![line.addr] = [name |-> line.name, mac |-> line.mac]]

\* A hosts line has no hardware address, a dnsmasq line may lack either field.
parseHosts(file) == FoldLeft(ReadRow, BlankTable, file)

parseDnsmasqLeases(file) == FoldLeft(ReadRow, BlankTable, file)

\* The first line is a header. An incomplete row (no flags), one whose flags do
\* not parse, and one with a zero hardware address are of kind "other" too.
readARP(file) == FoldLeft(ReadRow, BlankTable, IF file = <<>> THEN <<>> ELSE Tail(file))

-----------------------------------------------------------------------------
(***************************************************************************)
(* dhcpd: lease blocks                                                     *)
(***************************************************************************)

\* The address and the fields of the block being read, if one is open.
Outside(addr) == [table |-> BlankTable, cur |-> addr, info |-> Blank, inTag |-> FALSE]

StaysOpen(st) == st

\* The lines after it are not to be taken for the previous lease's.
BadLease(st) == [st EXCEPT !.inTag = FALSE]

Opens(st, addr) == [st EXCEPT !.cur = addr, !.info = Blank, !.inTag = TRUE]

\* A block that said nothing leaves what an earlier one said.
Closes(st) ==
  [st EXCEPT !.table = IF st.info # Blank THEN [@ EXCEPT ![st.cur] = st.info] ELSE @,
             !.inTag = FALSE]

\* One turn of the loop, in the order of the switch.
ReadLease(st, line) ==
  CASE line.kind = "lease" -> Opens(st, line.addr)
    [] line.kind = "bad lease" -> BadLease(st)
    [] line.kind \notin {"lease", "bad lease"} /\ ~st.inTag -> st
    [] line.kind = "}" /\ st.inTag -> Closes(st)
    [] line.kind = "client-hostname" /\ st.inTag -> [st EXCEPT !.info.name = line.name]
    [] line.kind = "hostname" /\ st.inTag ->
         IF st.info.name = NoName THEN [st EXCEPT !.info.name = line.name] ELSE st
    [] line.kind = "hardware" /\ st.inTag ->
         IF line.mac # NoMac THEN [st EXCEPT !.info.mac = line.mac] ELSE st
    [] line.kind = "other" /\ st.inTag -> st

parseDHCPDLeases(file) ==
  FoldLeft(ReadLease, Outside(CHOOSE a \in Addrs : TRUE), file).table

-----------------------------------------------------------------------------
\* What a line opens a block for.
OpenedFor(line) == IF line.kind = "lease" THEN line.addr ELSE NoName

Opening(file) == {i \in DOMAIN file : file[i].kind \in {"lease", "bad lease"}}

\* dhcpd writes a name into a block of its own address.
NamesInPlace(file) ==
  \A i \in DOMAIN file :
    file[i].kind \in {"client-hostname", "hostname"} /\ file[i].name # NoName =>
      \E j \in Opening(file) :
        /\ j < i /\ \A k \in Opening(file) : k <= j \/ k > i
        /\ OpenedFor(file[j]) = WrittenFor[file[i].name]

\* No device goes by the name of another: whatever blocks are left open, do not
\* parse or are opened again in the files that refresh merges, a name is only
\* ever found at the address of the lease it was written in.
NamesStayHome ==
  \A a \in Addrs : learned[a].name # NoName => WrittenFor[learned[a].name] = a
=============================================================================
