------------------------------- MODULE Devices -------------------------------
(***************************************************************************)
(* The device database of src/device.go: a table rebuilt from files and    *)
(* the ARP table every reload interval, the bindings of addresses to       *)
(* hardware addresses that outlive it, and the lookups of queries, which   *)
(* read both under d.mu.                                                   *)
(*                                                                         *)
(* refresh reads its sources one by one, without the lock; what a source   *)
(* holds, and whether it can be read, may differ at every read. The loop   *)
(* that remembers the hardware addresses runs under the lock, in the       *)
(* arbitrary order of a map: one step per address, lookups kept out.       *)
(*                                                                         *)
(* Data kept: names and hardware addresses are model values; an address no *)
(* table holds maps to Blank, Go's zero value. The ID a query is given is  *)
(* the key shortID hashes: a hardware address, the address itself, or no   *)
(* key. Names beyond the table are the business of Discovery; the vendor   *)
(* prefix, the log lines and the devices_known gauge are left out.         *)
(***************************************************************************)
EXTENDS Integers, FiniteSets

CONSTANTS
  Addrs,        \* client addresses
  Macs,         \* hardware addresses
  NoMac,
  Names,
  NoName,
  Files,        \* number of configured files, read in order
  UseARP,       \* arp is configured
  FileTables,   \* what a file can hold
  ARPTables,    \* what can be read of the ARP table
  MaxBindings,  \* deviceDB.maxBindings
  Mode          \* device_id

Info == [name : Names \cup {NoName}, mac : Macs \cup {NoMac}]

Blank == [name |-> NoName, mac |-> NoMac]

BlankTable == [a \in Addrs |-> Blank]

ASSUME DevicesAssumption ==
  /\ IsFiniteSet(Addrs)
  /\ NoMac \notin Macs
  /\ NoName \notin Names \cup Addrs \cup Macs
  /\ Macs \cap Addrs = {}
  /\ Files \in Nat
  /\ UseARP \in BOOLEAN
  /\ FileTables \subseteq [Addrs -> Info]
  /\ ARPTables \subseteq [Addrs -> Info]
  /\ MaxBindings \in Nat \ {0}
  /\ Mode \in {"auto", "ip", "mac", "none"}

VARIABLES
  learned,   \* table of the last refresh
  bindings,  \* hardware address remembered for each address
  \* the goroutine that refreshes
  rpc,
  src,       \* source to read next
  table,     \* table being built
  todo,      \* addresses whose binding is still to be updated
  serving,   \* start has returned
  stopping,  \* d.done is closed
  last,      \* address and key of a lookup, until it is over
  \* history
  got,       \* what each source contributed to the table being built
  seen,      \* hardware address a refresh last showed for each address
  evicted    \* addresses whose binding made room for another

historyVars == <<got, seen, evicted>>
vars == <<learned, bindings, rpc, src, table, todo, serving, stopping, last, historyVars>>

NumSources == Files + (IF UseARP THEN 1 ELSE 0)

Sources == 1 .. NumSources

Bound == {a \in Addrs : bindings[a] # NoMac}

NoLookup == [addr |-> NoName, key |-> NoName]

Init ==
  /\ learned = BlankTable
  /\ bindings = [a \in Addrs |-> NoMac]
  /\ rpc = "off"
  /\ src = 1
  /\ table = BlankTable
  /\ todo = {}
  /\ serving = FALSE
  /\ stopping = FALSE
  /\ last = NoLookup
  /\ got = [s \in Sources |-> BlankTable]
  /\ seen = [a \in Addrs |-> NoMac]
  /\ evicted = {}

-----------------------------------------------------------------------------
(***************************************************************************)
(* start and stop                                                          *)
(***************************************************************************)

\* The first refresh is part of start; without sources there is none.
Start ==
  /\ rpc = "off" /\ ~serving
  /\ IF Sources = {}
       THEN serving' = TRUE /\ UNCHANGED rpc
       ELSE rpc' = "read" /\ UNCHANGED serving
  /\ UNCHANGED <<learned, bindings, src, table, todo, stopping, last, historyVars>>

\* The ticker fires. When done is closed too, select may take either branch.
TickerFires ==
  /\ rpc = "wait"
  /\ rpc' = "read"
  /\ UNCHANGED <<learned, bindings, src, table, todo, serving, stopping, last, historyVars>>

RefresherEnds ==
  /\ rpc = "wait" /\ stopping
  /\ rpc' = "ended"
  /\ UNCHANGED <<learned, bindings, src, table, todo, serving, stopping, last, historyVars>>

\* stop closes done, once; joining the lookups is drain, in Discovery.
Stop ==
  /\ serving /\ ~stopping
  /\ stopping' = TRUE
  /\ UNCHANGED <<learned, bindings, rpc, src, table, todo, serving, last, historyVars>>

-----------------------------------------------------------------------------
(***************************************************************************)
(* refresh                                                                 *)
(***************************************************************************)

Overwrites(cur, info) == info

\* A later source replaces a field, never by a blank.
merge(cur, info) ==
  [name |-> IF info.name # NoName THEN info.name ELSE cur.name,
   mac  |-> IF info.mac # NoMac THEN info.mac ELSE cur.mac]

Reads(t) ==
  /\ table' = [a \in Addrs |-> merge(table[a], t[a])]
  /\ got' = [got EXCEPT ![src] = t]
  /\ src' = src + 1
  /\ UNCHANGED <<learned, bindings, rpc, todo, serving, stopping, last, seen, evicted>>

ReadFile(t) ==
  /\ rpc = "read"
  /\ src \in Sources /\ src <= Files
  /\ Reads(t)

\* A file that cannot be opened, or not read to its end, contributes nothing.
FileFails ==
  /\ rpc = "read"
  /\ src \in Sources /\ src <= Files
  /\ src' = src + 1
  /\ UNCHANGED <<learned, bindings, rpc, table, todo, serving, stopping, last, historyVars>>

ReadsARPAnyway(t) ==
  /\ rpc = "read"
  /\ src > Files
  /\ Reads(t)

\* The rows read of the ARP table count, whether or not an error ended them.
ReadARP(t) ==
  /\ rpc = "read"
  /\ src \in Sources /\ src > Files
  /\ Reads(t)

RemembersAll(t) == Addrs

\* The addresses the loop does not skip.
Remembers(t) == {a \in Addrs : t[a].mac # NoMac}

\* Every source has had its turn: under the lock, the new table replaces the
\* old one.
Swap ==
  /\ rpc = "read"
  /\ src \notin Sources
  /\ rpc' = "bind"
  /\ learned' = table
  /\ todo' = Remembers(table)
  /\ seen' = [a \in Addrs |-> IF table[a].mac # NoMac THEN table[a].mac ELSE seen[a]]
  /\ src' = 1
  /\ table' = BlankTable
  /\ got' = [s \in Sources |-> BlankTable]
  /\ UNCHANGED <<bindings, serving, stopping, last, evicted>>

RoomLate(a) == a \in Bound \/ Cardinality(Bound) <= MaxBindings

RoomForgotten(a) == Cardinality(Bound) < MaxBindings

\* The binding of a needs no other to be dropped.
Room(a) == a \in Bound \/ Cardinality(Bound) < MaxBindings

\* One turn of the loop: an arbitrary binding makes room for a new one.
Bind(a) ==
  /\ rpc = "bind" /\ a \in todo
  /\ \E victim \in IF Room(a) THEN {a} ELSE Bound :
       /\ bindings' = [b \in Addrs |-> IF b = a THEN learned[a].mac
                                       ELSE IF b = victim THEN NoMac ELSE bindings[b]]
       /\ evicted' = (evicted \cup {victim}) \ {a}
  /\ todo' = todo \ {a}
  /\ UNCHANGED <<learned, rpc, src, table, serving, stopping, last, got, seen>>

\* The lock is released; the first refresh lets start return.
Unlock ==
  /\ rpc = "bind" /\ todo = {}
  /\ rpc' = "wait"
  /\ serving' = TRUE
  /\ UNCHANGED <<learned, bindings, src, table, todo, stopping, last, historyVars>>

-----------------------------------------------------------------------------
(***************************************************************************)
(* lookup and deviceID                                                     *)
(***************************************************************************)

\* The hardware address of the table, or else the one remembered.
MacOf(a) == IF learned[a].mac # NoMac THEN learned[a].mac ELSE bindings[a]

NoKey == NoName

deviceID(a, mac) ==
  CASE Mode = "none" -> NoKey
    [] Mode = "ip"   -> a
    [] Mode = "mac"  -> IF mac = NoMac THEN NoKey ELSE mac
    [] Mode = "auto" -> IF mac = NoMac THEN a ELSE mac

\* A query comes from a: one read-locked section, outside refresh's.
Lookup(a) ==
  /\ serving /\ rpc # "bind"
  /\ last = NoLookup
  /\ last' = [addr |-> a, key |-> deviceID(a, MacOf(a))]
  /\ UNCHANGED <<learned, bindings, rpc, src, table, todo, serving, stopping, historyVars>>

LookupEnds ==
  /\ last # NoLookup
  /\ last' = NoLookup
  /\ UNCHANGED <<learned, bindings, rpc, src, table, todo, serving, stopping, historyVars>>

-----------------------------------------------------------------------------
Next ==
  \/ Start \/ TickerFires \/ RefresherEnds \/ Stop
  \/ \E t \in FileTables : ReadFile(t)
  \/ FileFails
  \/ \E t \in ARPTables : ReadARP(t)
  \/ Swap \/ Unlock \/ LookupEnds
  \/ \E a \in Addrs : Bind(a) \/ Lookup(a)

Spec == Init /\ [][Next]_vars

-----------------------------------------------------------------------------
\* The variables have their types.
TypeOK ==
  /\ learned \in [Addrs -> Info]
  /\ bindings \in [Addrs -> Macs \cup {NoMac}]
  /\ rpc \in {"off", "wait", "read", "bind", "ended"}
  /\ src \in 1 .. NumSources + 1
  /\ table \in [Addrs -> Info]
  /\ todo \subseteq Addrs
  /\ serving \in BOOLEAN
  /\ stopping \in BOOLEAN
  /\ last \in [addr : Addrs \cup {NoName}, key : Addrs \cup Macs \cup {NoName}]
  /\ got \in [Sources -> [Addrs -> Info]]
  /\ seen \in [Addrs -> Macs \cup {NoMac}]
  /\ evicted \subseteq Addrs

\* refresh folds its sources into what each field last had: the last source
\* that filled a field decides it, and no source blanks it out, whichever of
\* them failed this time.
MergeKeepsFields ==
  \A a \in Addrs, f \in {"name", "mac"} :
    \/ table[a][f] = Blank[f] /\ \A s \in Sources : got[s][a][f] = Blank[f]
    \/ \E s \in Sources :
         /\ table[a][f] = got[s][a][f]
         /\ got[s][a][f] # Blank[f]
         /\ \A t \in Sources : t > s => got[t][a][f] = Blank[f]

\* "maxBindings caps the remembered address-to-MAC map", though one refresh
\* may add many addresses, and drop some it has just added.
BindingsBounded == Cardinality(Bound) <= MaxBindings

\* While no more than maxBindings addresses have ever shown a hardware address,
\* none of them has lost its binding.
NothingDroppedWithRoom ==
  Cardinality({a \in Addrs : seen[a] # NoMac}) <= MaxBindings => evicted = {}

\* "Once an address has been seen with a MAC that binding sticks": the ID of a
\* query derives from the hardware address last seen at its address, however
\* many refreshes have not shown it since or could not read it, unless that
\* binding was dropped to make room.
IdentitySticks ==
  [][\A a \in Addrs :
       last = NoLookup /\ last'.addr = a /\ Mode \in {"auto", "mac"}
         /\ seen[a] # NoMac /\ a \notin evicted
         => last'.key = seen[a]]_vars
=============================================================================
