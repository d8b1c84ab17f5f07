---------------------------- MODULE DevicesProofs ----------------------------
(***************************************************************************)
(* The safety properties of Devices, for every number of addresses, of     *)
(* sources and of bindings, and every content of the sources; and, of the  *)
(* parsers in SourceFiles, that whatever the length of the files no device *)
(* takes the name of another.                                              *)
(***************************************************************************)
EXTENDS SourceFiles, FiniteSetTheorems, TLAPS

\* A table, a blank one included, is a table.
LEMMA BlankTyped == Blank \in Info /\ BlankTable \in [Addrs -> Info]
BY DEF Blank, BlankTable, Info

\* merge yields a table entry, each field taken from one side or the other.
LEMMA MergeTyped ==
  ASSUME NEW cur \in Info, NEW info \in Info
  PROVE  merge(cur, info) \in Info
BY DEF merge, Info

\* One turn of the loop, whether or not there is room.
LEMMA BindStep ==
  ASSUME TypeOK, NEW a \in Addrs, Bind(a)
  PROVE  \E victim \in Addrs :
           /\ IF Room(a) THEN victim = a ELSE victim \in Bound
           /\ bindings' = [b \in Addrs |-> IF b = a THEN learned[a].mac
                                           ELSE IF b = victim THEN NoMac ELSE bindings[b]]
           /\ evicted' = (evicted \cup {victim}) \ {a}
BY DEF Bind, Bound

-----------------------------------------------------------------------------
(***************************************************************************)
(* Types                                                                   *)
(***************************************************************************)

\* The initial state has the types.
LEMMA InitTypeOK == Init => TypeOK
<1> SUFFICES ASSUME Init PROVE TypeOK
  OBVIOUS
<1>1. src \in 1 .. NumSources + 1
  BY DevicesAssumption DEF Init, NumSources
<1>2. learned \in [Addrs -> Info] /\ table \in [Addrs -> Info]
  BY BlankTyped DEF Init
<1>3. got \in [Sources -> [Addrs -> Info]]
  BY BlankTyped DEF Init
<1>4. QED
  BY <1>1, <1>2, <1>3 DEF Init, TypeOK, NoLookup

\* Reading a source keeps the types of the table and of what was read.
LEMMA ReadsTypeOK ==
  ASSUME TypeOK, NEW t \in [Addrs -> Info], src \in Sources, Reads(t)
  PROVE  TypeOK'
<1>1. NumSources \in Nat
  BY DevicesAssumption DEF NumSources
<1>2. \A a \in Addrs : merge(table[a], t[a]) \in Info
  BY MergeTyped DEF TypeOK
<1>3. table' \in [Addrs -> Info]
  BY <1>2 DEF Reads
<1>4. got' \in [Sources -> [Addrs -> Info]]
  BY DEF Reads, TypeOK
<1>5. src' \in 1 .. NumSources + 1
  BY <1>1 DEF Reads, Sources
<1>6. QED
  BY <1>3, <1>4, <1>5 DEF Reads, TypeOK

\* Every step keeps the types.
LEMMA NextTypeOK == TypeOK /\ [Next]_vars => TypeOK'
<1> SUFFICES ASSUME TypeOK, [Next]_vars PROVE TypeOK'
  OBVIOUS
<1>0. NumSources \in Nat
  BY DevicesAssumption DEF NumSources
<1>1. CASE Start \/ TickerFires \/ RefresherEnds \/ Stop \/ Unlock
  BY <1>1 DEF TypeOK, Start, TickerFires, RefresherEnds, Stop, Unlock, historyVars
<1>2. ASSUME NEW t \in FileTables, ReadFile(t) PROVE TypeOK'
  BY <1>2, ReadsTypeOK, DevicesAssumption DEF ReadFile
<1>3. CASE FileFails
  BY <1>0, <1>3 DEF TypeOK, FileFails, Sources, historyVars
<1>4. ASSUME NEW t \in ARPTables, ReadARP(t) PROVE TypeOK'
  BY <1>4, ReadsTypeOK, DevicesAssumption DEF ReadARP
<1>5. CASE Swap
  BY <1>0, <1>5, BlankTyped DEF TypeOK, Swap, Remembers, Info, Sources
<1>6. ASSUME NEW a \in Addrs, Bind(a) PROVE TypeOK'
  <2>1. learned[a].mac \in Macs \cup {NoMac}
    BY DEF TypeOK, Info
  <2>2. bindings' \in [Addrs -> Macs \cup {NoMac}] /\ evicted' \subseteq Addrs
    BY <1>6, <2>1, BindStep DEF TypeOK
  <2>3. QED
    BY <1>6, <2>2 DEF TypeOK, Bind
<1>7. ASSUME NEW a \in Addrs, Lookup(a) PROVE TypeOK'
  <2>1. MacOf(a) \in Macs \cup {NoMac}
    BY DEF TypeOK, Info, MacOf
  <2>2. deviceID(a, MacOf(a)) \in Addrs \cup Macs \cup {NoName}
    BY <2>1, DevicesAssumption DEF deviceID, NoKey
  <2>3. QED
    BY <1>7, <2>2 DEF TypeOK, Lookup, historyVars
<1>8. CASE LookupEnds
  BY <1>8 DEF TypeOK, LookupEnds, NoLookup, historyVars
<1>9. CASE UNCHANGED vars
  BY <1>9 DEF TypeOK, vars, historyVars
<1>10. QED
  BY <1>1, <1>2, <1>3, <1>4, <1>5, <1>6, <1>7, <1>8, <1>9 DEF Next

\* The database's tables hold what they are declared to hold.
THEOREM TypeCorrect == Spec => []TypeOK
BY InitTypeOK, NextTypeOK, PTL DEF Spec

-----------------------------------------------------------------------------
(***************************************************************************)
(* Merging. The table agrees with what was read because the sources still  *)
(* to come have contributed nothing.                                       *)
(***************************************************************************)
Ahead == \A s \in Sources : s >= src => got[s] = BlankTable

MergeInv == MergeKeepsFields /\ Ahead

\* One more source read: a field it fills is its own, the others stand.
LEMMA ReadsMergeInv ==
  ASSUME TypeOK, MergeInv, NEW t \in [Addrs -> Info], src \in Sources, Reads(t)
  PROVE  MergeInv'
<1>0. NumSources \in Nat /\ Sources = 1 .. NumSources
  BY DevicesAssumption DEF NumSources, Sources
<1>1. /\ got' = [got EXCEPT ![src] = t]
      /\ src' = src + 1
      /\ table' = [a \in Addrs |-> merge(table[a], t[a])]
  BY DEF Reads
<1>2. Ahead'
  BY <1>0, <1>1 DEF MergeInv, Ahead, TypeOK
<1>3. ASSUME NEW a \in Addrs, NEW f \in {"name", "mac"}
      PROVE  \/ table'[a][f] = Blank[f] /\ \A s \in Sources : got'[s][a][f] = Blank[f]
             \/ \E s \in Sources :
                  /\ table'[a][f] = got'[s][a][f]
                  /\ got'[s][a][f] # Blank[f]
                  /\ \A u \in Sources : u > s => got'[u][a][f] = Blank[f]
  <2>1. table'[a][f] = IF t[a][f] # Blank[f] THEN t[a][f] ELSE table[a][f]
    BY <1>1 DEF merge, Blank
  <2>2. \A s \in Sources : got'[s] = IF s = src THEN t ELSE got[s]
    BY <1>1 DEF TypeOK
  <2>3. \A s \in Sources : s >= src => got[s][a][f] = Blank[f]
    BY DEF MergeInv, Ahead, BlankTable
  <2>4. CASE t[a][f] # Blank[f]
    <3>1. \A u \in Sources : u > src => got'[u][a][f] = Blank[f]
      BY <1>0, <2>2, <2>3
    <3>2. QED
      BY <2>1, <2>2, <2>4, <3>1
  <2>5. CASE t[a][f] = Blank[f]
    <3>1. \A s \in Sources : got'[s][a][f] = got[s][a][f]
      BY <1>0, <2>2, <2>3, <2>5
    <3>2. table'[a][f] = table[a][f]
      BY <2>1, <2>5
    <3>3. QED
      BY <3>1, <3>2 DEF MergeInv, MergeKeepsFields
  <2>6. QED
    BY <2>4, <2>5
<1>4. QED
  BY <1>2, <1>3 DEF MergeInv, MergeKeepsFields

\* Every step keeps the agreement.
LEMMA NextMergeInv == TypeOK /\ MergeInv /\ [Next]_vars => MergeInv'
<1> SUFFICES ASSUME TypeOK, MergeInv, [Next]_vars PROVE MergeInv'
  OBVIOUS
<1>0. NumSources \in Nat /\ Sources = 1 .. NumSources
  BY DevicesAssumption DEF NumSources, Sources
<1>1. ASSUME NEW t \in FileTables, ReadFile(t) PROVE MergeInv'
  BY <1>1, ReadsMergeInv, DevicesAssumption DEF ReadFile
<1>2. ASSUME NEW t \in ARPTables, ReadARP(t) PROVE MergeInv'
  BY <1>2, ReadsMergeInv, DevicesAssumption DEF ReadARP
<1>3. CASE FileFails
  BY <1>0, <1>3 DEF MergeInv, MergeKeepsFields, Ahead, FileFails, historyVars
<1>4. CASE Swap
  <2>1. table' = BlankTable /\ got' = [s \in Sources |-> BlankTable]
    BY <1>4 DEF Swap
  <2>2. QED
    BY <2>1 DEF MergeInv, MergeKeepsFields, Ahead, BlankTable
<1>5. CASE UNCHANGED <<table, got, src>>
  BY <1>5 DEF MergeInv, MergeKeepsFields, Ahead
<1>6. \/ UNCHANGED <<table, got, src>>
      \/ Swap \/ FileFails
      \/ \E t \in FileTables : ReadFile(t)
      \/ \E t \in ARPTables : ReadARP(t)
  BY DEF Next, vars, historyVars, Start, TickerFires, RefresherEnds, Stop, Unlock, Bind,
         Lookup, LookupEnds
<1>7. QED
  BY <1>1, <1>2, <1>3, <1>4, <1>5, <1>6

\* No source blanks out what another filled in, in any order of successes and
\* failures.
THEOREM FieldsKept == Spec => []MergeKeepsFields
<1>1. Init => MergeInv
  BY DEF Init, MergeInv, MergeKeepsFields, Ahead, BlankTable
<1>2. MergeInv => MergeKeepsFields
  BY DEF MergeInv
<1>3. QED
  BY <1>1, <1>2, NextMergeInv, TypeCorrect, PTL DEF Spec

-----------------------------------------------------------------------------
(***************************************************************************)
(* Bindings                                                                *)
(***************************************************************************)

\* Sets of addresses are finite, so they have a cardinality.
LEMMA FiniteAddrs ==
  \A S \in SUBSET Addrs : IsFiniteSet(S) /\ Cardinality(S) \in Nat
BY DevicesAssumption, FS_Subset, FS_CardinalityType

\* A turn of the loop binds its address; the victim, if another, is unbound.
LEMMA BoundAfter ==
  ASSUME TypeOK, NEW a \in Addrs, learned[a].mac # NoMac, NEW victim \in Addrs,
         bindings' = [b \in Addrs |-> IF b = a THEN learned[a].mac
                                      ELSE IF b = victim THEN NoMac ELSE bindings[b]]
  PROVE  Bound' = (Bound \ {victim}) \cup {a}
BY DEF Bound, TypeOK

\* The loop visits addresses that have a hardware address, and only while the
\* lock is held.
TodoInv ==
  /\ todo # {} => rpc = "bind"
  /\ \A a \in todo : learned[a].mac # NoMac

\* Every step keeps that.
LEMMA NextTodoInv == TypeOK /\ TodoInv /\ [Next]_vars => TodoInv'
<1> SUFFICES ASSUME TypeOK, TodoInv, [Next]_vars PROVE TodoInv'
  OBVIOUS
<1>1. CASE Swap
  BY <1>1 DEF TodoInv, Swap, Remembers
<1>2. ASSUME NEW a \in Addrs, Bind(a) PROVE TodoInv'
  BY <1>2 DEF TodoInv, Bind
<1>3. CASE Unlock
  BY <1>3 DEF TodoInv, Unlock
<1>4. CASE UNCHANGED <<todo, learned>> /\ todo = {}
  BY <1>4 DEF TodoInv
<1>5. CASE UNCHANGED <<todo, learned, rpc>>
  BY <1>5 DEF TodoInv
<1>6. \/ Swap \/ Unlock \/ (\E a \in Addrs : Bind(a))
      \/ UNCHANGED <<todo, learned>> /\ todo = {}
      \/ UNCHANGED <<todo, learned, rpc>>
  BY DEF TodoInv, Next, vars, Start, TickerFires, RefresherEnds, Stop, ReadFile, FileFails,
         ReadARP, Reads, Lookup, LookupEnds
<1>7. QED
  BY <1>1, <1>2, <1>3, <1>4, <1>5, <1>6

\* The loop's bookkeeping holds throughout.
LEMMA TodoHolds == Spec => []TodoInv
<1>1. Init => TodoInv
  BY DEF Init, TodoInv
<1>2. QED
  BY <1>1, NextTodoInv, TypeCorrect, PTL DEF Spec

\* A step that is no turn of the loop leaves the bindings alone.
LEMMA OnlyBindBinds ==
  ASSUME [Next]_vars
  PROVE  UNCHANGED <<bindings, evicted>> \/ \E a \in Addrs : Bind(a)
BY DEF Next, vars, historyVars, Start, TickerFires, RefresherEnds, Stop, ReadFile, FileFails,
       ReadARP, Reads, Swap, Unlock, Lookup, LookupEnds

\* A turn of the loop finds room, or makes it.
LEMMA BindBounded ==
  ASSUME TypeOK, TodoInv, BindingsBounded, NEW a \in Addrs, Bind(a)
  PROVE  BindingsBounded'
<1>1. PICK victim \in Addrs :
        /\ IF Room(a) THEN victim = a ELSE victim \in Bound
        /\ bindings' = [b \in Addrs |-> IF b = a THEN learned[a].mac
                                        ELSE IF b = victim THEN NoMac ELSE bindings[b]]
  BY BindStep
<1>2. learned[a].mac # NoMac
  BY DEF Bind, TodoInv
<1>3. Bound' = (Bound \ {victim}) \cup {a}
  BY <1>1, <1>2, BoundAfter
<1>4. IsFiniteSet(Bound) /\ Cardinality(Bound) \in Nat
  BY FiniteAddrs DEF Bound
<1>5. CASE a \in Bound
  <2>1. Bound' = Bound
    BY <1>1, <1>3, <1>5 DEF Room
  <2>2. QED
    BY <2>1 DEF BindingsBounded
<1>6. CASE a \notin Bound /\ Room(a)
  <2>1. Bound' = Bound \cup {a}
    BY <1>1, <1>3, <1>6
  <2>2. Cardinality(Bound') = Cardinality(Bound) + 1
    BY <1>4, <1>6, <2>1, FS_AddElement
  <2>3. QED
    BY <1>4, <1>6, <2>2, DevicesAssumption DEF Room, BindingsBounded
<1>7. CASE ~Room(a)
  <2>1. /\ IsFiniteSet(Bound \ {victim})
        /\ Cardinality(Bound \ {victim}) = Cardinality(Bound) - 1
    BY <1>1, <1>4, <1>7, FS_RemoveElement
  <2>2. Cardinality(Bound') = Cardinality(Bound \ {victim}) + 1
    BY <1>3, <1>7, <2>1, FS_AddElement DEF Room
  <2>3. QED
    BY <1>4, <2>1, <2>2 DEF BindingsBounded
<1>8. QED
  BY <1>5, <1>6, <1>7

\* The memory of hardware addresses never exceeds its cap.
THEOREM BindingsCapped == Spec => []BindingsBounded
<1>1. Init => BindingsBounded
  <2>1. Init => Bound = {}
    BY DEF Init, Bound
  <2>2. QED
    BY <2>1, FS_EmptySet, DevicesAssumption DEF BindingsBounded
<1>2. TypeOK /\ TodoInv /\ BindingsBounded /\ [Next]_vars => BindingsBounded'
  <2>1. CASE UNCHANGED <<bindings, evicted>>
    BY <2>1 DEF BindingsBounded, Bound
  <2>2. QED
    BY <2>1, OnlyBindBinds, BindBounded
<1>3. QED
  BY <1>1, <1>2, TypeCorrect, TodoHolds, PTL DEF Spec

-----------------------------------------------------------------------------
(***************************************************************************)
(* Identity. What a refresh showed for an address is remembered once the   *)
(* loop has passed it, and stays so until the binding makes room. While    *)
(* the lock is held some addresses are still to come; no lookup sees that. *)
(***************************************************************************)
SeenAddrs == {a \in Addrs : seen[a] # NoMac}

MemoryInv ==
  /\ \A a \in Addrs : learned[a].mac # NoMac => seen[a] = learned[a].mac
  /\ \A a \in Addrs : seen[a] # NoMac /\ a \notin todo /\ a \notin evicted => bindings[a] = seen[a]
  /\ Bound \subseteq SeenAddrs

\* A turn of the loop remembers its address; its victim counts as evicted.
LEMMA BindMemory ==
  ASSUME TypeOK, TodoInv, MemoryInv, NEW a \in Addrs, Bind(a)
  PROVE  MemoryInv'
<1>1. PICK victim \in Addrs :
        /\ bindings' = [b \in Addrs |-> IF b = a THEN learned[a].mac
                                        ELSE IF b = victim THEN NoMac ELSE bindings[b]]
        /\ evicted' = (evicted \cup {victim}) \ {a}
  BY BindStep
<1>2. /\ learned[a].mac # NoMac
      /\ todo' = todo \ {a}
      /\ UNCHANGED <<learned, seen>>
  BY DEF Bind, TodoInv
<1>3. Bound' = (Bound \ {victim}) \cup {a}
  BY <1>1, <1>2, BoundAfter
<1>4. seen[a] = learned[a].mac
  BY <1>2 DEF MemoryInv
<1>5. Bound' \subseteq SeenAddrs'
  BY <1>2, <1>3, <1>4 DEF MemoryInv, SeenAddrs
<1>6. QED
  BY <1>1, <1>2, <1>4, <1>5 DEF MemoryInv, TypeOK

\* Every step keeps the memory.
LEMMA NextMemory == TypeOK /\ TodoInv /\ MemoryInv /\ [Next]_vars => MemoryInv'
<1> SUFFICES ASSUME TypeOK, TodoInv, MemoryInv, [Next]_vars PROVE MemoryInv'
  OBVIOUS
<1>1. CASE Swap
  <2>1. /\ todo = {} /\ learned' = table /\ UNCHANGED <<bindings, evicted>>
        /\ todo' = {a \in Addrs : table[a].mac # NoMac}
        /\ seen' = [a \in Addrs |-> IF table[a].mac # NoMac THEN table[a].mac ELSE seen[a]]
    BY <1>1 DEF Swap, Remembers, TodoInv
  <2>2. QED
    BY <2>1 DEF MemoryInv, Bound, SeenAddrs
<1>2. CASE UNCHANGED <<learned, seen, todo, bindings, evicted>>
  BY <1>2 DEF MemoryInv, Bound, SeenAddrs
<1>3. \/ Swap \/ (\E a \in Addrs : Bind(a))
      \/ UNCHANGED <<learned, seen, todo, bindings, evicted>>
  BY DEF Next, vars, historyVars, Start, TickerFires, RefresherEnds, Stop, ReadFile, FileFails,
         ReadARP, Reads, Unlock, Lookup, LookupEnds
<1>4. QED
  BY <1>1, <1>2, <1>3, BindMemory

\* What was seen is remembered.
LEMMA MemoryHolds == Spec => []MemoryInv
<1>1. Init => MemoryInv
  BY DEF Init, MemoryInv, BlankTable, Blank, Bound, SeenAddrs
<1>2. QED
  BY <1>1, NextMemory, TypeCorrect, TodoHolds, PTL DEF Spec

\* A device keeps the ID of its hardware address through refreshes that do not
\* show it, as long as its binding is not dropped.
THEOREM IdentityKept == Spec => IdentitySticks
<1>1. ASSUME TypeOK, TodoInv, MemoryInv, [Next]_vars
      PROVE  [\A a \in Addrs :
                last = NoLookup /\ last'.addr = a /\ Mode \in {"auto", "mac"}
                  /\ seen[a] # NoMac /\ a \notin evicted
                  => last'.key = seen[a]]_vars
  <2> SUFFICES ASSUME NEW a \in Addrs, last = NoLookup, last'.addr = a,
                      Mode \in {"auto", "mac"}, seen[a] # NoMac, a \notin evicted
               PROVE  last'.key = seen[a]
    OBVIOUS
  <2>1. last' # last
    BY DevicesAssumption DEF NoLookup
  <2>2. \E b \in Addrs : Lookup(b)
    BY <1>1, <2>1 DEF Next, vars, historyVars, Start, TickerFires, RefresherEnds, Stop, ReadFile,
                FileFails, ReadARP, Reads, Swap, Bind, Unlock, LookupEnds
  <2>3. Lookup(a)
    BY <2>2 DEF Lookup
  <2>4. a \notin todo
    BY <1>1, <2>3 DEF Lookup, TodoInv
  <2>5. MacOf(a) = seen[a]
    BY <1>1, <2>4 DEF MacOf, MemoryInv
  <2>6. last'.key = deviceID(a, seen[a])
    BY <2>3, <2>5 DEF Lookup
  <2>7. QED
    BY <2>6 DEF deviceID
<1>2. QED
  BY <1>1, TypeCorrect, TodoHolds, MemoryHolds, PTL DEF Spec, IdentitySticks

-----------------------------------------------------------------------------
(***************************************************************************)
(* Room. A binding is dropped only for an address that had none, while all *)
(* the places are taken by addresses seen before: one more than the cap.   *)
(***************************************************************************)

\* A turn of the loop drops a binding only when too many have been seen.
LEMMA BindDropsForRoom ==
  ASSUME TypeOK, TodoInv, MemoryInv, NothingDroppedWithRoom, NEW a \in Addrs, Bind(a)
  PROVE  NothingDroppedWithRoom'
<1>1. PICK victim \in Addrs :
        /\ IF Room(a) THEN victim = a ELSE victim \in Bound
        /\ evicted' = (evicted \cup {victim}) \ {a}
  BY BindStep
<1>2. SeenAddrs' = SeenAddrs
  BY DEF Bind, SeenAddrs
<1>3. CASE Room(a)
  BY <1>1, <1>2, <1>3 DEF NothingDroppedWithRoom, SeenAddrs
<1>4. CASE ~Room(a)
  <2>1. a \in SeenAddrs /\ a \notin Bound /\ Bound \subseteq SeenAddrs
    BY <1>4 DEF Room, MemoryInv, SeenAddrs, Bind, TodoInv
  <2>2. /\ IsFiniteSet(Bound) /\ Cardinality(Bound) \in Nat
        /\ IsFiniteSet(SeenAddrs) /\ Cardinality(SeenAddrs) \in Nat
    BY FiniteAddrs DEF Bound, SeenAddrs
  <2>3. Cardinality(Bound \cup {a}) = Cardinality(Bound) + 1
    BY <2>1, <2>2, FS_AddElement
  <2>4. Cardinality(Bound \cup {a}) <= Cardinality(SeenAddrs)
    BY <2>1, <2>2, FS_Subset
  <2>5. Cardinality(SeenAddrs) > MaxBindings
    BY <1>4, <2>2, <2>3, <2>4, DevicesAssumption DEF Room
  <2>6. QED
    BY <1>2, <2>2, <2>5, DevicesAssumption DEF NothingDroppedWithRoom, SeenAddrs
<1>5. QED
  BY <1>3, <1>4

\* Until more than maxBindings addresses have shown hardware addresses, no
\* device loses its binding.
THEOREM RoomKeepsBindings == Spec => []NothingDroppedWithRoom
<1>1. Init => NothingDroppedWithRoom
  BY DEF Init, NothingDroppedWithRoom
<1>2. ASSUME TypeOK, TodoInv, MemoryInv, NothingDroppedWithRoom, [Next]_vars
      PROVE  NothingDroppedWithRoom'
  <2>1. CASE UNCHANGED <<bindings, evicted>>
    <3>1. seen' = seen \/ Swap
      BY <1>2 DEF Next, vars, historyVars, Start, TickerFires, RefresherEnds, Stop, ReadFile,
                  FileFails, ReadARP, Reads, Bind, Unlock, Lookup, LookupEnds
    <3>2. SeenAddrs \subseteq SeenAddrs'
      BY <3>1 DEF SeenAddrs, Swap
    <3>3. /\ IsFiniteSet(SeenAddrs')
          /\ Cardinality(SeenAddrs) \in Nat /\ Cardinality(SeenAddrs') \in Nat
      BY FiniteAddrs DEF SeenAddrs
    <3>4. Cardinality(SeenAddrs) <= Cardinality(SeenAddrs')
      BY <3>2, <3>3, FS_Subset
    <3>5. QED
      BY <1>2, <2>1, <3>3, <3>4, DevicesAssumption DEF NothingDroppedWithRoom, SeenAddrs
  <2>2. QED
    BY <1>2, <2>1, OnlyBindBinds, BindDropsForRoom
<1>3. QED
  BY <1>1, <1>2, TypeCorrect, TodoHolds, MemoryHolds, PTL DEF Spec

-----------------------------------------------------------------------------
(***************************************************************************)
(* Names: the loop of a parser keeps an invariant, by FoldProofs; the      *)
(* tables it makes are merged                                              *)
(***************************************************************************)

\* Every name of a table is at its address.
AtHome(t) == \A a \in Addrs : t[a].name # NoName => WrittenFor[t[a].name] = a

HomeTable(t) == t \in [Addrs -> Info] /\ AtHome(t)

-----------------------------------------------------------------------------
\* A file of rows, each with the name of its own address or with none.
RowFile(file) ==
  /\ \E n \in Nat : DOMAIN file = 1 .. n
  /\ \A i \in DOMAIN file : file[i].kind # "other" =>
       /\ file[i].addr \in Addrs
       /\ file[i].name \in Names \cup {NoName}
       /\ file[i].mac \in Macs \cup {NoMac}
       /\ file[i].name # NoName => WrittenFor[file[i].name] = file[i].addr

RowTurn(c, t, line) == ReadRow(t, line)

RowInv(c, file, k, t) == HomeTable(t)

Rows == INSTANCE FoldProofs WITH Op <- RowTurn, Holds <- RowInv

\* Where rows are in place, so are the names of the table.
LEMMA RowsHome ==
  ASSUME NEW file, RowFile(file)
  PROVE  HomeTable(FoldLeft(ReadRow, BlankTable, file))
<1>1. PICK n \in Nat : DOMAIN file = 1 .. n
  BY DEF RowFile
<1>2. RowInv(0, file, 0, BlankTable)
  BY BlankTyped DEF RowInv, HomeTable, AtHome, BlankTable, Blank
<1>3. ASSUME NEW k \in 1 .. n, NEW t, RowInv(0, file, k - 1, t)
      PROVE  RowInv(0, file, k, RowTurn(0, t, file[k]))
  <2>1. t \in [Addrs -> Info] /\ AtHome(t)
    BY <1>3 DEF RowInv, HomeTable
  <2>2. CASE file[k].kind = "other"
    BY <2>1, <2>2 DEF RowInv, RowTurn, ReadRow, HomeTable
  <2>3. CASE file[k].kind # "other"
    <3> DEFINE line == file[k]
               info == [name |-> line.name, mac |-> line.mac]
    <3>1. /\ line.addr \in Addrs /\ info \in Info
          /\ line.name # NoName => WrittenFor[line.name] = line.addr
      BY <1>1, <2>3 DEF RowFile, Info
    <3>2. RowTurn(0, t, line) = [t EXCEPT ![line.addr] = info]
      BY <2>3 DEF RowTurn, ReadRow
    <3>3. [t EXCEPT ![line.addr] = info] \in [Addrs -> Info]
      BY <2>1, <3>1
    <3>4. AtHome([t EXCEPT ![line.addr] = info])
      BY <2>1, <3>1 DEF AtHome
    <3>5. QED
      BY <3>2, <3>3, <3>4 DEF RowInv, HomeTable
  <2>4. QED
    BY <2>2, <2>3
<1>4. PICK iter :
        /\ iter = CHOOSE f : f = [t \in SUBSET (1 .. n) |->
                     IF t = {} THEN BlankTable
                     ELSE RowTurn(0, f[t \ {CHOOSE x \in t : \A y \in t : x >= y}],
                                     file[CHOOSE x \in t : \A y \in t : x >= y])]
        /\ FoldLeft(ReadRow, BlankTable, file) = iter[1 .. n]
  BY <1>1 DEF FoldLeft, MapThenFoldSet, Max, RowTurn
<1>5. RowInv(0, file, n, iter[1 .. n])
  BY <1>2, <1>3, <1>4, Rows!LoopInvariant
<1>6. QED
  BY <1>4, <1>5 DEF RowInv

-----------------------------------------------------------------------------
\* A dhcpd file, with its names in place.
LeaseLine(line) ==
  /\ line.kind \in {"lease", "bad lease", "}", "client-hostname", "hostname", "hardware", "other"}
  /\ line.kind = "lease" => line.addr \in Addrs
  /\ line.kind \in {"client-hostname", "hostname"} => line.name \in Names \cup {NoName}
  /\ line.kind = "hardware" => line.mac \in Macs \cup {NoMac}

LeaseFile(file) ==
  /\ \E n \in Nat : DOMAIN file = 1 .. n
  /\ \A i \in DOMAIN file : LeaseLine(file[i])
  /\ NamesInPlace(file)

LeaseTurn(c, st, line) == ReadLease(st, line)

\* The block open after k lines is that of the last line that opened one, and the
\* name it has is that of its address.
BlockOf(file, k, st) ==
  st.inTag =>
    /\ st.cur \in Addrs
    /\ st.info.name # NoName => WrittenFor[st.info.name] = st.cur
    /\ \E j \in Opening(file) :
         /\ j <= k /\ \A i \in Opening(file) : i <= j \/ i > k
         /\ file[j].kind = "lease" /\ file[j].addr = st.cur

LeaseState(st) ==
  /\ st = [table |-> st.table, cur |-> st.cur, info |-> st.info, inTag |-> st.inTag]
  /\ HomeTable(st.table)
  /\ st.info \in Info

LeaseInv(c, file, k, st) == LeaseState(st) /\ BlockOf(file, k, st)

Leases == INSTANCE FoldProofs WITH Op <- LeaseTurn, Holds <- LeaseInv

\* Lines are numbered by naturals.
LEMMA LinesNumbered ==
  ASSUME NEW file, LeaseFile(file)
  PROVE  Opening(file) \subseteq Nat /\ DOMAIN file \subseteq Nat
<1>1. PICK n \in Nat : DOMAIN file = 1 .. n
  BY DEF LeaseFile
<1>2. \A i \in 1 .. n : i \in Nat
  OBVIOUS
<1>3. DOMAIN file \subseteq Nat
  BY <1>1, <1>2
<1>4. QED
  BY <1>3 DEF Opening

\* A line that opens nothing leaves the open block that of the same line.
LEMMA BlockStays ==
  ASSUME NEW file, LeaseFile(file), NEW k \in DOMAIN file, NEW st, NEW new,
         BlockOf(file, k - 1, st), k \notin Opening(file),
         new.inTag => st.inTag,
         new.cur = st.cur,
         new.inTag => (new.info.name # NoName => WrittenFor[new.info.name] = st.cur)
  PROVE  BlockOf(file, k, new)
<1> SUFFICES ASSUME new.inTag
             PROVE  \E j \in Opening(file) :
                      /\ j <= k /\ \A i \in Opening(file) : i <= j \/ i > k
                      /\ file[j].kind = "lease" /\ file[j].addr = st.cur
  BY DEF BlockOf
<1>1. PICK j \in Opening(file) :
        /\ j <= k - 1 /\ \A i \in Opening(file) : i <= j \/ i > k - 1
        /\ file[j].kind = "lease" /\ file[j].addr = st.cur
  BY DEF BlockOf
<1>2. Opening(file) \subseteq Nat /\ k \in Nat
  BY LinesNumbered
<1>3. j <= k /\ \A i \in Opening(file) : i <= j \/ i > k
  BY <1>1, <1>2
<1>4. QED
  BY <1>1, <1>3

\* The name on a line of an open block is that of the block's address.
LEMMA NameOfBlock ==
  ASSUME NEW file, LeaseFile(file), NEW k \in DOMAIN file,
         NEW st, BlockOf(file, k - 1, st), st.inTag,
         file[k].kind \in {"client-hostname", "hostname"}, file[k].name # NoName
  PROVE  WrittenFor[file[k].name] = st.cur
<1>1. PICK j \in Opening(file) :
        /\ j <= k - 1 /\ \A i \in Opening(file) : i <= j \/ i > k - 1
        /\ file[j].kind = "lease" /\ file[j].addr = st.cur
  BY DEF BlockOf
<1>2. PICK m \in Opening(file) :
        /\ m < k /\ \A i \in Opening(file) : i <= m \/ i > k
        /\ OpenedFor(file[m]) = WrittenFor[file[k].name]
  BY DEF LeaseFile, NamesInPlace
<1>3. Opening(file) \subseteq Nat /\ k \in Nat
  BY LinesNumbered
<1>4. j = m
  BY <1>1, <1>2, <1>3
<1>5. QED
  BY <1>1, <1>2, <1>4 DEF OpenedFor

\* Every turn of the loop keeps the invariant.
LEMMA LeaseTurnInv ==
  ASSUME NEW file, LeaseFile(file), NEW k \in DOMAIN file, NEW st, LeaseInv(0, file, k - 1, st)
  PROVE  LeaseInv(0, file, k, LeaseTurn(0, st, file[k]))
<1> DEFINE line == file[k]
           new == ReadLease(st, line)
<1>1. LeaseLine(line) /\ LeaseState(st) /\ BlockOf(file, k - 1, st) /\ k \in Nat
  BY LinesNumbered DEF LeaseFile, LeaseInv
<1>2. SUFFICES LeaseState(new) /\ BlockOf(file, k, new)
  BY DEF LeaseInv, LeaseTurn
<1>3. st.info \in Info /\ st.info = [name |-> st.info.name, mac |-> st.info.mac]
  BY <1>1 DEF LeaseState, Info
<1>4. k \in Opening(file) <=> line.kind \in {"lease", "bad lease"}
  BY DEF Opening
<1>5. CASE line.kind = "lease"
  <2>1. new = [table |-> st.table, cur |-> line.addr, info |-> Blank, inTag |-> TRUE]
    BY <1>1, <1>5 DEF ReadLease, Opens, LeaseState
  <2>2. LeaseState(new)
    BY <1>1, <2>1, BlankTyped DEF LeaseState
  <2>3. \A i \in Opening(file) : i <= k \/ i > k
    BY LinesNumbered
  <2>4. BlockOf(file, k, new)
    BY <1>1, <1>4, <1>5, <2>1, <2>3 DEF BlockOf, LeaseLine, Blank
  <2>5. QED
    BY <2>2, <2>4
<1>6. CASE line.kind = "bad lease"
  <2>1. new = [table |-> st.table, cur |-> st.cur, info |-> st.info, inTag |-> FALSE]
    BY <1>1, <1>6 DEF ReadLease, BadLease, LeaseState
  <2>2. QED
    BY <1>1, <2>1 DEF LeaseState, BlockOf
<1>7. CASE line.kind \notin {"lease", "bad lease"} /\ ~st.inTag
  <2>1. new = st
    BY <1>7 DEF ReadLease
  <2>2. QED
    BY <1>1, <1>7, <2>1 DEF BlockOf
<1>8. CASE line.kind = "}" /\ st.inTag
  <2>1. new = Closes(st)
    BY <1>8 DEF ReadLease
  <2>2. /\ st.table \in [Addrs -> Info] /\ AtHome(st.table) /\ st.cur \in Addrs
        /\ st.info.name # NoName => WrittenFor[st.info.name] = st.cur
    BY <1>1, <1>8 DEF LeaseState, HomeTable, BlockOf
  <2>3. PICK t : /\ t = (IF st.info # Blank THEN [st.table EXCEPT ![st.cur] = st.info]
                         ELSE st.table)
                 /\ new = [table |-> t, cur |-> st.cur, info |-> st.info, inTag |-> FALSE]
    BY <1>1, <2>1 DEF Closes, LeaseState
  <2>4. HomeTable(t)
    <3>1. CASE st.info = Blank
      BY <2>2, <2>3, <3>1 DEF HomeTable
    <3>2. CASE st.info # Blank
      <4>1. t = [st.table EXCEPT ![st.cur] = st.info]
        BY <2>3, <3>2
      <4>2. t \in [Addrs -> Info]
        BY <1>3, <2>2, <4>1
      <4>3. \A a \in Addrs : t[a] = IF a = st.cur THEN st.info ELSE st.table[a]
        BY <2>2, <4>1
      <4>4. QED
        BY <2>2, <4>2, <4>3 DEF HomeTable, AtHome
    <3>3. QED
      BY <3>1, <3>2
  <2>5. QED
    BY <1>1, <1>3, <2>3, <2>4 DEF LeaseState, BlockOf
<1>9. ASSUME st.inTag, line.kind \notin {"lease", "bad lease"}, NEW info \in Info,
             new = [table |-> st.table, cur |-> st.cur, info |-> info, inTag |-> st.inTag],
             info.name # NoName => WrittenFor[info.name] = st.cur
      PROVE  LeaseState(new) /\ BlockOf(file, k, new)
  <2> HIDE DEF new
  <2>1. LeaseState(new)
    BY <1>1, <1>9 DEF LeaseState
  <2>2. new.cur = st.cur /\ new.info = info
    BY <1>9
  <2>3. BlockOf(file, k, new)
    BY <1>1, <1>4, <1>9, <2>2, BlockStays
  <2>4. QED
    BY <2>1, <2>3
<1>10. st.inTag => (st.info.name # NoName => WrittenFor[st.info.name] = st.cur)
  BY <1>1 DEF BlockOf
<1>11. CASE line.kind \in {"client-hostname", "hostname"} /\ st.inTag
  <2>1. line.name \in Names \cup {NoName} /\ (line.name # NoName => WrittenFor[line.name] = st.cur)
    BY <1>1, <1>11, NameOfBlock DEF LeaseLine
  <2> DEFINE info == [name |-> line.name, mac |-> st.info.mac]
  <2>2. info \in Info
    BY <1>3, <2>1 DEF Info
  <2>3. CASE line.kind = "hostname" /\ st.info.name # NoName
    <3>1. new = st
      BY <1>11, <2>3 DEF ReadLease
    <3>2. QED
      BY <1>1, <1>3, <1>9, <1>10, <1>11, <3>1 DEF LeaseState
  <2>4. CASE ~(line.kind = "hostname" /\ st.info.name # NoName)
    <3>1. new = [st EXCEPT !.info.name = line.name]
      BY <1>11, <2>4 DEF ReadLease
    <3>2. new = [table |-> st.table, cur |-> st.cur, info |-> info, inTag |-> st.inTag]
      BY <1>1, <1>3, <3>1 DEF LeaseState
    <3>3. QED
      BY <1>9, <1>11, <2>1, <2>2, <3>2
  <2>5. QED
    BY <2>3, <2>4
<1>12. CASE line.kind = "hardware" /\ st.inTag
  <2> DEFINE info == [name |-> st.info.name, mac |-> line.mac]
  <2>1. CASE line.mac = NoMac
    <3>1. new = st
      BY <1>12, <2>1 DEF ReadLease
    <3>2. QED
      BY <1>1, <1>3, <1>9, <1>10, <1>12, <3>1 DEF LeaseState
  <2>2. CASE line.mac # NoMac
    <3>1. new = [st EXCEPT !.info.mac = line.mac]
      BY <1>12, <2>2 DEF ReadLease
    <3>2. new = [table |-> st.table, cur |-> st.cur, info |-> info, inTag |-> st.inTag]
      BY <1>1, <1>3, <3>1 DEF LeaseState
    <3>3. info \in Info
      BY <1>1, <1>3, <1>12 DEF LeaseLine, Info
    <3>4. QED
      BY <1>9, <1>10, <1>12, <3>2, <3>3
  <2>3. QED
    BY <2>1, <2>2
<1>13. CASE line.kind = "other" /\ st.inTag
  <2>1. new = st
    BY <1>13 DEF ReadLease
  <2>2. QED
    BY <1>1, <1>3, <1>9, <1>10, <1>13, <2>1 DEF LeaseState
<1>14. QED
  BY <1>1, <1>5, <1>6, <1>7, <1>8, <1>11, <1>12, <1>13 DEF LeaseLine

\* A dhcpd file with its names in place makes a table with its names in place.
LEMMA LeasesHome ==
  ASSUME NEW file, LeaseFile(file), Addrs # {}
  PROVE  HomeTable(parseDHCPDLeases(file))
<1> DEFINE x0 == Outside(CHOOSE a \in Addrs : TRUE)
<1>1. PICK n \in Nat : DOMAIN file = 1 .. n
  BY DEF LeaseFile
<1>2. LeaseInv(0, file, 0, x0)
  <2>1. x0 = [table |-> BlankTable, cur |-> x0.cur, info |-> Blank, inTag |-> FALSE]
    BY DEF Outside
  <2>2. HomeTable(BlankTable)
    BY BlankTyped DEF HomeTable, AtHome, BlankTable, Blank
  <2> HIDE DEF x0
  <2>3. QED
    BY <2>1, <2>2, BlankTyped DEF LeaseInv, LeaseState, BlockOf
<1>3. ASSUME NEW k \in 1 .. n, NEW st, LeaseInv(0, file, k - 1, st)
      PROVE  LeaseInv(0, file, k, LeaseTurn(0, st, file[k]))
  BY <1>1, <1>3, LeaseTurnInv
<1>4. PICK iter :
        /\ iter = CHOOSE f : f = [t \in SUBSET (1 .. n) |->
                     IF t = {} THEN x0
                     ELSE LeaseTurn(0, f[t \ {CHOOSE x \in t : \A y \in t : x >= y}],
                                       file[CHOOSE x \in t : \A y \in t : x >= y])]
        /\ FoldLeft(ReadLease, x0, file) = iter[1 .. n]
  BY <1>1 DEF FoldLeft, MapThenFoldSet, Max, LeaseTurn
<1>5. LeaseInv(0, file, n, iter[1 .. n])
  <2> HIDE DEF x0
  <2>1. QED
    BY <1>2, <1>3, <1>4, Leases!LoopInvariant
<1>6. QED
  BY <1>4, <1>5 DEF LeaseInv, LeaseState, parseDHCPDLeases

-----------------------------------------------------------------------------
\* The files and the ARP table are what the parsers read of files whose names
\* are in place; ARP rows have none.
SourcesInPlace ==
  /\ \A t \in FileTables :
       \/ \E file : LeaseFile(file) /\ t = parseDHCPDLeases(file)
       \/ \E file : RowFile(file) /\ t \in {parseDnsmasqLeases(file), parseHosts(file)}
  /\ \A t \in ARPTables :
       \E file : RowFile(IF file = <<>> THEN <<>> ELSE Tail(file)) /\ t = readARP(file)

\* Every table a source can hold has its names in place.
LEMMA SourcesHome ==
  ASSUME SourcesInPlace
  PROVE  \A t \in FileTables \cup ARPTables : HomeTable(t)
<1>1. ASSUME NEW t \in FileTables
      PROVE  HomeTable(t)
  <2>1. CASE \E file : LeaseFile(file) /\ t = parseDHCPDLeases(file)
    <3>1. PICK file : LeaseFile(file) /\ t = parseDHCPDLeases(file)
      BY <2>1
    <3>2. CASE Addrs = {}
      BY <3>2, DevicesAssumption DEF HomeTable, AtHome
    <3>3. CASE Addrs # {}
      BY <3>1, <3>3, LeasesHome
    <3>4. QED
      BY <3>2, <3>3
  <2>2. CASE \E file : RowFile(file) /\ t \in {parseDnsmasqLeases(file), parseHosts(file)}
    BY <2>2, RowsHome DEF parseDnsmasqLeases, parseHosts
  <2>3. QED
    BY <2>1, <2>2 DEF SourcesInPlace
<1>2. ASSUME NEW t \in ARPTables
      PROVE  HomeTable(t)
  <2>1. PICK file : RowFile(IF file = <<>> THEN <<>> ELSE Tail(file)) /\ t = readARP(file)
    BY DEF SourcesInPlace
  <2>2. QED
    BY <2>1, RowsHome DEF readARP
<1>3. QED
  BY <1>1, <1>2

\* The names of the table queries read, and of the one being built, are in place.
HomeInv == AtHome(learned) /\ AtHome(table)

\* A read merges tables that both have their names in place.
LEMMA ReadsHome ==
  ASSUME TypeOK, HomeInv, NEW t, HomeTable(t), Reads(t)
  PROVE  HomeInv'
<1>1. AtHome(learned')
  BY DEF Reads, HomeInv
<1>2. AtHome(table')
  <2>1. \A a \in Addrs : table'[a].name = IF t[a].name # NoName THEN t[a].name ELSE table[a].name
    BY DEF Reads, merge
  <2>2. QED
    BY <2>1 DEF HomeInv, HomeTable, AtHome
<1>3. QED
  BY <1>1, <1>2 DEF HomeInv, AtHome

\* Every step keeps names in place.
LEMMA NextHomeInv ==
  ASSUME SourcesInPlace
  PROVE  TypeOK /\ HomeInv /\ [Next]_vars => HomeInv'
<1> SUFFICES ASSUME TypeOK, HomeInv, [Next]_vars
             PROVE  HomeInv'
  OBVIOUS
<1>1. CASE UNCHANGED vars
  BY <1>1 DEF vars, HomeInv, AtHome
<1>2. ASSUME NEW t \in FileTables, ReadFile(t) PROVE HomeInv'
  BY <1>2, ReadsHome, SourcesHome DEF ReadFile
<1>3. ASSUME NEW t \in ARPTables, ReadARP(t) PROVE HomeInv'
  BY <1>3, ReadsHome, SourcesHome DEF ReadARP
<1>4. CASE Swap
  BY <1>4 DEF Swap, HomeInv, AtHome, BlankTable, Blank
<1>5. CASE Start \/ TickerFires \/ RefresherEnds \/ Stop
  BY <1>5 DEF Start, TickerFires, RefresherEnds, Stop, HomeInv, AtHome
<1>6. CASE FileFails \/ Unlock \/ LookupEnds
  BY <1>6 DEF FileFails, Unlock, LookupEnds, HomeInv, AtHome
<1>7. ASSUME NEW a \in Addrs, Bind(a) \/ Lookup(a) PROVE HomeInv'
  BY <1>7 DEF Bind, Lookup, HomeInv, AtHome
<1>8. QED
  BY <1>1, <1>2, <1>3, <1>4, <1>5, <1>6, <1>7 DEF Next

\* No device goes by the name of another, whatever the files hold: blocks left
\* open, that do not parse, or opened again.
THEOREM NamesAtHome == ASSUME SourcesInPlace PROVE Spec => []NamesStayHome
<1>1. Init => HomeInv
  BY DEF Init, HomeInv, AtHome, BlankTable, Blank
<1>2. HomeInv => NamesStayHome
  BY DEF HomeInv, AtHome, NamesStayHome
<1>3. TypeOK /\ HomeInv /\ [Next]_vars => HomeInv'
  BY NextHomeInv
<1>4. QED
  BY <1>1, <1>2, <1>3, TypeCorrect, PTL DEF Spec
=============================================================================
