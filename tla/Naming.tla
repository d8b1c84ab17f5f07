-------------------------------- MODULE Naming --------------------------------
(***************************************************************************)
(* What the discoverer of src/discovery.go promises to the queries that    *)
(* call it: a directory holding one name per client address, which may     *)
(* lose any of them at any time but never mixes them up.                   *)
(*                                                                         *)
(* A query that asks is answered with the name the directory holds at one  *)
(* moment between its call and its answer. Only when there is no name may  *)
(* it wait, for one lookup of its own address; it stops waiting when it    *)
(* gives up or when that lookup has settled the name, and never sooner.    *)
(*                                                                         *)
(* How lookups are shared, limited, joined and counted is left to the      *)
(* discoverer.                                                             *)
(***************************************************************************)
CONSTANTS Addrs, NoAddr, Names, NoName, Queries, Lookups, NoLookup

VARIABLES
  fact,  \* name held for each address
  job,   \* per lookup: state, address it is for
  call   \* per query: state, address, lookup waited for, name given

vars == <<fact, job, call>>

NoJob  == [state |-> "none", addr |-> NoAddr]
NoCall == [state |-> "idle", addr |-> NoAddr, on |-> NoLookup, name |-> NoName]

Init ==
  /\ fact = [a \in Addrs |-> NoName]
  /\ job = [l \in Lookups |-> NoJob]
  /\ call = [q \in Queries |-> NoCall]

Given(a, name) == [state |-> "answered", addr |-> a, on |-> NoLookup, name |-> name]

\* A lookup for a may begin at any call.
MayBegin(a) ==
  \/ UNCHANGED job
  \/ \E l \in Lookups :
       /\ job[l].state = "none"
       /\ job' = [job EXCEPT ![l] = [state |-> "busy", addr |-> a]]

Asks(q, a) ==
  /\ call[q].state = "idle"
  /\ MayBegin(a)
  /\ UNCHANGED fact
  /\ \/ call' = [call EXCEPT ![q] = Given(a, fact[a])]
     \/ /\ fact[a] = NoName
        /\ \E l \in Lookups :
             /\ job'[l].addr = a
             /\ call' = [call EXCEPT ![q] = [state |-> "waiting", addr |-> a,
                                             on |-> l, name |-> NoName]]

\* The lookup waited for is settled, or over already.
Wakes(q) ==
  /\ call[q].state = "waiting"
  /\ \E l \in Lookups :
       /\ l = call[q].on
       /\ job[l].state # "busy"
  /\ call' = [call EXCEPT ![q] = [call[q] EXCEPT !.on = NoLookup]]
  /\ UNCHANGED <<fact, job>>

\* Awake, the query reads the directory; still waiting, it may give up.
Answers(q) ==
  LET c == call[q] IN
  /\ c.state = "waiting"
  /\ call' = [call EXCEPT ![q] = Given(c.addr, IF c.on = NoLookup THEN fact[c.addr] ELSE NoName)]
  /\ UNCHANGED <<fact, job>>

Leaves(q) ==
  /\ call[q].state = "answered"
  /\ call' = [call EXCEPT ![q] = NoCall]
  /\ UNCHANGED <<fact, job>>

\* A lookup settles the name of its own address. Another name may be lost.
Settles(l, n) ==
  /\ job[l].state = "busy"
  /\ \E lost \in Addrs :
       fact' = [a \in Addrs |-> IF a = job[l].addr THEN n
                                ELSE IF a = lost THEN NoName ELSE fact[a]]
  /\ job' = [job EXCEPT ![l] = [state |-> "settled", addr |-> job[l].addr]]
  /\ UNCHANGED call

Ends(l) ==
  /\ job[l].state = "settled"
  /\ job' = [job EXCEPT ![l] = NoJob]
  /\ UNCHANGED <<fact, call>>

Next ==
  \/ \E q \in Queries : (\E a \in Addrs : Asks(q, a)) \/ Wakes(q) \/ Answers(q) \/ Leaves(q)
  \/ \E l \in Lookups : (\E n \in Names \cup {NoName} : Settles(l, n)) \/ Ends(l)

Spec == Init /\ [][Next]_vars
=============================================================================
