---------------------------- MODULE CorefileProofs ----------------------------
(***************************************************************************)
(* What the plugin's block comes to, for files of every length: queries    *)
(* take the routes that the lines name, and lines that set different       *)
(* things can change places. The loop over the lines keeps an invariant,   *)
(* by FoldProofs; the rest is about the order of subnets.                  *)
(***************************************************************************)
EXTENDS Corefile, FiniteSetTheorems, TLAPS

-----------------------------------------------------------------------------
(***************************************************************************)
(* The order of subnets                                                    *)
(***************************************************************************)

\* Subnets as they are parsed: each has a length.
Subnets(clients, m) ==
  m \in Nat /\ DOMAIN clients = 1 .. m /\ \A i \in 1 .. m : clients[i].prefix.bits \in Int

\* Before is a strict total order.
LEMMA BeforeOrders ==
  ASSUME NEW clients, NEW m, Subnets(clients, m)
  PROVE  /\ \A i \in 1 .. m : ~Before(clients, i, i)
         /\ \A i, j \in 1 .. m : i # j => Before(clients, i, j) \/ Before(clients, j, i)
         /\ \A i, j, k \in 1 .. m :
              Before(clients, i, j) /\ Before(clients, j, k) => Before(clients, i, k)
BY DEF Subnets, Before

Rank(clients, i) == Cardinality(Ahead(clients, i))

\* The number of subnets ahead of one grows along the order.
LEMMA RankGrows ==
  ASSUME NEW clients, NEW m, Subnets(clients, m)
  PROVE  /\ \A i \in 1 .. m : Rank(clients, i) \in 0 .. m - 1
         /\ \A i, j \in 1 .. m : Before(clients, i, j) => Rank(clients, i) < Rank(clients, j)
<1>1. IsFiniteSet(1 .. m) /\ Cardinality(1 .. m) = m
  BY FS_Interval DEF Subnets
<1>2. ASSUME NEW i \in 1 .. m
      PROVE  /\ Ahead(clients, i) \subseteq 1 .. m /\ i \notin Ahead(clients, i)
             /\ IsFiniteSet(Ahead(clients, i)) /\ Rank(clients, i) \in Nat
             /\ Rank(clients, i) < m
  <2>1. Ahead(clients, i) \subseteq 1 .. m /\ i \notin Ahead(clients, i)
    BY BeforeOrders DEF Ahead, Subnets
  <2>2. IsFiniteSet(Ahead(clients, i)) /\ Rank(clients, i) \in Nat
    BY <1>1, <2>1, FS_Subset, FS_CardinalityType DEF Rank
  <2>3. Rank(clients, i) <= m /\ Rank(clients, i) # m
    BY <1>1, <2>1, FS_Subset DEF Rank
  <2>4. QED
    BY <2>1, <2>2, <2>3 DEF Subnets
<1>3. ASSUME NEW i \in 1 .. m, NEW j \in 1 .. m, Before(clients, i, j)
      PROVE  Rank(clients, i) < Rank(clients, j)
  <2>1. Ahead(clients, i) \subseteq Ahead(clients, j) /\ i \in Ahead(clients, j)
    BY <1>3, BeforeOrders DEF Ahead, Subnets
  <2>2. Rank(clients, i) <= Rank(clients, j) /\ Rank(clients, i) # Rank(clients, j)
    BY <1>2, <2>1, FS_Subset DEF Rank
  <2>3. QED
    BY <1>2, <2>2
<1>4. QED
  BY <1>2, <1>3 DEF Subnets

\* LongestFirst puts every subnet at the place its rank says.
LEMMA Sorted ==
  ASSUME NEW clients, NEW m, Subnets(clients, m)
  PROVE  /\ DOMAIN LongestFirst(clients) = 1 .. m
         /\ \E at \in [1 .. m -> 1 .. m] :
              /\ \A i \in 1 .. m : LongestFirst(clients)[i] = clients[at[i]]
              /\ \A j \in 1 .. m : \E i \in 1 .. m : at[i] = j
              /\ \A i, j \in 1 .. m : i < j => Before(clients, at[i], at[j])
<1> DEFINE S == 1 .. m
           f == [j \in S |-> Rank(clients, j) + 1]
           at == [i \in S |-> CHOOSE j \in S : Rank(clients, j) = i - 1]
<1>1. m \in Nat /\ DOMAIN clients = S /\ IsFiniteSet(S)
  BY FS_Interval DEF Subnets
<1>2. f \in [S -> S]
  BY <1>1, RankGrows
<1>3. \A i, j \in S : i # j => f[i] # f[j]
  <2>1. ASSUME NEW i \in S, NEW j \in S, i # j
        PROVE  Rank(clients, i) # Rank(clients, j)
    BY <2>1, BeforeOrders, RankGrows
  <2>2. \A i \in S : Rank(clients, i) \in Int
    BY <1>1, RankGrows
  <2>3. QED
    BY <2>1, <2>2
<1>4. f \in Surjection(S, S)
  <2>1. f \in Injection(S, S)
    BY <1>2, <1>3 DEF Injection, IsInjective
  <2>2. QED
    BY <1>1, <2>1, FS_Injection
<1>5. ASSUME NEW i \in S
      PROVE  at[i] \in S /\ Rank(clients, at[i]) = i - 1
  <2>1. \E j \in S : f[j] = i
    BY <1>4 DEF Surjection
  <2>2. \E j \in S : Rank(clients, j) = i - 1
    <3>1. PICK j \in S : f[j] = i
      BY <2>1
    <3>2. Rank(clients, j) + 1 = i /\ Rank(clients, j) \in Int
      BY <1>1, <3>1, RankGrows
    <3>3. QED
      BY <3>1, <3>2
  <2>3. QED
    BY <2>2
<1>6. ASSUME NEW j \in S
      PROVE  \E i \in S : at[i] = j
  <2>1. Rank(clients, j) + 1 \in S /\ (Rank(clients, j) + 1) - 1 = Rank(clients, j)
    BY <1>1, RankGrows
  <2>2. PICK i \in S : i - 1 = Rank(clients, j)
    BY <2>1
  <2>3. at[i] \in S /\ Rank(clients, at[i]) = Rank(clients, j)
    BY <1>5, <2>2
  <2>4. at[i] = j
    BY <1>1, <2>3, BeforeOrders, RankGrows
  <2>5. QED
    BY <2>4
<1>7. ASSUME NEW i \in S, NEW j \in S, i < j
      PROVE  Before(clients, at[i], at[j])
  <2>1. /\ at[i] \in S /\ Rank(clients, at[i]) = i - 1
        /\ at[j] \in S /\ Rank(clients, at[j]) = j - 1
    BY <1>5
  <2>2. Rank(clients, at[i]) < Rank(clients, at[j])
    BY <1>1, <1>7, <2>1
  <2> HIDE DEF at
  <2>3. at[i] # at[j] /\ ~Before(clients, at[j], at[i])
    BY <2>1, <2>2, RankGrows
  <2>4. QED
    BY <2>1, <2>3, BeforeOrders
<1>8. LongestFirst(clients) = [i \in S |-> clients[at[i]]]
  BY <1>1 DEF LongestFirst, Rank
<1>9. at \in [S -> S]
  BY <1>5
<1>10. QED
  <2> HIDE DEF at
  <2>1. QED
    BY <1>6, <1>7, <1>8, <1>9

-----------------------------------------------------------------------------
(***************************************************************************)
(* The loop over the lines                                                 *)
(***************************************************************************)

\* Lines up to the k-th, with an option, and with a view of view_profile.
With(file, k, opt) == {i \in 1 .. k : file[i].opt = opt}

Viewing(file, k, v) == {i \in 1 .. k : file[i].opt = "view_profile" /\ file[i].view = v}

Setting == {"profile", "view_profile", "client_profile", "device_id"}

Features(file, k) == {file[i].opt : i \in {j \in 1 .. k : file[j].opt \notin Setting}}

LastMode(file, lines) ==
  IF lines = {} THEN "auto" ELSE file[CHOOSE i \in lines : \A j \in lines : j <= i].mode

Client(line) == [prefix |-> parsePrefix(line.addr, line.bits), profile |-> line.profile]

\* The subnets of the first k lines, in their order: at[j] is the line of the j-th.
ListedAt(file, k, clients, m, at) ==
  /\ m \in Nat
  /\ clients = [j \in 1 .. m |-> Client(file[at[j]])]
  /\ at \in [1 .. m -> With(file, k, "client_profile")]
  /\ \A i, j \in 1 .. m : i < j => at[i] < at[j]
  /\ \A i \in With(file, k, "client_profile") : \E j \in 1 .. m : at[j] = i

Listed(file, k, clients) == \E m, at : ListedAt(file, k, clients, m, at)

\* What the first k lines have set.
ConfInv(c, file, k, conf) ==
  /\ conf = [profile |-> conf.profile, views |-> conf.views, clients |-> conf.clients,
             mode |-> conf.mode, on |-> conf.on]
  /\ conf.profile = LastOf(file, With(file, k, "profile"), NoProfile)
  /\ conf.views = [v \in Views |-> LastOf(file, Viewing(file, k, v), NoProfile)]
  /\ Listed(file, k, conf.clients)
  /\ conf.mode = LastMode(file, With(file, k, "device_id"))
  /\ conf.on = Features(file, k)

ConfTurn(c, conf, line) == Apply(conf, line)

Block == INSTANCE FoldProofs WITH Op <- ConfTurn, Holds <- ConfInv

\* A line's own option gains the line, the others stay.
LEMMA LinesGrow ==
  ASSUME NEW file, NEW k \in Nat \ {0}
  PROVE  /\ \A opt : With(file, k, opt) = IF file[k].opt = opt THEN With(file, k - 1, opt) \cup {k}
                                          ELSE With(file, k - 1, opt)
         /\ \A v : Viewing(file, k, v) =
              IF file[k].opt = "view_profile" /\ file[k].view = v
                THEN Viewing(file, k - 1, v) \cup {k} ELSE Viewing(file, k - 1, v)
         /\ Features(file, k) = IF file[k].opt \in Setting THEN Features(file, k - 1)
                                ELSE Features(file, k - 1) \cup {file[k].opt}
<1>1. 1 .. k = (1 .. k - 1) \cup {k} /\ k \notin 1 .. k - 1
  OBVIOUS
<1>2. \A opt : With(file, k, opt) = IF file[k].opt = opt THEN With(file, k - 1, opt) \cup {k}
                                    ELSE With(file, k - 1, opt)
  BY <1>1 DEF With
<1>3. \A v : Viewing(file, k, v) =
               IF file[k].opt = "view_profile" /\ file[k].view = v
                 THEN Viewing(file, k - 1, v) \cup {k} ELSE Viewing(file, k - 1, v)
  BY <1>1 DEF Viewing
<1>4. Features(file, k) = IF file[k].opt \in Setting THEN Features(file, k - 1)
                          ELSE Features(file, k - 1) \cup {file[k].opt}
  BY <1>1 DEF Features
<1>5. QED
  BY <1>2, <1>3, <1>4

\* Of lines up to the k-th and with it, the last is the k-th.
LEMMA LastIsNewest ==
  ASSUME NEW file, NEW k \in Nat, NEW lines \in SUBSET (1 .. k - 1), NEW otherwise
  PROVE  /\ LastOf(file, lines \cup {k}, otherwise) = file[k].profile
         /\ LastMode(file, lines \cup {k}) = file[k].mode
<1>1. \A i \in lines \cup {k} : (\A j \in lines \cup {k} : j <= i) <=> i = k
  OBVIOUS
<1>2. (CHOOSE i \in lines \cup {k} : \A j \in lines \cup {k} : j <= i) = k
  BY <1>1
<1>3. QED
  BY <1>2 DEF LastOf, LastMode

\* A line that names a subnet is listed after those before it.
LEMMA ListGrows ==
  ASSUME NEW file, NEW k \in Nat \ {0}, NEW clients, Listed(file, k - 1, clients),
         file[k].opt = "client_profile"
  PROVE  Listed(file, k, Append(clients, Client(file[k])))
<1>1. PICK m, at : ListedAt(file, k - 1, clients, m, at)
  BY DEF Listed
<1> DEFINE old == With(file, k - 1, "client_profile")
           lines == With(file, k, "client_profile")
           more == [j \in 1 .. m + 1 |-> IF j = m + 1 THEN k ELSE at[j]]
           longer == Append(clients, Client(file[k]))
<1>2. /\ m \in Nat /\ at \in [1 .. m -> old]
      /\ clients = [j \in 1 .. m |-> Client(file[at[j]])]
  BY <1>1 DEF ListedAt
<1>3. lines = old \cup {k} /\ \A i \in old : i \in Nat /\ i < k
  <2>1. lines = old \cup {k}
    BY LinesGrow
  <2>2. QED
    BY <2>1 DEF With
<1>4. more \in [1 .. m + 1 -> lines]
  BY <1>2, <1>3
<1>5. longer = [j \in 1 .. m + 1 |-> Client(file[more[j]])]
  <2>1. PICK S : clients \in Seq(S) /\ Len(clients) = m
    <3>1. clients \in [1 .. m -> {Client(file[at[j]]) : j \in 1 .. m}]
      BY <1>2
    <3>2. clients \in Seq({Client(file[at[j]]) : j \in 1 .. m}) /\ Len(clients) = m
      BY <1>2, <3>1
    <3>3. QED
      BY <3>2
  <2>2. longer = [j \in 1 .. m + 1 |-> IF j = m + 1 THEN Client(file[k]) ELSE clients[j]]
    BY <1>2, <2>1
  <2>3. \A j \in 1 .. m + 1 :
          Client(file[more[j]]) = IF j = m + 1 THEN Client(file[k]) ELSE clients[j]
    BY <1>2
  <2>4. QED
    BY <2>2, <2>3
<1>6. \A i, j \in 1 .. m + 1 : i < j => more[i] < more[j]
  <2>1. \A i, j \in 1 .. m : i < j => at[i] < at[j]
    BY <1>1 DEF ListedAt
  <2>2. QED
    BY <1>2, <1>3, <2>1
<1>7. ASSUME NEW i \in lines
      PROVE  \E j \in 1 .. m + 1 : more[j] = i
  <2>1. CASE i = k
    BY <1>2, <2>1
  <2>2. CASE i \in old
    <3>1. PICK j \in 1 .. m : at[j] = i
      BY <1>1, <2>2 DEF ListedAt
    <3>2. QED
      BY <1>2, <3>1
  <2>3. QED
    BY <1>3, <2>1, <2>2
<1>8. ListedAt(file, k, longer, m + 1, more)
  BY <1>2, <1>4, <1>5, <1>6, <1>7 DEF ListedAt
<1>9. QED
  BY <1>8 DEF Listed

\* A line of any other option leaves the list.
LEMMA ListStays ==
  ASSUME NEW file, NEW k \in Nat \ {0}, NEW clients, Listed(file, k - 1, clients),
         file[k].opt # "client_profile"
  PROVE  Listed(file, k, clients)
<1>1. With(file, k, "client_profile") = With(file, k - 1, "client_profile")
  BY LinesGrow
<1>2. PICK m, at : ListedAt(file, k - 1, clients, m, at)
  BY DEF Listed
<1>3. ListedAt(file, k, clients, m, at)
  BY <1>1, <1>2 DEF ListedAt
<1>4. QED
  BY <1>3 DEF Listed

\* Every turn of the loop keeps the invariant.
LEMMA TurnKeeps ==
  ASSUME NEW file, NEW k \in Nat \ {0}, NEW conf, ConfInv(0, file, k - 1, conf),
         file[k].opt = "view_profile" => file[k].view \in Views
  PROVE  ConfInv(0, file, k, ConfTurn(0, conf, file[k]))
<1> DEFINE line == file[k]
           new == Apply(conf, line)
<1>1. /\ conf = [profile |-> conf.profile, views |-> conf.views, clients |-> conf.clients,
                 mode |-> conf.mode, on |-> conf.on]
      /\ conf.profile = LastOf(file, With(file, k - 1, "profile"), NoProfile)
      /\ conf.views = [v \in Views |-> LastOf(file, Viewing(file, k - 1, v), NoProfile)]
      /\ Listed(file, k - 1, conf.clients)
      /\ conf.mode = LastMode(file, With(file, k - 1, "device_id"))
      /\ conf.on = Features(file, k - 1)
  BY DEF ConfInv
<1>2. /\ \A opt : With(file, k - 1, opt) \in SUBSET (1 .. k - 1)
      /\ \A v : Viewing(file, k - 1, v) \in SUBSET (1 .. k - 1)
  BY DEF With, Viewing
\* What stays if the line does not set it.
<1>3. line.opt # "profile" => conf.profile = LastOf(file, With(file, k, "profile"), NoProfile)
  BY <1>1, LinesGrow
<1>4. line.opt # "view_profile" =>
        conf.views = [v \in Views |-> LastOf(file, Viewing(file, k, v), NoProfile)]
  BY <1>1, LinesGrow
<1>5. line.opt # "client_profile" => Listed(file, k, conf.clients)
  BY <1>1, ListStays
<1>6. line.opt # "device_id" => conf.mode = LastMode(file, With(file, k, "device_id"))
  BY <1>1, LinesGrow
<1>7. line.opt \in Setting => conf.on = Features(file, k)
  BY <1>1, LinesGrow
<1>8. ASSUME NEW lines \in SUBSET (1 .. k - 1)
       PROVE  /\ LastOf(file, lines \cup {k}, NoProfile) = line.profile
              /\ LastMode(file, lines \cup {k}) = line.mode
  BY LastIsNewest
<1>9. SUFFICES ConfInv(0, file, k, new)
  BY DEF ConfTurn
<1>10. CASE line.opt = "profile"
  <2>1. new = [profile |-> line.profile, views |-> conf.views, clients |-> conf.clients,
               mode |-> conf.mode, on |-> conf.on]
    BY <1>1, <1>10 DEF Apply
  <2>2. line.profile = LastOf(file, With(file, k, "profile"), NoProfile)
    <3>1. With(file, k, "profile") = With(file, k - 1, "profile") \cup {k}
      BY <1>10, LinesGrow
    <3>2. QED
      BY <1>2, <1>8, <3>1
  <2>3. QED
    BY <1>4, <1>5, <1>6, <1>7, <1>10, <2>1, <2>2 DEF ConfInv, Setting
<1>11. CASE line.opt = "view_profile"
  <2> DEFINE views == [conf.views EXCEPT ![line.view] = line.profile]
  <2>1. new = [profile |-> conf.profile, views |-> views, clients |-> conf.clients,
               mode |-> conf.mode, on |-> conf.on]
    BY <1>1, <1>11 DEF Apply
  <2>2. ASSUME NEW v \in Views
        PROVE  views[v] = LastOf(file, Viewing(file, k, v), NoProfile)
    <3>1. CASE v = line.view
      <4>1. Viewing(file, k, v) = Viewing(file, k - 1, v) \cup {k}
        BY <1>11, <3>1, LinesGrow
      <4>2. LastOf(file, Viewing(file, k, v), NoProfile) = line.profile
        BY <1>2, <1>8, <4>1
      <4>3. QED
        BY <1>1, <3>1, <4>2
    <3>2. CASE v # line.view
      <4>1. Viewing(file, k, v) = Viewing(file, k - 1, v)
        BY <3>2, LinesGrow
      <4>2. QED
        BY <1>1, <3>2, <4>1
    <3>3. QED
      BY <3>1, <3>2
  <2>3. views = [v \in Views |-> LastOf(file, Viewing(file, k, v), NoProfile)]
    <3>1. views = [v \in Views |-> views[v]]
      BY <1>1
    <3> HIDE DEF views
    <3>2. QED
      BY <2>2, <3>1
  <2> HIDE DEF views
  <2>4. QED
    BY <1>3, <1>5, <1>6, <1>7, <1>11, <2>1, <2>3 DEF ConfInv, Setting
<1>12. CASE line.opt = "client_profile"
  <2> DEFINE clients == Append(conf.clients, Client(line))
  <2>1. new = [profile |-> conf.profile, views |-> conf.views, clients |-> clients,
               mode |-> conf.mode, on |-> conf.on]
    BY <1>1, <1>12 DEF Apply, Client
  <2>2. Listed(file, k, clients)
    BY <1>1, <1>12, ListGrows
  <2> HIDE DEF clients
  <2>3. QED
    BY <1>3, <1>4, <1>6, <1>7, <1>12, <2>1, <2>2 DEF ConfInv, Setting
<1>13. CASE line.opt = "device_id"
  <2>1. new = [profile |-> conf.profile, views |-> conf.views, clients |-> conf.clients,
               mode |-> line.mode, on |-> conf.on]
    BY <1>1, <1>13 DEF Apply
  <2>2. line.mode = LastMode(file, With(file, k, "device_id"))
    <3>1. With(file, k, "device_id") = With(file, k - 1, "device_id") \cup {k}
      BY <1>13, LinesGrow
    <3>2. QED
      BY <1>2, <1>8, <3>1
  <2>3. QED
    BY <1>3, <1>4, <1>5, <1>7, <1>13, <2>1, <2>2 DEF ConfInv, Setting
<1>14. CASE line.opt \notin Setting
  <2> DEFINE on == conf.on \cup {line.opt}
  <2>1. new = [profile |-> conf.profile, views |-> conf.views, clients |-> conf.clients,
               mode |-> conf.mode, on |-> on]
    BY <1>1, <1>14 DEF Apply, Setting
  <2>2. on = Features(file, k)
    BY <1>1, <1>14, LinesGrow
  <2> HIDE DEF on
  <2>3. QED
    BY <1>3, <1>4, <1>5, <1>6, <1>14, <2>1, <2>2 DEF ConfInv, Setting
<1>15. QED
  BY <1>10, <1>11, <1>12, <1>13, <1>14 DEF Setting

ReadLines(file) == FoldLeft(Apply, New, file)

\* After the loop, every line has been taken into account.
LEMMA BlockRead ==
  ASSUME NEW file, WellFormed(file)
  PROVE  /\ Len(file) \in Nat /\ DOMAIN file = 1 .. Len(file)
         /\ ConfInv(0, file, Len(file), ReadLines(file))
<1> DEFINE n == Len(file)
<1>1. n \in Nat /\ DOMAIN file = 1 .. n
  BY DEF WellFormed
<1> HIDE DEF n
<1>2. ConfInv(0, file, 0, New)
  <2>1. /\ \A opt : With(file, 0, opt) = {}
        /\ \A v : Viewing(file, 0, v) = {}
        /\ Features(file, 0) = {}
    BY DEF With, Viewing, Features
  <2>2. Listed(file, 0, <<>>)
    <3>1. ListedAt(file, 0, <<>>, 0, <<>>)
      BY <2>1 DEF ListedAt
    <3>2. QED
      BY <3>1 DEF Listed
  <2>3. QED
    BY <2>1, <2>2 DEF ConfInv, New, LastOf, LastMode
<1>3. ASSUME NEW k \in 1 .. n, NEW conf, ConfInv(0, file, k - 1, conf)
      PROVE  ConfInv(0, file, k, ConfTurn(0, conf, file[k]))
  <2>1. k \in Nat \ {0} /\ (file[k].opt = "view_profile" => file[k].view \in Views)
    BY <1>1 DEF WellFormed
  <2>2. QED
    BY <1>3, <2>1, TurnKeeps
<1>4. PICK iter :
        /\ iter = CHOOSE f : f = [t \in SUBSET (1 .. n) |->
                     IF t = {} THEN New
                     ELSE ConfTurn(0, f[t \ {CHOOSE x \in t : \A y \in t : x >= y}],
                                      file[CHOOSE x \in t : \A y \in t : x >= y])]
        /\ ReadLines(file) = iter[1 .. n]
  BY <1>1 DEF ReadLines, FoldLeft, MapThenFoldSet, Max, ConfTurn
<1>5. ConfInv(0, file, n, iter[1 .. n])
  BY <1>1, <1>2, <1>3, <1>4, Block!LoopInvariant
<1>6. QED
  BY <1>1, <1>4, <1>5 DEF n

-----------------------------------------------------------------------------
(***************************************************************************)
(* Routes                                                                  *)
(***************************************************************************)

\* The length of a subnet that has clients is the one it was written with.
LEMMA SubnetLength ==
  ASSUME NEW line, line.bits \in Nat \cup {HostRoute}
  PROVE  /\ parsePrefix(line.addr, line.bits).bits \in Int
         /\ Bits(line) \in Int
         /\ \A c : Covers(parsePrefix(line.addr, line.bits), c) =>
                     parsePrefix(line.addr, line.bits).bits = Bits(line)
<1>1. CASE line.bits = HostRoute
  BY <1>1, CorefileAssumption DEF parsePrefix, Bits
<1>2. CASE line.bits # HostRoute /\ line.bits > Width
  <2>1. parsePrefix(line.addr, line.bits).bits = -1
    BY <1>2 DEF parsePrefix, Unusable
  <2>2. \A c : ~Covers(parsePrefix(line.addr, line.bits), c)
    BY <2>1 DEF Covers
  <2>3. QED
    BY <1>2, <2>1, <2>2 DEF Bits
<1>3. CASE line.bits # HostRoute /\ ~(line.bits > Width)
  BY <1>3 DEF parsePrefix, Bits
<1>4. QED
  BY <1>1, <1>2, <1>3

\* The place of a smallest element is what CHOOSE finds.
LEMMA LeastIs ==
  ASSUME NEW S \in SUBSET Int, NEW m \in S, \A k \in S : m <= k
  PROVE  (CHOOSE i \in S : \A j \in S : i <= j) = m
<1>1. \A i \in S : (\A j \in S : i <= j) <=> i = m
  OBVIOUS
<1>2. QED
  BY <1>1

Matching(clients, c) == {i \in DOMAIN clients : Covers(clients[i].prefix, c)}

Lowest(S) == CHOOSE i \in S : \A j \in S : i <= j

\* The list of a file's subnets is one of subnets.
LEMMA ListedSubnets ==
  ASSUME NEW file, WellFormed(file), NEW clients, Listed(file, Len(file), clients)
  PROVE  \E m : Subnets(clients, m)
<1>1. PICK m, line : ListedAt(file, Len(file), clients, m, line)
  BY DEF Listed
<1>2. Len(file) \in Nat /\ DOMAIN file = 1 .. Len(file)
  BY BlockRead
<1>3. ASSUME NEW j \in 1 .. m
      PROVE  clients[j].prefix.bits \in Int
  <2>1. clients[j] = Client(file[line[j]]) /\ line[j] \in DOMAIN file
        /\ file[line[j]].opt = "client_profile"
    BY <1>1, <1>2 DEF ListedAt, With
  <2>2. file[line[j]].bits \in Nat \cup {HostRoute}
    BY <2>1 DEF WellFormed
  <2>3. QED
    BY <2>1, <2>2, SubnetLength DEF Client
<1>4. Subnets(clients, m)
  BY <1>1, <1>3 DEF Subnets, ListedAt
<1>5. QED
  BY <1>4

\* The first subnet in the sorted list that has the client is, of the lines that
\* name such a subnet, the first of those with the longest.
LEMMA FirstIsClosest ==
  ASSUME NEW file, WellFormed(file), NEW clients, Listed(file, Len(file), clients), NEW c
  PROVE  /\ Matching(LongestFirst(clients), c) = {} <=> NamedBy(file, c) = {}
         /\ Matching(LongestFirst(clients), c) # {} =>
              LongestFirst(clients)[Lowest(Matching(LongestFirst(clients), c))].profile
                = file[Lowest(Closest(file, c))].profile
<1> DEFINE n == Len(file)
           sorted == LongestFirst(clients)
           matching == Matching(sorted, c)
<1>1. PICK m, line : ListedAt(file, n, clients, m, line)
  BY DEF Listed
<1>2. n \in Nat /\ DOMAIN file = 1 .. n
  BY BlockRead
<1> HIDE DEF n
<1>3. /\ m \in Nat /\ DOMAIN clients = 1 .. m
      /\ \A j \in 1 .. m : clients[j] = Client(file[line[j]])
      /\ \A j \in 1 .. m : line[j] \in 1 .. n /\ file[line[j]].opt = "client_profile"
  BY <1>1 DEF ListedAt, With
<1>4. \A i, j \in 1 .. m : i < j => line[i] < line[j]
  BY <1>1 DEF ListedAt
<1>5. \A i \in 1 .. n : file[i].opt = "client_profile" => \E j \in 1 .. m : line[j] = i
  BY <1>1 DEF ListedAt, With
<1>6. ASSUME NEW j \in 1 .. m
      PROVE  /\ clients[j].prefix = parsePrefix(file[line[j]].addr, file[line[j]].bits)
             /\ clients[j].profile = file[line[j]].profile
             /\ clients[j].prefix.bits \in Int
             /\ Bits(file[line[j]]) \in Int
             /\ Covers(clients[j].prefix, c) => clients[j].prefix.bits = Bits(file[line[j]])
  <2>1. file[line[j]].bits \in Nat \cup {HostRoute}
    BY <1>2, <1>3 DEF WellFormed
  <2>2. clients[j].prefix = parsePrefix(file[line[j]].addr, file[line[j]].bits)
        /\ clients[j].profile = file[line[j]].profile
    BY <1>3 DEF Client
  <2>3. QED
    BY <2>1, <2>2, SubnetLength
<1>7. \A i : i \in NamedBy(file, c)
                <=> \E j \in 1 .. m : line[j] = i /\ Covers(clients[j].prefix, c)
  <2>1. ASSUME NEW i \in NamedBy(file, c)
        PROVE  \E j \in 1 .. m : line[j] = i /\ Covers(clients[j].prefix, c)
    <3>1. /\ i \in 1 .. n /\ file[i].opt = "client_profile"
          /\ Covers(parsePrefix(file[i].addr, file[i].bits), c)
      BY <1>2 DEF NamedBy
    <3>2. PICK j \in 1 .. m : line[j] = i
      BY <1>5, <3>1
    <3>3. QED
      BY <1>6, <3>1, <3>2
  <2>2. ASSUME NEW j \in 1 .. m, Covers(clients[j].prefix, c)
        PROVE  line[j] \in NamedBy(file, c)
    BY <1>2, <1>3, <1>6, <2>2 DEF NamedBy
  <2>3. QED
    BY <2>1, <2>2
<1>8. Subnets(clients, m)
  BY <1>3, <1>6 DEF Subnets
<1>9. DOMAIN sorted = 1 .. m
  BY <1>8, Sorted
<1>10. PICK at \in [1 .. m -> 1 .. m] :
         /\ \A i \in 1 .. m : sorted[i] = clients[at[i]]
         /\ \A j \in 1 .. m : \E i \in 1 .. m : at[i] = j
         /\ \A i, j \in 1 .. m : i < j => Before(clients, at[i], at[j])
  BY <1>8, Sorted
<1> HIDE DEF sorted
<1>11. \A i : i \in matching <=> i \in 1 .. m /\ Covers(clients[at[i]].prefix, c)
  BY <1>9, <1>10 DEF Matching
<1>12. matching = {} <=> NamedBy(file, c) = {}
  <2>1. ASSUME NEW i \in matching PROVE line[at[i]] \in NamedBy(file, c)
    BY <1>7, <1>10, <1>11
  <2>2. ASSUME NEW i \in NamedBy(file, c) PROVE matching # {}
    BY <1>7, <1>10, <1>11
  <2>3. QED
    BY <2>1, <2>2
<1>13. ASSUME matching # {}
       PROVE  sorted[Lowest(matching)].profile = file[Lowest(Closest(file, c))].profile
  <2>1. PICK p \in matching : \A i \in matching : p <= i
    <3>1. matching \in SUBSET Nat
      BY <1>11
    <3>2. QED
      BY <1>13, <3>1, Block!LeastNat
  <2>2. Lowest(matching) = p
    <3>1. matching \in SUBSET Int
      BY <1>11
    <3>2. QED
      BY <2>1, <3>1, LeastIs DEF Lowest
  <2> DEFINE q == at[p]
  <2>3. p \in 1 .. m /\ q \in 1 .. m /\ Covers(clients[q].prefix, c)
    BY <1>10, <1>11
  \* Any other subnet of the client is shorter, or as long and further down.
  <2>4. ASSUME NEW j \in 1 .. m, Covers(clients[j].prefix, c)
        PROVE  /\ Bits(file[line[q]]) >= Bits(file[line[j]])
               /\ Bits(file[line[q]]) = Bits(file[line[j]]) => line[q] <= line[j]
    <3>1. PICK i \in 1 .. m : at[i] = j
      BY <1>10
    <3>2. i \in matching /\ p <= i
      BY <1>11, <2>1, <2>4, <3>1
    <3>3. j = q \/ Before(clients, q, j)
      BY <1>10, <2>3, <3>1, <3>2
    <3>4. /\ clients[q].prefix.bits = Bits(file[line[q]]) /\ Bits(file[line[q]]) \in Int
          /\ clients[j].prefix.bits = Bits(file[line[j]]) /\ Bits(file[line[j]]) \in Int
          /\ line[q] \in Int /\ line[j] \in Int
      <4>1. line[q] \in Int /\ line[j] \in Int
        BY <1>2, <1>3, <2>3
      <4> HIDE DEF q
      <4>2. clients[q].prefix.bits = Bits(file[line[q]]) /\ Bits(file[line[q]]) \in Int
        BY <1>6, <2>3
      <4>3. clients[j].prefix.bits = Bits(file[line[j]]) /\ Bits(file[line[j]]) \in Int
        BY <1>6, <2>4
      <4>4. QED
        BY <4>1, <4>2, <4>3
    <3> HIDE DEF q
    <3>5. q \in Int /\ j \in Int /\ (q < j => line[q] < line[j])
      <4>1. q \in 1 .. m /\ m \in Int
        BY <1>3, <2>3
      <4>2. q < j => line[q] < line[j]
        BY <1>4, <4>1
      <4>3. QED
        BY <4>1, <4>2
    <3>6. QED
      BY <3>3, <3>4, <3>5 DEF Before
  <2> HIDE DEF q
  <2>5. line[q] \in Closest(file, c) /\ \A i \in Closest(file, c) : line[q] <= i
    <3>1. line[q] \in NamedBy(file, c)
      BY <1>7, <2>3
    <3>2. line[q] \in Closest(file, c)
      BY <1>7, <2>4, <3>1 DEF Closest
    <3>3. ASSUME NEW i \in Closest(file, c) PROVE line[q] <= i
      <4>1. PICK j \in 1 .. m : line[j] = i /\ Covers(clients[j].prefix, c)
        BY <1>7 DEF Closest
      <4>2. Bits(file[line[j]]) >= Bits(file[line[q]])
        BY <3>1, <4>1 DEF Closest
      <4>3. Bits(file[line[q]]) >= Bits(file[line[j]])
            /\ Bits(file[line[q]]) \in Int /\ Bits(file[line[j]]) \in Int
        BY <1>6, <2>3, <2>4, <4>1
      <4>4. QED
        BY <2>4, <4>1, <4>2, <4>3
    <3>4. QED
      BY <3>2, <3>3
  <2>6. Lowest(Closest(file, c)) = line[q]
    <3>1. Closest(file, c) \in SUBSET Int
      BY <1>2 DEF Closest, NamedBy
    <3>2. QED
      BY <2>5, <3>1, LeastIs DEF Lowest
  <2>7. sorted[p].profile = file[line[q]].profile
    BY <1>6, <1>10, <2>3 DEF q
  <2>8. QED
    BY <2>2, <2>6, <2>7
<1>14. QED
  BY <1>12, <1>13 DEF sorted

\* The lines for a view and the default, as parseNextDNS has them.
LEMMA SetByLines ==
  ASSUME NEW file, WellFormed(file)
  PROVE  /\ ReadLines(file).profile = Default(file)
         /\ \A v \in Views : ReadLines(file).views[v] = ForView(file, v)
         /\ ForView(file, NoView) = NoProfile
<1> DEFINE n == Len(file)
<1>1. n \in Nat /\ DOMAIN file = 1 .. n /\ ConfInv(0, file, n, ReadLines(file))
  BY BlockRead
<1> HIDE DEF n
<1>2. ReadLines(file).profile = LastOf(file, With(file, n, "profile"), NoProfile)
  BY <1>1 DEF ConfInv
<1>3. ReadLines(file).views = [v \in Views |-> LastOf(file, Viewing(file, n, v), NoProfile)]
  BY <1>1 DEF ConfInv
<1>4. With(file, n, "profile") = {i \in DOMAIN file : file[i].opt = "profile"}
  BY <1>1 DEF With
<1>5. \A v : Viewing(file, n, v)
               = {i \in DOMAIN file : file[i].opt = "view_profile" /\ file[i].view = v}
  BY <1>1 DEF Viewing
<1>6. ForView(file, NoView) = NoProfile
  <2>1. {i \in DOMAIN file : file[i].opt = "view_profile" /\ file[i].view = NoView} = {}
    BY CorefileAssumption DEF WellFormed
  <2>2. QED
    BY <2>1 DEF ForView, LastOf
<1>7. \A v \in Views : ReadLines(file).views[v] = ForView(file, v)
  BY <1>3, <1>5 DEF ForView
<1>8. ReadLines(file).profile = Default(file)
  BY <1>2, <1>4 DEF Default
<1>9. QED
  BY <1>6, <1>7, <1>8

\* What an accepted block comes to.
LEMMA Accepted ==
  ASSUME NEW file, WellFormed(file)
  PROVE  LET conf == parseNextDNS(file) IN
         /\ conf # NoConf <=> (\A i \in DOMAIN file : Accepts(file[i])) /\ Complete(ReadLines(file))
         /\ conf # NoConf =>
              conf = [profile |-> ReadLines(file).profile, views |-> ReadLines(file).views,
                      clients |-> LongestFirst(ReadLines(file).clients),
                      mode |-> ReadLines(file).mode, on |-> ReadLines(file).on]
<1> DEFINE conf == ReadLines(file)
           full == [profile |-> conf.profile, views |-> conf.views,
                    clients |-> LongestFirst(conf.clients), mode |-> conf.mode, on |-> conf.on]
<1>1. conf = [profile |-> conf.profile, views |-> conf.views, clients |-> conf.clients,
              mode |-> conf.mode, on |-> conf.on]
  BY BlockRead DEF ConfInv
<1>2. [conf EXCEPT !.clients = LongestFirst(@)] = full
  <2> HIDE DEF conf
  <2>1. QED
    BY <1>1
<1>3. Complete(conf) => full # NoConf
  <2>1. Complete(conf) => full.profile # NoProfile
    BY DEF Complete
  <2>2. NoConf.profile = NoProfile
    BY DEF NoConf, New
  <2>3. QED
    BY <2>1, <2>2
<1>4. parseNextDNS(file) = IF (\A i \in DOMAIN file : Accepts(file[i])) /\ Complete(conf)
                             THEN full ELSE NoConf
  BY <1>2 DEF parseNextDNS, ReadLines
<1> HIDE DEF conf, full
<1>5. QED
  BY <1>3, <1>4 DEF full, conf

\* A query takes the route that the lines name for it, and one that
\* reachableRoutes counts, in every file.
THEOREM RoutesFollowLines == ASSUME NEW file, WellFormed(file) PROVE RoutedAsWritten(file)
<1> DEFINE conf == parseNextDNS(file)
           clients == ReadLines(file).clients
<1> SUFFICES ASSUME conf # NoConf,
                    NEW c \in Clients, NEW view \in Views \cup {NoView},
                    NEW override \in Routes \cup {NoProfile}
             PROVE  LET route == profileFor(conf, override, view, c) IN
                    IF override \in Routes THEN route = override
                    ELSE route = Written(file, view, c) /\ route \in reachableRoutes(conf, view)
  BY DEF RoutedAsWritten
<1>1. CASE override \in Routes
  BY <1>1 DEF profileFor
<1>2. CASE override \notin Routes
  <2> DEFINE route == profileFor(conf, override, view, c)
  <2>1. /\ conf.profile = Default(file)
        /\ \A v \in Views : conf.views[v] = ForView(file, v)
        /\ conf.clients = LongestFirst(clients)
    BY Accepted, SetByLines
  <2>2. ForView(file, NoView) = NoProfile
    BY SetByLines
  <2>3. Listed(file, Len(file), clients)
    BY BlockRead DEF ConfInv
  <2> HIDE DEF conf, clients
  <2>4. CASE view # NoView /\ ForView(file, view) # NoProfile
    <3>1. view \in Views /\ conf.views[view] # NoProfile
      BY <2>1, <2>4
    <3>2. route = conf.views[view]
      BY <1>2, <2>4, <3>1 DEF profileFor
    <3>3. Written(file, view, c) = ForView(file, view)
      BY <2>4 DEF Written
    <3>4. QED
      BY <1>2, <2>1, <2>4, <3>1, <3>2, <3>3 DEF reachableRoutes
  <2>5. CASE ~(view # NoView /\ ForView(file, view) # NoProfile)
    <3> DEFINE matching == Matching(conf.clients, c)
    <3>1. ForView(file, view) = NoProfile /\ ~(view # NoView /\ conf.views[view] # NoProfile)
      BY <2>1, <2>2, <2>5
    <3>2. route = IF matching = {} THEN conf.profile ELSE conf.clients[Lowest(matching)].profile
      BY <1>2, <3>1 DEF profileFor, Matching, Lowest
    <3>3. /\ matching = {} <=> NamedBy(file, c) = {}
          /\ matching # {} =>
               conf.clients[Lowest(matching)].profile = file[Lowest(Closest(file, c))].profile
      BY <2>1, <2>3, FirstIsClosest
    <3>4. Written(file, view, c) = IF NamedBy(file, c) = {} THEN Default(file)
                                   ELSE file[Lowest(Closest(file, c))].profile
      BY <3>1 DEF Written, Lowest
    <3>5. route = Written(file, view, c)
      BY <2>1, <3>2, <3>3, <3>4
    <3>6. route \in reachableRoutes(conf, view)
      <4>1. reachableRoutes(conf, view)
              = {conf.profile} \cup {conf.clients[i].profile : i \in DOMAIN conf.clients}
        BY <3>1 DEF reachableRoutes
      <4>2. CASE matching = {}
        BY <3>2, <4>1, <4>2
      <4>3. CASE matching # {}
        <5>1. Lowest(matching) \in matching
          <6>1. PICK p \in matching : \A i \in matching : p <= i
            <7>1. matching \in SUBSET Nat
              <8>1. PICK m : Subnets(clients, m)
                BY <2>3, ListedSubnets
              <8>2. DOMAIN conf.clients = 1 .. m /\ m \in Nat
                BY <2>1, <8>1, Sorted DEF Subnets
              <8>3. QED
                BY <8>2 DEF Matching
            <7>2. QED
              BY <4>3, <7>1, Block!LeastNat
          <6>2. QED
            BY <6>1 DEF Lowest
        <5>2. Lowest(matching) \in DOMAIN conf.clients
          BY <5>1 DEF Matching
        <5>3. QED
          BY <3>2, <4>1, <4>3, <5>2
      <4>4. QED
        BY <4>2, <4>3
    <3>7. QED
      BY <1>2, <3>5, <3>6
  <2>6. QED
    BY <2>4, <2>5
<1>3. QED
  BY <1>1, <1>2

-----------------------------------------------------------------------------
(***************************************************************************)
(* The order of lines                                                      *)
(***************************************************************************)

\* The place of line j once i and the next have changed places.
Place(i, j) == IF j = i THEN i + 1 ELSE IF j = i + 1 THEN i ELSE j

Moved(n, i, lines) == {j \in 1 .. n : Place(i, j) \in lines}

Highest(S) == CHOOSE i \in S : \A j \in S : j <= i

\* The swapped file, line by line.
LEMMA SwappedLines ==
  ASSUME NEW file, WellFormed(file), NEW i \in 1 .. Len(file) - 1
  PROVE  /\ Len(Swapped(file, i)) = Len(file)
         /\ DOMAIN Swapped(file, i) = 1 .. Len(file)
         /\ \A j \in 1 .. Len(file) : /\ Place(i, j) \in 1 .. Len(file)
                                      /\ Place(i, Place(i, j)) = j
                                      /\ Swapped(file, i)[j] = file[Place(i, j)]
         /\ WellFormed(Swapped(file, i))
<1> DEFINE n == Len(file)
           other == Swapped(file, i)
<1>1. n \in Nat /\ DOMAIN file = 1 .. n
  BY BlockRead
<1> HIDE DEF n
<1>2. i \in Nat /\ i >= 1 /\ i + 1 <= n
  BY <1>1 DEF n
<1>3. ASSUME NEW j \in 1 .. n
      PROVE  Place(i, j) \in 1 .. n /\ Place(i, Place(i, j)) = j
  BY <1>1, <1>2 DEF Place
<1>4. DOMAIN other = 1 .. n /\ \A j \in 1 .. n : other[j] = file[Place(i, j)]
  BY <1>1 DEF Swapped, Place
<1>5. other \in Seq({other[j] : j \in DOMAIN other}) /\ Len(other) = n
  <2>1. other = [j \in 1 .. n |-> other[j]]
    BY <1>1 DEF Swapped
  <2> HIDE DEF other
  <2>2. other \in [1 .. n -> {other[j] : j \in DOMAIN other}]
    BY <1>4, <2>1
  <2>3. QED
    <3>1. other \in Seq({other[j] : j \in DOMAIN other})
      BY <1>1, <2>2
    <3>2. QED
      BY <1>1, <1>4, <3>1
<1>6. WellFormed(other)
  <2> HIDE DEF other
  <2>1. ASSUME NEW j \in DOMAIN other
        PROVE  /\ other[j].opt = "view_profile" => other[j].view \in Views
               /\ other[j].opt = "client_profile" => other[j].addr \in Clients
                                                   /\ other[j].bits \in Nat \cup {HostRoute}
    <3>1. Place(i, j) \in DOMAIN file /\ other[j] = file[Place(i, j)]
      BY <1>1, <1>3, <1>4
    <3>2. QED
      BY <3>1 DEF WellFormed
  <2>2. QED
    BY <1>5, <2>1 DEF WellFormed
<1>7. QED
  BY <1>3, <1>4, <1>5, <1>6 DEF n

\* Numbers up to n have a greatest.
LEMMA GreatestNat ==
  ASSUME NEW n \in Nat, NEW S \in SUBSET (1 .. n), S # {}
  PROVE  \E m \in S : \A k \in S : k <= m
<1> DEFINE bounds == {u \in Nat : \A k \in S : k <= u}
<1>1. n \in bounds
  OBVIOUS
<1>2. PICK m \in bounds : \A u \in bounds : m <= u
  <2>1. bounds \in SUBSET Nat /\ bounds # {}
    BY <1>1
  <2> HIDE DEF bounds
  <2>2. QED
    BY <2>1, Block!LeastNat
<1>3. m \in S
  <2>1. ASSUME m \notin S PROVE FALSE
    <3>1. \A k \in S : k \in Nat /\ k >= 1 /\ k <= m /\ k # m
      BY <2>1
    <3>2. PICK k \in S : TRUE
      OBVIOUS
    <3>3. m \in Nat /\ m >= 1
      BY <3>1, <3>2
    <3>4. m - 1 \in bounds
      BY <3>1, <3>3
    <3>5. QED
      BY <1>2, <3>3, <3>4
  <2>2. QED
    BY <2>1
<1>4. QED
  BY <1>3

\* The greatest element is what CHOOSE finds.
LEMMA GreatestChosen ==
  ASSUME NEW S \in SUBSET Int, NEW m \in S, \A k \in S : k <= m
  PROVE  Highest(S) = m
<1>1. \A i \in S : (\A j \in S : j <= i) <=> i = m
  OBVIOUS
<1>2. QED
  BY <1>1 DEF Highest

\* Of lines that are not both swapped, the last and the first stay so.
LEMMA EndsMove ==
  ASSUME NEW n \in Nat, NEW i \in 1 .. n - 1, NEW lines \in SUBSET (1 .. n), lines # {},
         ~ (i \in lines /\ i + 1 \in lines)
  PROVE  /\ Moved(n, i, lines) # {}
         /\ Highest(lines) = Place(i, Highest(Moved(n, i, lines)))
         /\ Highest(Moved(n, i, lines)) \in 1 .. n
         /\ Lowest(lines) = Place(i, Lowest(Moved(n, i, lines)))
         /\ Lowest(Moved(n, i, lines)) \in 1 .. n
<1> DEFINE moved == Moved(n, i, lines)
<1>1. i \in Nat /\ 1 <= i /\ i + 1 <= n
  OBVIOUS
<1>2. \A j \in 1 .. n : Place(i, j) \in 1 .. n /\ Place(i, Place(i, j)) = j
  BY <1>1 DEF Place
<1>3. ASSUME NEW j \in lines
      PROVE  j \in 1 .. n /\ Place(i, j) \in moved
  BY <1>2 DEF Moved
<1>4. ASSUME NEW j \in moved
      PROVE  j \in 1 .. n /\ Place(i, j) \in lines
  BY DEF Moved
<1>5. ASSUME NEW j \in lines, NEW k \in lines, j <= k
      PROVE  Place(i, j) <= Place(i, k)
  BY <1>1, <1>3, <1>5 DEF Place
<1> HIDE DEF moved
<1>6. lines \in SUBSET Int /\ moved \in SUBSET Int
  BY <1>3, <1>4
<1>7. PICK last \in lines : \A k \in lines : k <= last
  BY GreatestNat
<1>8. PICK first \in lines : \A k \in lines : first <= k
  <2>1. lines \in SUBSET Nat
    BY <1>3
  <2>2. QED
    BY <2>1, Block!LeastNat
<1>9. ASSUME NEW k \in moved
      PROVE  k <= Place(i, last) /\ Place(i, first) <= k
  <2>1. k = Place(i, Place(i, k)) /\ Place(i, k) \in lines
    BY <1>2, <1>4
  <2>2. Place(i, k) <= last /\ first <= Place(i, k)
    BY <1>7, <1>8, <2>1
  <2>3. QED
    BY <1>5, <2>1, <2>2
<1>10. Place(i, last) \in moved /\ Place(i, first) \in moved
  BY <1>3
<1>11. Highest(lines) = last /\ Lowest(lines) = first
  BY <1>6, <1>7, <1>8, GreatestChosen, LeastIs DEF Lowest
<1>12. Highest(moved) = Place(i, last) /\ Lowest(moved) = Place(i, first)
  BY <1>6, <1>9, <1>10, GreatestChosen, LeastIs DEF Lowest
<1>13. QED
  <2>1. last \in 1 .. n /\ first \in 1 .. n
    BY <1>3
  <2>2. QED
    BY <1>2, <1>10, <1>11, <1>12, <2>1 DEF moved

\* What the last of some lines sets does not change, unless both are swapped.
LEMMA LastAgrees ==
  ASSUME NEW file, WellFormed(file), NEW i \in 1 .. Len(file) - 1,
         NEW lines \in SUBSET (1 .. Len(file)), ~ (i \in lines /\ i + 1 \in lines),
         NEW otherwise
  PROVE  /\ LastOf(Swapped(file, i), Moved(Len(file), i, lines), otherwise)
              = LastOf(file, lines, otherwise)
         /\ LastMode(Swapped(file, i), Moved(Len(file), i, lines)) = LastMode(file, lines)
<1> DEFINE n == Len(file)
           other == Swapped(file, i)
           moved == Moved(n, i, lines)
<1>1. n \in Nat /\ \A j \in 1 .. n : other[j] = file[Place(i, j)]
  BY BlockRead, SwappedLines
<1>2. CASE lines = {}
  <2>1. moved = {}
    BY <1>2 DEF Moved
  <2>2. QED
    BY <1>2, <2>1 DEF LastOf, LastMode
<1>3. CASE lines # {}
  <2>1. moved # {} /\ Highest(lines) = Place(i, Highest(moved)) /\ Highest(moved) \in 1 .. n
    BY <1>1, <1>3, EndsMove
  <2>2. other[Highest(moved)] = file[Highest(lines)]
    BY <1>1, <2>1
  <2> HIDE DEF other, moved, n
  <2>3. LastOf(file, lines, otherwise) = file[Highest(lines)].profile
        /\ LastMode(file, lines) = file[Highest(lines)].mode
    BY <1>3 DEF LastOf, LastMode, Highest
  <2>4. LastOf(other, moved, otherwise) = other[Highest(moved)].profile
        /\ LastMode(other, moved) = other[Highest(moved)].mode
    BY <2>1 DEF LastOf, LastMode, Highest
  <2>5. QED
    BY <2>2, <2>3, <2>4 DEF other, moved, n
<1>4. QED
  BY <1>2, <1>3

\* Two of the longest subnets of a client are the same subnet.
LEMMA LongestIsOne ==
  ASSUME NEW file, WellFormed(file), NEW c, NEW i \in Closest(file, c), NEW j \in Closest(file, c)
  PROVE  Sets(file[i]) = Sets(file[j])
<1>1. ASSUME NEW k \in NamedBy(file, c)
      PROVE  /\ file[k].opt = "client_profile" /\ file[k].addr \in Clients
             /\ file[k].bits \in Nat \cup {HostRoute}
             /\ Bits(file[k]) \in 0 .. Width
             /\ parsePrefix(file[k].addr, file[k].bits)
                  = [addr |-> Masked(c, Bits(file[k])), bits |-> Bits(file[k])]
  <2> DEFINE line == file[k]
             prefix == parsePrefix(line.addr, line.bits)
  <2>1. /\ line.opt = "client_profile" /\ line.addr \in Clients
        /\ line.bits \in Nat \cup {HostRoute} /\ Covers(prefix, c)
    BY DEF NamedBy, WellFormed
  <2>2. CASE line.bits = HostRoute
    <3>1. prefix = [addr |-> line.addr, bits |-> Width] /\ Bits(line) = Width
      BY <2>2 DEF parsePrefix, Bits
    <3>2. \A b \in 1 .. Width : c[b] = line.addr[b]
      BY <2>1, <3>1 DEF Covers
    <3>3. line.addr = [b \in 1 .. Width |-> line.addr[b]]
      BY <2>1 DEF Clients
    <3>4. Masked(c, Width) = line.addr
      BY <3>2, <3>3, CorefileAssumption DEF Masked
    <3>5. QED
      BY <2>1, <3>1, <3>4, CorefileAssumption
  <2>3. CASE line.bits # HostRoute
    <3>1. ~(line.bits > Width)
      BY <2>1, <2>3 DEF Covers, parsePrefix, Unusable
    <3>2. prefix = [addr |-> Masked(line.addr, line.bits), bits |-> line.bits]
          /\ Bits(line) = line.bits
      BY <2>3, <3>1 DEF parsePrefix, Bits
    <3>3. line.bits \in 0 .. Width
      BY <2>1, <2>3, <3>1, CorefileAssumption
    <3>4. ASSUME NEW b \in 1 .. line.bits
          PROVE  c[b] = line.addr[b]
      <4>1. b \in 1 .. Width /\ b <= line.bits
        BY <3>3, CorefileAssumption
      <4>2. Masked(line.addr, line.bits)[b] = line.addr[b]
        BY <4>1 DEF Masked
      <4>3. c[b] = prefix.addr[b]
        BY <2>1, <3>2 DEF Covers
      <4>4. QED
        BY <3>2, <4>2, <4>3
    <3>5. Masked(c, line.bits) = Masked(line.addr, line.bits)
      BY <3>3, <3>4, CorefileAssumption DEF Masked
    <3>6. QED
      BY <2>1, <3>2, <3>3, <3>5
  <2>4. QED
    BY <2>2, <2>3
<1>2. i \in NamedBy(file, c) /\ j \in NamedBy(file, c)
  BY DEF Closest
<1>3. Bits(file[i]) = Bits(file[j])
  <2>1. Bits(file[i]) >= Bits(file[j]) /\ Bits(file[j]) >= Bits(file[i])
    BY <1>2 DEF Closest
  <2>2. ASSUME NEW k \in NamedBy(file, c) PROVE Bits(file[k]) \in Int
    <3>1. Bits(file[k]) \in 0 .. Width
      BY <1>1
    <3>2. QED
      BY <3>1
  <2>3. Bits(file[i]) \in Int /\ Bits(file[j]) \in Int
    BY <1>2, <2>2
  <2>4. QED
    BY <2>1, <2>3
<1>4. parsePrefix(file[i].addr, file[i].bits) = parsePrefix(file[j].addr, file[j].bits)
  BY <1>1, <1>2, <1>3
<1>5. QED
  BY <1>1, <1>2, <1>4 DEF Sets

\* The sets of lines that decide, in the swapped file.
LEMMA SetsMove ==
  ASSUME NEW file, WellFormed(file), NEW i \in 1 .. Len(file) - 1
  PROVE  LET n == Len(file)  other == Swapped(file, i) IN
         /\ \A opt : With(other, n, opt) = Moved(n, i, With(file, n, opt))
         /\ \A v : Viewing(other, n, v) = Moved(n, i, Viewing(file, n, v))
         /\ \A c : NamedBy(other, c) = Moved(n, i, NamedBy(file, c))
         /\ \A c : Closest(other, c) = Moved(n, i, Closest(file, c))
         /\ Features(other, n) = Features(file, n)
         /\ (\A j \in DOMAIN other : Accepts(other[j])) <=> \A j \in DOMAIN file : Accepts(file[j])
<1> DEFINE n == Len(file)
           other == Swapped(file, i)
<1>1. n \in Nat /\ DOMAIN file = 1 .. n /\ DOMAIN other = 1 .. n
  BY BlockRead, SwappedLines
<1>2. \A j \in 1 .. n : /\ Place(i, j) \in 1 .. n /\ Place(i, Place(i, j)) = j
                        /\ other[j] = file[Place(i, j)] /\ file[j] = other[Place(i, j)]
  <2>1. \A j \in 1 .. n : /\ Place(i, j) \in 1 .. n /\ Place(i, Place(i, j)) = j
                          /\ other[j] = file[Place(i, j)]
    BY SwappedLines
  <2> HIDE DEF other, n
  <2>2. QED
    BY <2>1
<1> HIDE DEF other, n
<1>3. \A opt : With(other, n, opt) = Moved(n, i, With(file, n, opt))
  BY <1>2 DEF With, Moved
<1>4. \A v : Viewing(other, n, v) = Moved(n, i, Viewing(file, n, v))
  BY <1>2 DEF Viewing, Moved
<1>5. ASSUME NEW c
      PROVE  NamedBy(other, c) = Moved(n, i, NamedBy(file, c))
  BY <1>1, <1>2 DEF NamedBy, Moved
<1>6. ASSUME NEW c
      PROVE  Closest(other, c) = Moved(n, i, Closest(file, c))
  <2>1. \A j \in 1 .. n : j \in NamedBy(other, c) <=> Place(i, j) \in NamedBy(file, c)
    BY <1>5 DEF Moved
  <2>2. NamedBy(other, c) \subseteq 1 .. n /\ NamedBy(file, c) \subseteq 1 .. n
    BY <1>1 DEF NamedBy
  <2>3. ASSUME NEW j \in 1 .. n
        PROVE  j \in Closest(other, c) <=> Place(i, j) \in Closest(file, c)
    <3>1. ASSUME j \in Closest(other, c) PROVE Place(i, j) \in Closest(file, c)
      <4>1. j \in NamedBy(other, c) /\ \A k \in NamedBy(other, c) : Bits(other[j]) >= Bits(other[k])
        BY <3>1 DEF Closest
      <4>2. ASSUME NEW k \in NamedBy(file, c) PROVE Bits(file[Place(i, j)]) >= Bits(file[k])
        <5>1. k \in 1 .. n /\ Place(i, k) \in NamedBy(other, c)
          BY <1>2, <2>1, <2>2
        <5>2. QED
          BY <1>2, <4>1, <5>1
      <4>3. QED
        BY <2>1, <4>1, <4>2 DEF Closest
    <3>2. ASSUME Place(i, j) \in Closest(file, c) PROVE j \in Closest(other, c)
      <4>1. /\ Place(i, j) \in NamedBy(file, c)
            /\ \A k \in NamedBy(file, c) : Bits(file[Place(i, j)]) >= Bits(file[k])
        BY <3>2 DEF Closest
      <4>2. ASSUME NEW k \in NamedBy(other, c) PROVE Bits(other[j]) >= Bits(other[k])
        <5>1. k \in 1 .. n /\ Place(i, k) \in NamedBy(file, c)
          BY <2>1, <2>2
        <5>2. QED
          BY <1>2, <4>1, <5>1
      <4>3. QED
        BY <2>1, <4>1, <4>2 DEF Closest
    <3>3. QED
      BY <3>1, <3>2
  <2>4. Closest(other, c) \subseteq 1 .. n
    BY <2>2 DEF Closest
  <2>5. QED
    BY <2>3, <2>4 DEF Moved
<1>7. Features(other, n) = Features(file, n)
  BY <1>2 DEF Features
<1>8. (\A j \in DOMAIN other : Accepts(other[j])) <=> \A j \in DOMAIN file : Accepts(file[j])
  BY <1>1, <1>2
<1>9. QED
  BY <1>3, <1>4, <1>5, <1>6, <1>7, <1>8 DEF other, n

\* A client that is named has a longest subnet.
LEMMA LongestExists ==
  ASSUME NEW file, WellFormed(file), NEW c, NamedBy(file, c) # {}
  PROVE  Closest(file, c) # {}
<1>1. ASSUME NEW i \in NamedBy(file, c)
      PROVE  Bits(file[i]) \in 0 .. Width
  <2>1. file[i].opt = "client_profile" /\ Covers(parsePrefix(file[i].addr, file[i].bits), c)
    BY DEF NamedBy
  <2>2. file[i].bits \in Nat \cup {HostRoute}
    BY <2>1 DEF NamedBy, WellFormed
  <2>3. CASE file[i].bits = HostRoute
    BY <2>3, CorefileAssumption DEF Bits
  <2>4. CASE file[i].bits # HostRoute
    <3>1. ~(file[i].bits > Width)
      BY <2>1, <2>4 DEF Covers, parsePrefix, Unusable
    <3>2. QED
      BY <2>2, <2>4, <3>1, CorefileAssumption DEF Bits
  <2>5. QED
    BY <2>3, <2>4
<1>2. Width \in Nat
  BY CorefileAssumption
<1> DEFINE bounds == {u \in Nat : \E i \in NamedBy(file, c) : Width - Bits(file[i]) = u}
<1>3. bounds \in SUBSET Nat /\ bounds # {}
  BY <1>1, <1>2
<1>4. PICK u \in bounds : \A v \in bounds : u <= v
  <2> HIDE DEF bounds
  <2>1. QED
    BY <1>3, Block!LeastNat
<1>5. PICK i \in NamedBy(file, c) : Width - Bits(file[i]) = u
  OBVIOUS
<1>6. ASSUME NEW j \in NamedBy(file, c)
      PROVE  Bits(file[i]) >= Bits(file[j])
  <2>1. Bits(file[j]) \in 0 .. Width /\ Bits(file[i]) \in 0 .. Width
    BY <1>1
  <2>2. Width - Bits(file[j]) \in bounds
    BY <1>2, <2>1
  <2>3. u <= Width - Bits(file[j])
    BY <1>4, <2>2
  <2>4. QED
    BY <1>2, <1>5, <2>1, <2>3
<1>7. QED
  BY <1>5, <1>6 DEF Closest

\* What the lines say of a query without a view is the same.
LEMMA WrittenAlike ==
  ASSUME NEW file, WellFormed(file), NEW i \in 1 .. Len(file) - 1,
         Sets(file[i]) # Sets(file[i + 1]), NEW c,
         Default(Swapped(file, i)) = Default(file)
  PROVE  Written(Swapped(file, i), NoView, c) = Written(file, NoView, c)
<1> DEFINE n == Len(file)
           other == Swapped(file, i)
<1>1. /\ n \in Nat /\ DOMAIN file = 1 .. n /\ \A j \in 1 .. n : other[j] = file[Place(i, j)]
      /\ WellFormed(other)
  BY BlockRead, SwappedLines
<1>2. ForView(file, NoView) = NoProfile /\ ForView(other, NoView) = NoProfile
  BY <1>1, SetByLines
<1>3. /\ NamedBy(other, c) = Moved(n, i, NamedBy(file, c))
      /\ Closest(other, c) = Moved(n, i, Closest(file, c))
  BY SetsMove
<1> HIDE DEF n, other
<1>4. Closest(file, c) \in SUBSET (1 .. n) /\ NamedBy(file, c) \in SUBSET (1 .. n)
  BY <1>1 DEF Closest, NamedBy
<1>5. ~ (i \in Closest(file, c) /\ i + 1 \in Closest(file, c))
  BY LongestIsOne
<1>6. Written(file, NoView, c) = IF NamedBy(file, c) = {} THEN Default(file)
                                 ELSE file[Lowest(Closest(file, c))].profile
  BY <1>2 DEF Written, Lowest
<1>7. Written(other, NoView, c) = IF NamedBy(other, c) = {} THEN Default(other)
                                  ELSE other[Lowest(Closest(other, c))].profile
  BY <1>2 DEF Written, Lowest
<1>8. NamedBy(other, c) = {} <=> NamedBy(file, c) = {}
  <2>1. \A j \in 1 .. n : Place(i, j) \in 1 .. n /\ Place(i, Place(i, j)) = j
    BY SwappedLines DEF n
  <2>2. QED
    BY <1>3, <1>4, <2>1 DEF Moved
<1>9. ASSUME NamedBy(file, c) # {}
      PROVE  other[Lowest(Closest(other, c))] = file[Lowest(Closest(file, c))]
  <2>1. Closest(file, c) # {}
    BY <1>9, LongestExists
  <2>2. /\ Lowest(Closest(file, c)) = Place(i, Lowest(Closest(other, c)))
        /\ Lowest(Closest(other, c)) \in 1 .. n
    <3>1. i \in 1 .. n - 1
      BY DEF n
    <3>2. QED
      BY <1>1, <1>3, <1>4, <1>5, <2>1, <3>1, EndsMove
  <2>3. QED
    BY <1>1, <2>2
<1>10. QED
  BY <1>6, <1>7, <1>8, <1>9 DEF other

\* But for the order of subnets, the swapped file comes to the same.
LEMMA ReadAlike ==
  ASSUME NEW file, WellFormed(file), NEW i \in 1 .. Len(file) - 1,
         Sets(file[i]) # Sets(file[i + 1])
  PROVE  /\ ReadLines(Swapped(file, i)).profile = ReadLines(file).profile
         /\ ReadLines(Swapped(file, i)).views = ReadLines(file).views
         /\ ReadLines(Swapped(file, i)).mode = ReadLines(file).mode
         /\ ReadLines(Swapped(file, i)).on = ReadLines(file).on
<1> DEFINE n == Len(file)
           other == Swapped(file, i)
<1>1. n \in Nat /\ DOMAIN file = 1 .. n /\ ConfInv(0, file, n, ReadLines(file))
  BY BlockRead
<1>2. WellFormed(other) /\ Len(other) = n
  BY SwappedLines
<1>3. ConfInv(0, other, n, ReadLines(other))
  BY <1>2, BlockRead
<1>4. /\ \A opt : With(other, n, opt) = Moved(n, i, With(file, n, opt))
      /\ \A v : Viewing(other, n, v) = Moved(n, i, Viewing(file, n, v))
      /\ Features(other, n) = Features(file, n)
  BY SetsMove
<1>5. ASSUME NEW lines \in SUBSET (1 .. n), ~ (i \in lines /\ i + 1 \in lines)
      PROVE  /\ LastOf(other, Moved(n, i, lines), NoProfile) = LastOf(file, lines, NoProfile)
             /\ LastMode(other, Moved(n, i, lines)) = LastMode(file, lines)
  BY <1>5, LastAgrees
<1> HIDE DEF n, other
<1>6. /\ \A opt : With(file, n, opt) \in SUBSET (1 .. n)
      /\ \A v : Viewing(file, n, v) \in SUBSET (1 .. n)
  BY DEF With, Viewing
<1>7. ReadLines(other).profile = ReadLines(file).profile
  <2> DEFINE lines == With(file, n, "profile")
  <2>1. ~ (i \in lines /\ i + 1 \in lines)
    BY DEF With, Sets
  <2>2. LastOf(other, With(other, n, "profile"), NoProfile) = LastOf(file, lines, NoProfile)
    BY <1>4, <1>5, <1>6, <2>1
  <2>3. QED
    BY <1>1, <1>3, <2>2 DEF ConfInv
<1>8. ReadLines(other).views = ReadLines(file).views
  <2>1. ASSUME NEW v \in Views
        PROVE  LastOf(other, Viewing(other, n, v), NoProfile)
                 = LastOf(file, Viewing(file, n, v), NoProfile)
    <3> DEFINE lines == Viewing(file, n, v)
    <3>1. ~ (i \in lines /\ i + 1 \in lines)
      BY DEF Viewing, Sets
    <3>2. QED
      BY <1>4, <1>5, <1>6, <3>1
  <2>2. ReadLines(other).views = [v \in Views |-> LastOf(other, Viewing(other, n, v), NoProfile)]
    BY <1>3 DEF ConfInv
  <2>3. ReadLines(file).views = [v \in Views |-> LastOf(file, Viewing(file, n, v), NoProfile)]
    BY <1>1 DEF ConfInv
  <2>4. QED
    BY <2>1, <2>2, <2>3
<1>9. ReadLines(other).mode = ReadLines(file).mode
  <2> DEFINE lines == With(file, n, "device_id")
  <2>1. ~ (i \in lines /\ i + 1 \in lines)
    BY DEF With, Sets
  <2>2. LastMode(other, With(other, n, "device_id")) = LastMode(file, lines)
    BY <1>4, <1>5, <1>6, <2>1
  <2>3. QED
    BY <1>1, <1>3, <2>2 DEF ConfInv
<1>10. ReadLines(other).on = ReadLines(file).on
  BY <1>1, <1>3, <1>4 DEF ConfInv
<1>11. QED
  BY <1>7, <1>8, <1>9, <1>10 DEF other

\* Two neighbouring lines that set different things can change places, in every
\* file: the same refusal, or the same features and routes.
THEOREM LinesChangePlaces == ASSUME NEW file, WellFormed(file) PROVE OrderFree(file)
<1> SUFFICES ASSUME NEW i \in 1 .. Len(file) - 1, Sets(file[i]) # Sets(file[i + 1])
             PROVE  Alike(parseNextDNS(file), parseNextDNS(Swapped(file, i)))
  BY DEF OrderFree
<1> DEFINE other == Swapped(file, i)
           a == parseNextDNS(file)
           b == parseNextDNS(other)
<1>1. WellFormed(other)
  BY SwappedLines
<1>2. /\ ReadLines(other).profile = ReadLines(file).profile
      /\ ReadLines(other).views = ReadLines(file).views
      /\ ReadLines(other).mode = ReadLines(file).mode
      /\ ReadLines(other).on = ReadLines(file).on
  BY ReadAlike
<1>3. (\A j \in DOMAIN other : Accepts(other[j])) <=> \A j \in DOMAIN file : Accepts(file[j])
  BY SetsMove
<1>4. Complete(ReadLines(other)) <=> Complete(ReadLines(file))
  BY <1>2 DEF Complete, HasSources
<1>5. /\ a # NoConf <=> (\A j \in DOMAIN file : Accepts(file[j])) /\ Complete(ReadLines(file))
      /\ a # NoConf => a = [profile |-> ReadLines(file).profile, views |-> ReadLines(file).views,
                            clients |-> LongestFirst(ReadLines(file).clients),
                            mode |-> ReadLines(file).mode, on |-> ReadLines(file).on]
  BY Accepted
<1>6. /\ b # NoConf <=> (\A j \in DOMAIN other : Accepts(other[j])) /\ Complete(ReadLines(other))
      /\ b # NoConf => b = [profile |-> ReadLines(other).profile, views |-> ReadLines(other).views,
                            clients |-> LongestFirst(ReadLines(other).clients),
                            mode |-> ReadLines(other).mode, on |-> ReadLines(other).on]
  BY <1>1, Accepted
<1>7. a # NoConf <=> b # NoConf
  BY <1>3, <1>4, <1>5, <1>6
<1>8. ASSUME a # NoConf, b # NoConf
      PROVE  [a EXCEPT !.clients = <<>>] = [b EXCEPT !.clients = <<>>]
  <2> HIDE DEF a, b, other
  <2>1. a = [profile |-> ReadLines(file).profile, views |-> ReadLines(file).views,
             clients |-> a.clients, mode |-> ReadLines(file).mode, on |-> ReadLines(file).on]
    BY <1>5, <1>8
  <2>2. b = [profile |-> ReadLines(file).profile, views |-> ReadLines(file).views,
             clients |-> b.clients, mode |-> ReadLines(file).mode, on |-> ReadLines(file).on]
    BY <1>2, <1>6, <1>8
  <2>3. QED
    BY <2>1, <2>2
<1>9. ASSUME a # NoConf, b # NoConf, NEW c \in Clients
      PROVE  profileFor(a, NoProfile, NoView, c) = profileFor(b, NoProfile, NoView, c)
  <2>1. NoProfile \notin Routes
    BY CorefileAssumption DEF Routes
  <2>2. profileFor(a, NoProfile, NoView, c) = Written(file, NoView, c)
    BY <1>9, <2>1, RoutesFollowLines DEF RoutedAsWritten
  <2>3. profileFor(b, NoProfile, NoView, c) = Written(other, NoView, c)
    <3>1. RoutedAsWritten(other)
      BY <1>1, RoutesFollowLines
    <3>2. QED
      BY <1>9, <2>1, <3>1 DEF RoutedAsWritten
  <2>4. Default(other) = Default(file)
    BY <1>1, <1>2, SetByLines
  <2>5. Written(other, NoView, c) = Written(file, NoView, c)
    BY <2>4, WrittenAlike
  <2>6. QED
    BY <2>2, <2>3, <2>5
<1>10. QED
  <2> HIDE DEF a, b
  <2>1. QED
    BY <1>7, <1>8, <1>9 DEF Alike, a, b
=============================================================================
