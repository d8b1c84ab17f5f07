------------------------------- MODULE Corefile -------------------------------
(***************************************************************************)
(* What setup.go makes of the plugin's block in the Corefile, and how      *)
(* nextdns.go routes a query by it. Pure operators; Plugin uses them.      *)
(*                                                                         *)
(* Data kept: a line is its option and those arguments that a check or a   *)
(* route depends on, a line that no check accepts is of option "invalid".  *)
(* An address is Width bits, and a subnet is an address with a length that *)
(* parsePrefix has yet to look at. Endpoints and their bootstrap addresses *)
(* are the business of Bootstrap; what only fills a field (timeout,        *)
(* device_name...) is left out.                                            *)
(***************************************************************************)
EXTENDS Integers, Sequences, SequencesExt, FiniteSets

CONSTANTS
  Profiles,     \* well formed profile IDs
  Passthrough,  \* "-"
  NoProfile,    \* the empty string
  Views,
  NoView,
  Width,        \* bits of an address
  HostRoute     \* length of a subnet written as a bare address

ASSUME CorefileAssumption ==
  /\ Passthrough \notin Profiles /\ NoProfile \notin Profiles \cup {Passthrough}
  /\ NoView \notin Views
  /\ Width \in Nat
  /\ HostRoute \notin Nat

\* What a view, a subnet or the metadata may name.
Routes == Profiles \cup {Passthrough}

Clients == [1 .. Width -> {0, 1}]

\* What an option of the block can switch on.
Tuning == {"discovery_ttl", "discovery_retry", "discovery_timeout", "discovery_wait", "discovery_max"}

Options == Tuning \cup {"cache", "cache_ttl", "device_names", "arp", "reload", "discovery"}

-----------------------------------------------------------------------------
(***************************************************************************)
(* Subnets                                                                 *)
(***************************************************************************)

\* The first bits of addr, the others cleared.
Masked(addr, bits) == [b \in 1 .. Width |-> IF b <= bits THEN addr[b] ELSE 0]

\* Valid for no address, and shorter than any that is.
Unusable == [addr |-> [b \in 1 .. Width |-> 0], bits |-> -1]

\* A length too long for the address, which only a v4-mapped address can be
\* written with, leaves no usable prefix.
parsePrefix(addr, bits) ==
  CASE bits = HostRoute -> [addr |-> addr, bits |-> Width]
    [] bits # HostRoute /\ bits > Width -> Unusable
    [] OTHER -> [addr |-> Masked(addr, bits), bits |-> bits]

Covers(prefix, c) ==
  prefix.bits >= 0 /\ \A b \in 1 .. prefix.bits : c[b] = prefix.addr[b]

-----------------------------------------------------------------------------
(***************************************************************************)
(* parseNextDNS                                                            *)
(***************************************************************************)

New ==
  [profile |-> NoProfile, views |-> [v \in Views |-> NoProfile], clients |-> <<>>,
   mode |-> "auto", on |-> {}]

\* What a block that is refused comes to: one without a profile.
NoConf == New

\* The checks of one line's arguments.
Accepts(line) ==
  CASE line.opt = "profile"                            -> line.profile \in Profiles
    [] line.opt \in {"view_profile", "client_profile"} -> line.profile \in Routes
    [] line.opt = "device_id"                          -> line.mode \in {"auto", "ip", "mac", "none"}
    [] line.opt = "cache_ttl"                          -> 0 <= line.lo /\ line.lo <= line.hi
    [] line.opt = "discovery_wait"                     -> line.n >= 0
    [] line.opt \in {"device_names", "arp", "discovery"} -> TRUE
    [] line.opt \in Options \ {"cache_ttl", "discovery_wait", "device_names", "arp", "discovery"} ->
         line.n > 0
    [] OTHER                                           -> FALSE

\* What one line sets.
Apply(conf, line) ==
  CASE line.opt = "profile"      -> [conf EXCEPT !.profile = line.profile]
    [] line.opt = "view_profile" -> [conf EXCEPT !.views[line.view] = line.profile]
    [] line.opt = "client_profile" ->
         [conf EXCEPT !.clients = Append(@, [prefix  |-> parsePrefix(line.addr, line.bits),
                                             profile |-> line.profile])]
    [] line.opt = "device_id"    -> [conf EXCEPT !.mode = line.mode]
    [] OTHER                     -> [conf EXCEPT !.on = @ \cup {line.opt}]

HasSources(conf) == conf.on \cap {"device_names", "arp"} # {}

\* The checks after the last line: an option that tunes a feature needs it.
Complete(conf) ==
  /\ conf.profile # NoProfile
  /\ "cache_ttl" \in conf.on => "cache" \in conf.on
  /\ "reload" \in conf.on => HasSources(conf)
  /\ conf.on \cap Tuning # {} => "discovery" \in conf.on
  /\ conf.mode = "mac" => HasSources(conf)

AsWritten(clients) == clients

\* Longest prefix first, equal ones as they were written.
Before(clients, i, j) ==
  LET b == clients[i].prefix.bits  c == clients[j].prefix.bits
  IN  b > c \/ (b = c /\ i < j)

Ahead(clients, i) == {j \in DOMAIN clients : Before(clients, j, i)}

LongestFirst(clients) ==
  [i \in DOMAIN clients |->
     clients[CHOOSE j \in DOMAIN clients : Cardinality(Ahead(clients, j)) = i - 1]]

\* The tuning options looked at as they come.
ParsesInOrder(file) ==
  LET upTo(k) == FoldLeft(Apply, New, SubSeq(file, 1, k))
      conf    == FoldLeft(Apply, New, file)
  IN  IF /\ \A i \in DOMAIN file :
              Accepts(file[i]) /\ (file[i].opt \in Tuning => "discovery" \in upTo(i).on)
         /\ Complete(conf)
        THEN [conf EXCEPT !.clients = LongestFirst(@)]
        ELSE NoConf

parseNextDNS(file) ==
  LET conf == FoldLeft(Apply, New, file)
  IN  IF (\A i \in DOMAIN file : Accepts(file[i])) /\ Complete(conf)
        THEN [conf EXCEPT !.clients = LongestFirst(@)]
        ELSE NoConf

-----------------------------------------------------------------------------
(***************************************************************************)
(* Routing                                                                 *)
(***************************************************************************)

\* Well formed metadata, then the view, then the first subnet that contains
\* the client, then the default.
profileFor(conf, override, view, c) ==
  LET matching == {i \in DOMAIN conf.clients : Covers(conf.clients[i].prefix, c)} IN
  CASE override \in Routes -> override
    [] override \notin Routes /\ view # NoView /\ conf.views[view] # NoProfile -> conf.views[view]
    [] OTHER -> IF matching = {} THEN conf.profile
                ELSE conf.clients[CHOOSE i \in matching : \A j \in matching : i <= j].profile

\* Every way a query can be answered in a block with this view.
reachableRoutes(conf, view) ==
  IF view # NoView /\ conf.views[view] # NoProfile
    THEN {conf.views[view]}
    ELSE {conf.profile} \cup {conf.clients[i].profile : i \in DOMAIN conf.clients}

-----------------------------------------------------------------------------
(***************************************************************************)
(* What is expected of both                                                *)
(***************************************************************************)

\* A sequence of lines; views and subnets are what their options take.
WellFormed(file) ==
  /\ file \in Seq({file[i] : i \in DOMAIN file})
  /\ \A i \in DOMAIN file :
       /\ file[i].opt = "view_profile" => file[i].view \in Views
       /\ file[i].opt = "client_profile" => file[i].addr \in Clients
                                           /\ file[i].bits \in Nat \cup {HostRoute}

\* The lines of file that name a subnet of c, the longest of these, and the
\* first of the longest.
NamedBy(file, c) ==
  {i \in DOMAIN file : file[i].opt = "client_profile"
                       /\ Covers(parsePrefix(file[i].addr, file[i].bits), c)}

Bits(line) == IF line.bits = HostRoute THEN Width ELSE line.bits

Closest(file, c) ==
  {i \in NamedBy(file, c) : \A j \in NamedBy(file, c) : Bits(file[i]) >= Bits(file[j])}

\* The last line that sets what is asked for, if any.
LastOf(file, lines, otherwise) ==
  IF lines = {} THEN otherwise
  ELSE file[CHOOSE i \in lines : \A j \in lines : j <= i].profile

ForView(file, view) ==
  LastOf(file, {i \in DOMAIN file : file[i].opt = "view_profile" /\ file[i].view = view}, NoProfile)

Default(file) ==
  LastOf(file, {i \in DOMAIN file : file[i].opt = "profile"}, NoProfile)

\* What the lines say of a query, read without regard to their order except
\* between two that set the same thing.
Written(file, view, c) ==
  CASE ForView(file, view) # NoProfile -> ForView(file, view)
    [] ForView(file, view) = NoProfile /\ NamedBy(file, c) # {} ->
         file[CHOOSE i \in Closest(file, c) : \A j \in Closest(file, c) : i <= j].profile
    [] OTHER -> Default(file)

\* What a line sets: two lines that set different things can change places.
Sets(line) ==
  CASE line.opt = "view_profile"   -> <<line.opt, line.view>>
    [] line.opt = "client_profile" -> <<line.opt, parsePrefix(line.addr, line.bits)>>
    [] OTHER                       -> <<line.opt>>

Swapped(file, i) ==
  [j \in DOMAIN file |-> IF j = i THEN file[i + 1] ELSE IF j = i + 1 THEN file[i] ELSE file[j]]

\* Two outcomes that nobody can tell apart: the order of two subnets that have
\* no client in common does not show.
Alike(a, b) ==
  IF a = NoConf \/ b = NoConf THEN a = b
  ELSE /\ [a EXCEPT !.clients = <<>>] = [b EXCEPT !.clients = <<>>]
       /\ \A c \in Clients : profileFor(a, NoProfile, NoView, c) = profileFor(b, NoProfile, NoView, c)

\* Two neighbouring lines that set different things can change places, and so
\* any number of such lines: the same refusal, or the same features and routes.
OrderFree(file) ==
  \A i \in 1 .. Len(file) - 1 :
    Sets(file[i]) # Sets(file[i + 1]) => Alike(parseNextDNS(file), parseNextDNS(Swapped(file, i)))

\* Well formed metadata decides, or else what the lines say; and then by a route
\* that reachableRoutes names.
RoutedAsWritten(file) ==
  LET conf == parseNextDNS(file) IN
  conf # NoConf =>
    \A c \in Clients, view \in Views \cup {NoView}, override \in Routes \cup {NoProfile} :
      LET route == profileFor(conf, override, view, c) IN
      IF override \in Routes THEN route = override
      ELSE route = Written(file, view, c) /\ route \in reachableRoutes(conf, view)
=============================================================================
