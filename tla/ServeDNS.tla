------------------------------ MODULE ServeDNS ------------------------------
(***************************************************************************)
(* A query's way through src/nextdns.go: ServeDNS, the response cache      *)
(* (cache.go), the concurrency limit and the exchange with NextDNS         *)
(* (doh.go), with any number of queries at once.                           *)
(*                                                                         *)
(* Every lock section and every atomic operation is a step of its own;     *)
(* what a goroutine does between two of them touches nothing shared and is *)
(* part of the step before. Time is a clock of ticks, Second ticks to the  *)
(* second, that may stand still between any two steps.                     *)
(*                                                                         *)
(* Data kept: a question (name, type, class, DO and CD flags) is a model   *)
(* value, and Subject says which questions share their name and type; the  *)
(* cache key is a given function of profile and question, so collisions    *)
(* are instances of it. A message is the request it was obtained for, the  *)
(* question it answers (which may be another), the configuration it was    *)
(* resolved under, its TTL and whether it may be cached. Identifying the   *)
(* device (device.go) only delays the query here, which any interleaving   *)
(* does. Metrics and metadata are left out.                                *)
(*                                                                         *)
(* NextDNS itself (conf, ConfChanges, UpstreamAnswers) is external, and so *)
(* is the test of CoreDNS that a reply fits its request (Match).           *)
(***************************************************************************)
EXTENDS Store

CONSTANTS
  Profiles,       \* profile IDs queries are routed to
  Questions,      \* questions asked
  PTRQuestions,   \* those of type PTR
  Subject,        \* per question, one that stands for its name and type
  Hash,           \* cacheKey, per profile and question
  Queries,        \* query goroutines
  Caching,        \* the block has a cache
  MaxConcurrent,  \* max_concurrent, zero for no limit
  Endpoints,      \* number of endpoints, tried in order
  Second,         \* ticks in a second
  MinTTL, MaxTTL, \* bounds of a cached lifetime, in ticks
  RecordTTLs,     \* lifetimes NextDNS gives its answers, in ticks
  MaxClock,       \* bound: ticks modelled
  NoMsg

Request == [profile : Profiles, question : Questions]

Msg == [for : Request, question : Questions, conf : Nat, ttl : Nat, cacheable : BOOLEAN]

Item == [stored : Nat, ttl : Nat, msg : Msg, asked : Request]

ASSUME ServeDNSAssumption ==
  /\ Profiles # {} /\ Questions # {}
  /\ PTRQuestions \subseteq Questions
  /\ Subject \in [Questions -> Questions]
  /\ Hash \in [Request -> Keys]
  /\ IsFiniteSet(Queries)
  /\ Caching \in BOOLEAN
  /\ MaxConcurrent \in Nat
  /\ Endpoints \in Nat \ {0}
  /\ Second \in Nat \ {0}
  /\ MinTTL \in Nat /\ MaxTTL \in Nat
  /\ RecordTTLs \subseteq Nat
  /\ MaxClock \in Nat
  /\ NoMsg \notin Msg
  /\ NoItem \notin Item

VARIABLES
  clock,       \* time.Now
  conf,        \* external: when each profile's configuration changed last
  lastMod,     \* dohClient.lastMod, 0 for a profile never reported
  concurrent,  \* NextDNS.concurrent
  \* per query
  pc,
  asked,       \* profile and question
  ep,          \* endpoint being tried
  late,        \* the exchange's context has expired
  resp,        \* message NextDNS sent, if any
  report,      \* X-Conf-Last-Modified of that message, 0 when not usable
  held,        \* cache entry read, or about to be added
  reply,       \* what the client got
  known        \* history: lastMod of the profile when the query arrived

sharedVars   == <<clock, conf, lastMod, concurrent, storeVars>>
exchangeVars == <<ep, late, resp, report>>
vars == <<sharedVars, pc, asked, exchangeVars, held, reply, known>>

\* Between taking a slot and giving it back.
SlotPC == {"exchange", "learn", "match", "add", "count", "return"}

Reply == [kind : {"none", "below", "refused", "servfail", "formerr", "answer", "hit"},
          msg : Msg \cup {NoMsg}, ttl : Int, at : Nat]

\* What an identity that carries no query is set to.
NoRequest == CHOOSE r \in Request : TRUE

\* A reply that carries no answer.
Bare(kind) == [kind |-> kind, msg |-> NoMsg, ttl |-> 0, at |-> 0]

NoReply == Bare("none")

AnswerOf(q) == [kind |-> "answer", msg |-> resp[q], ttl |-> 0, at |-> clock]

Init ==
  /\ StoreInit
  /\ clock = 0
  /\ conf = [p \in Profiles |-> 0]
  /\ lastMod = [p \in Profiles |-> 0]
  /\ concurrent = 0
  /\ pc = [q \in Queries |-> "idle"]
  /\ asked = [q \in Queries |-> NoRequest]
  /\ ep = [q \in Queries |-> 1]
  /\ late = [q \in Queries |-> FALSE]
  /\ resp = [q \in Queries |-> NoMsg]
  /\ report = [q \in Queries |-> 0]
  /\ held = [q \in Queries |-> NoItem]
  /\ reply = [q \in Queries |-> NoReply]
  /\ known = [q \in Queries |-> 0]

-----------------------------------------------------------------------------
(***************************************************************************)
(* Arrival and the cache                                                   *)
(***************************************************************************)

Goto(q, label) == pc' = [pc EXCEPT ![q] = label]

Replies(q, r) == reply' = [reply EXCEPT ![q] = r]

\* The query is routed to a profile; the cache, if there is one, comes first.
Arrive(q, r) ==
  /\ pc[q] = "idle"
  /\ Goto(q, IF Caching THEN "get" ELSE "identify")
  /\ asked' = [asked EXCEPT ![q] = r]
  /\ known' = [known EXCEPT ![q] = lastMod[r.profile]]
  /\ UNCHANGED <<sharedVars, exchangeVars, held, reply>>

\* Routed to passthrough, or a discovery lookup come back around: the next
\* plugin answers, or NXDOMAIN is written for it.
PassOn(q) ==
  /\ pc[q] = "idle"
  /\ Goto(q, "done")
  /\ Replies(q, Bare("below"))
  /\ UNCHANGED <<sharedVars, asked, exchangeVars, held, known>>

TrustsTheKey(item, r) == TRUE

\* matches: the entry answers this question, it does not just share its key.
Matches(item, r) == item.asked = r

\* get, up to the read of the shard.
GetEntry(q) ==
  LET item == items[Hash[asked[q]]] IN
  /\ pc[q] = "get"
  /\ IF asked[q].question \notin PTRQuestions /\ item # NoItem /\ Matches(item, asked[q])
       THEN Goto(q, "check") /\ held' = [held EXCEPT ![q] = item]
       ELSE Goto(q, "identify") /\ UNCHANGED held
  /\ UNCHANGED <<sharedVars, asked, exchangeVars, reply, known>>

IgnoresConf(item, p) == TRUE

\* Stored since the last configuration change the client was told of.
Current(item, p) == item.stored >= lastMod[p]

Remaining(item) == item.stored + item.ttl - clock

FloorSeconds(ticks) == ticks \div Second

\* Rounded up: what is left of a live entry is never handed out as zero.
CeilSeconds(ticks) == (ticks + Second - 1) \div Second

\* The rest of get: the clock, then lastMod under its lock. A usable entry is
\* the reply, its TTL counted down and its question section replaced by the one
\* asked, which does not change what it answers; the device is identified, never
\* held for.
CheckEntry(q) ==
  LET item == held[q] IN
  /\ pc[q] = "check"
  /\ IF Current(item, asked[q].profile) /\ Remaining(item) > 0
       THEN /\ Goto(q, "done")
            /\ Replies(q, [kind |-> "hit", msg |-> item.msg,
                           ttl |-> CeilSeconds(Remaining(item)), at |-> clock])
            /\ UNCHANGED held
       ELSE /\ Goto(q, "identify")
            /\ held' = [held EXCEPT ![q] = NoItem]
            /\ UNCHANGED reply
  /\ UNCHANGED <<sharedVars, asked, exchangeVars, known>>

(***************************************************************************)
(* The concurrency limit                                                   *)
(***************************************************************************)

RefusesLate(count) == count > MaxConcurrent + 1

Refuses(count) == count > MaxConcurrent

\* The device is identified; the query counts itself, then looks at the count.
\* A refused query stays counted until it returns.
TakeSlot(q) ==
  /\ pc[q] = "identify"
  /\ IF MaxConcurrent > 0
       THEN concurrent' = concurrent + 1
       ELSE UNCHANGED concurrent
  /\ IF MaxConcurrent > 0 /\ Refuses(concurrent')
       THEN Goto(q, "return") /\ Replies(q, Bare("refused"))
       ELSE Goto(q, "exchange") /\ UNCHANGED reply
  /\ UNCHANGED <<clock, conf, lastMod, storeVars, asked, exchangeVars, held, known>>

(***************************************************************************)
(* exchange and do                                                         *)
(***************************************************************************)

ToTheSecond(t) == (t \div Second) * Second

\* External. NextDNS answers the request sent to the endpoint being tried: under
\* its configuration of the moment, to a question that may be another, with a
\* time that has no fraction of a second, or none that can be parsed.
UpstreamAnswers(q, x, ttl, cacheable, told) ==
  LET p == asked[q].profile IN
  /\ pc[q] = "exchange"
  /\ resp[q] = NoMsg
  /\ resp' = [resp EXCEPT ![q] = [for |-> asked[q], question |-> x, conf |-> conf[p],
                                  ttl |-> ttl, cacheable |-> cacheable]]
  /\ report' = [report EXCEPT ![q] = IF told THEN ToTheSecond(conf[p]) ELSE 0]
  /\ UNCHANGED <<sharedVars, pc, asked, ep, late, held, reply, known>>

NoDeadline(q) == FALSE /\ UNCHANGED vars

\* The timeout of the whole exchange, shared by its endpoints.
DeadlinePasses(q) ==
  /\ pc[q] = "exchange"
  /\ ~late[q]
  /\ late' = [late EXCEPT ![q] = TRUE]
  /\ UNCHANGED <<sharedVars, pc, asked, ep, resp, report, held, reply, known>>

\* do failed: no connection, bad status, unreadable body, expired context. The
\* next endpoint is tried unless the time is up or this was the last one.
DoFails(q) ==
  /\ pc[q] = "exchange"
  /\ IF late[q] \/ ep[q] = Endpoints
       THEN Goto(q, "return") /\ Replies(q, Bare("servfail")) /\ UNCHANGED ep
       ELSE ep' = [ep EXCEPT ![q] = ep[q] + 1] /\ UNCHANGED <<pc, reply>>
  /\ resp' = [resp EXCEPT ![q] = NoMsg]
  /\ report' = [report EXCEPT ![q] = 0]
  /\ UNCHANGED <<sharedVars, asked, late, held, known>>

\* The query cannot be packed: no endpoint is tried.
PackFails(q) ==
  /\ pc[q] = "exchange"
  /\ ep[q] = 1 /\ resp[q] = NoMsg
  /\ Goto(q, "return")
  /\ Replies(q, Bare("servfail"))
  /\ UNCHANGED <<sharedVars, asked, exchangeVars, held, known>>

\* do succeeded; updateLastMod compares the report under the read lock.
DoSucceeds(q) ==
  /\ pc[q] = "exchange"
  /\ resp[q] # NoMsg
  /\ Goto(q, IF report[q] > lastMod[asked[q].profile] THEN "learn" ELSE "match")
  /\ UNCHANGED <<sharedVars, asked, exchangeVars, held, reply, known>>

LearnBlindly(q) ==
  /\ pc[q] = "learn"
  /\ lastMod' = [lastMod EXCEPT ![asked[q].profile] = report[q]]
  /\ Goto(q, "match")
  /\ UNCHANGED <<clock, conf, concurrent, storeVars, asked, exchangeVars, held, reply, known>>

\* updateLastMod under the write lock: another query may have been told later.
Learn(q) ==
  LET p == asked[q].profile IN
  /\ pc[q] = "learn"
  /\ lastMod' = [lastMod EXCEPT ![p] = IF report[q] > @ THEN report[q] ELSE @]
  /\ Goto(q, "match")
  /\ UNCHANGED <<clock, conf, concurrent, storeVars, asked, exchangeVars, held, reply, known>>

(***************************************************************************)
(* Back in ServeDNS: match, put, reply                                     *)
(***************************************************************************)

\* put's lifetime: the answer's own, raised to the minimum, then cut.
Clamp(ttl) ==
  LET raised == IF ttl < MinTTL THEN MinTTL ELSE ttl
  IN  IF raised > MaxTTL THEN MaxTTL ELSE raised

Cacheable(q) == Caching /\ asked[q].question \notin PTRQuestions /\ resp[q].cacheable

MatchesAnything(msg, r) == TRUE

\* External. CoreDNS's state.Match: a response with one question, of the name and
\* the type asked for. It looks at no class and no flag. A message that is no
\* response, or has not one question, stands with those on another subject.
Match(msg, r) == Subject[msg.question] = Subject[r.question]

\* An answer that does not match is refused; one that may be cached is stamped
\* with the time; any other is the reply.
Accept(q) ==
  /\ pc[q] = "match"
  /\ IF ~Match(resp[q], asked[q])
       THEN Goto(q, "return") /\ Replies(q, Bare("formerr")) /\ UNCHANGED held
     ELSE IF Cacheable(q)
       THEN /\ Goto(q, "add")
            /\ held' = [held EXCEPT ![q] = [stored |-> clock, ttl |-> Clamp(resp[q].ttl),
                                            msg |-> resp[q], asked |-> asked[q]]]
            /\ UNCHANGED reply
     ELSE Goto(q, "return") /\ Replies(q, AnswerOf(q)) /\ UNCHANGED held
  /\ UNCHANGED <<sharedVars, asked, exchangeVars, known>>

\* Add under the shard's lock.
AddEntry(q) ==
  LET k == Hash[asked[q]] IN
  /\ pc[q] = "add"
  /\ Insert(k, held[q])
  /\ IF Grows(k)
       THEN Goto(q, "count") /\ UNCHANGED reply
       ELSE Goto(q, "return") /\ Replies(q, AnswerOf(q))
  /\ UNCHANGED <<clock, conf, lastMod, concurrent, n, asked, exchangeVars, held, known>>

\* Add, after the unlock.
CountEntry(q) ==
  /\ pc[q] = "count"
  /\ n' = n + 1
  /\ Goto(q, "return")
  /\ Replies(q, AnswerOf(q))
  /\ UNCHANGED <<clock, conf, lastMod, concurrent, items, asked, exchangeVars, held, known>>

ReturnBy(q, given) ==
  /\ pc[q] = "return"
  /\ concurrent' = concurrent - given
  /\ Goto(q, "done")
  /\ UNCHANGED <<clock, conf, lastMod, storeVars, asked, exchangeVars, held, reply, known>>

OneSlot == IF MaxConcurrent > 0 THEN 1 ELSE 0

ReturnKeepsRefused(q) == ReturnBy(q, IF reply[q].kind = "refused" THEN 0 ELSE OneSlot)

ReturnTwice(q) == ReturnBy(q, 2 * OneSlot)

\* ServeDNS returns: the deferred decrement, whatever the outcome.
Return(q) == ReturnBy(q, OneSlot)

\* The goroutine is gone; its identity may carry another query.
QueryEnds(q) ==
  /\ pc[q] = "done"
  /\ Goto(q, "idle")
  /\ ep' = [ep EXCEPT ![q] = 1]
  /\ late' = [late EXCEPT ![q] = FALSE]
  /\ resp' = [resp EXCEPT ![q] = NoMsg]
  /\ report' = [report EXCEPT ![q] = 0]
  /\ held' = [held EXCEPT ![q] = NoItem]
  /\ asked' = [asked EXCEPT ![q] = NoRequest]
  /\ known' = [known EXCEPT ![q] = 0]
  /\ Replies(q, NoReply)
  /\ UNCHANGED sharedVars

-----------------------------------------------------------------------------
Tick ==
  /\ clock < MaxClock
  /\ clock' = clock + 1
  /\ UNCHANGED <<conf, lastMod, concurrent, storeVars, pc, asked, exchangeVars, held, reply, known>>

\* External. The owner of a profile edits it.
ConfChanges(p) ==
  /\ conf[p] < clock
  /\ conf' = [conf EXCEPT ![p] = clock]
  /\ UNCHANGED <<clock, lastMod, concurrent, storeVars, pc, asked, exchangeVars, held, reply, known>>

Next ==
  \/ \E q \in Queries :
       \/ \E r \in Request : Arrive(q, r)
       \/ PassOn(q) \/ GetEntry(q) \/ CheckEntry(q) \/ TakeSlot(q)
       \/ \E x \in Questions, ttl \in RecordTTLs, cacheable, told \in BOOLEAN :
            UpstreamAnswers(q, x, ttl, cacheable, told)
       \/ DeadlinePasses(q) \/ DoFails(q) \/ PackFails(q) \/ DoSucceeds(q) \/ Learn(q)
       \/ Accept(q) \/ AddEntry(q) \/ CountEntry(q) \/ Return(q) \/ QueryEnds(q)
  \/ Tick
  \/ \E p \in Profiles : ConfChanges(p)

Spec == Init /\ [][Next]_vars

\* What the query's own goroutine does without waiting for anybody.
Proceeds(q) ==
  \/ GetEntry(q) \/ CheckEntry(q) \/ TakeSlot(q) \/ (late[q] /\ DoFails(q)) \/ Learn(q)
  \/ Accept(q) \/ AddEntry(q) \/ CountEntry(q) \/ Return(q)

(***************************************************************************)
(* Fairness: a goroutine that can run does, and the exchange's deadline    *)
(* passes; once it has, do fails. None on NextDNS, which may never answer, *)
(* on clients, or on time beyond the deadline.                             *)
(***************************************************************************)
FairSpec ==
  Spec /\ \A q \in Queries : WF_vars(Proceeds(q)) /\ WF_vars(DeadlinePasses(q))

-----------------------------------------------------------------------------
(***************************************************************************)
(* Safety                                                                  *)
(***************************************************************************)

Holding == {q \in Queries : pc[q] \in SlotPC}

\* Past the limit's check and not yet done with the exchange and the cache.
Admitted == {q \in Queries : pc[q] \in SlotPC \ {"return"}}

Counting == {q \in Queries : pc[q] = "count"}

\* The variables have their types.
TypeOK ==
  /\ items      \in [Keys -> Item \cup {NoItem}]
  /\ n          \in Nat
  /\ clock      \in Nat
  /\ conf       \in [Profiles -> Nat]
  /\ lastMod    \in [Profiles -> Nat]
  /\ concurrent \in Nat
  /\ pc         \in [Queries -> SlotPC \cup {"idle", "get", "check", "identify", "done"}]
  /\ asked      \in [Queries -> Request]
  /\ ep         \in [Queries -> 1 .. Endpoints]
  /\ late       \in [Queries -> BOOLEAN]
  /\ resp       \in [Queries -> Msg \cup {NoMsg}]
  /\ report     \in [Queries -> Nat]
  /\ held       \in [Queries -> Item \cup {NoItem}]
  /\ reply      \in [Queries -> Reply]
  /\ known      \in [Queries -> Nat]

\* "Two profiles can have different blocklists, so the same question has two
\* answers": no client is ever given a message obtained for another request
\* (another profile or another question, its class and flags included), or one
\* about another name or type, although keys collide, entries are replaced and
\* evicted by other queries, and NextDNS may answer another question. That the
\* message is of the class asked for is not said: see OnlyAnswersCached.
AnswersOwnQuestion ==
  \A q \in Queries :
    reply[q].kind \in {"answer", "hit"} =>
      /\ reply[q].msg.for = asked[q]
      /\ Subject[reply[q].msg.question] = Subject[asked[q].question]

\* At most max_concurrent queries are between the limit's check and the end of
\* their exchange, although the count is raised before it is looked at.
ExchangesBounded ==
  MaxConcurrent > 0 => Cardinality(Admitted) <= MaxConcurrent

\* The counter is the number of queries that took part in it and have not
\* returned: no outcome (refused, failed, mismatched, answered) leaks a slot.
CounterExact ==
  concurrent = IF MaxConcurrent > 0 THEN Cardinality(Holding) ELSE 0

\* Store.Len differs from the number of entries only by the adds that have
\* left the shard's lock and not yet counted: it never drifts.
LenExact == n + Cardinality(Counting) = Cardinality(Present)

\* A configuration change the client knew of when a query arrived is honoured:
\* a hit is no entry stored before it, whatever the queries that stored the
\* entry and reported the change did meanwhile.
HitsSinceKnownChange ==
  \A q \in Queries : reply[q].kind = "hit" => held[q].stored >= known[q]

\* A hit's TTL is never zero, and never extends the answer's life past the
\* maximum by as much as a second, counted from when it was stored.
HitLifeBounded ==
  \A q \in Queries : reply[q].kind = "hit" =>
    /\ reply[q].ttl >= 1
    /\ reply[q].at + reply[q].ttl * Second < held[q].stored + MaxTTL + Second

\* The time of a profile's last change never goes back, although reports of
\* concurrent queries arrive in any order.
LastModMonotone ==
  [][\A p \in Profiles : lastMod'[p] >= lastMod[p]]_vars

-----------------------------------------------------------------------------
(***************************************************************************)
(* The memory of Memo, as the query path keeps it                          *)
(***************************************************************************)

Remembered(r) ==
  LET item == items[Hash[r]] IN IF item # NoItem /\ item.asked = r THEN item.msg ELSE NoMsg

\* The entry read, then the message received if it matches the request.
InHand(q) ==
  CASE pc[q] = "check" -> held[q].msg
    [] pc[q] \in {"exchange", "learn", "match", "add", "count"} /\ resp[q] # NoMsg ->
         IF Match(resp[q], asked[q]) THEN resp[q] ELSE NoMsg
    [] OTHER -> NoMsg

CallState(label) ==
  CASE label = "idle" -> "idle"
    [] label \in {"return", "done"} -> "answered"
    [] OTHER -> "asking"

Memos == [r \in Request |-> Remembered(r)]

Hands == [q \in Queries |-> InHand(q)]

Calls == [q \in Queries |-> [state |-> CallState(pc[q]), request |-> asked[q], msg |-> reply[q].msg]]

Memory == INSTANCE Memo WITH memo <- Memos, hand <- Hands, call <- Calls

\* To its clients the query path is that memory: though keys collide, shards
\* evict, endpoints fail and NextDNS may answer another question, a client gets
\* no answer, one by name and type that was obtained for its own request, or one
\* of those remembered for it.
KeepsMemory == Memory!Spec

(***************************************************************************)
(* Liveness                                                                *)
(***************************************************************************)

\* Every query returns, even if NextDNS never answers.
EveryQueryReturns ==
  \A q \in Queries : pc[q] # "idle" ~> pc[q] = "done"

(***************************************************************************)
(* What the documentation says and the code does not do                    *)
(***************************************************************************)

\* doh.go, lastMod: "Anything cached before that timestamp was resolved under
\* the old configuration and must not be served." README: the cache "drops a
\* profile's entries when NextDNS reports its configuration changed". So a hit
\* is no answer resolved before a change the client knew of when the query
\* arrived; not even one stored in a later second, where the fraction that the
\* report lacks makes no difference.
HitsUnderKnownConf ==
  \A q \in Queries :
    reply[q].kind = "hit" /\ held[q].stored > known[q] => reply[q].msg.conf >= known[q]

\* nextdns.go, ServeDNS: "A reply that does not answer the question we asked is
\* not usable, and must never reach the cache." So what the cache keeps for a
\* request answers its question; but a reply of another class passes Match, and
\* the entry it becomes is verified by the class asked for, not by its own.
OnlyAnswersCached ==
  \A k \in Present : items[k].msg.question = items[k].asked.question
=============================================================================
