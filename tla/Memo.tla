--------------------------------- MODULE Memo ---------------------------------
(***************************************************************************)
(* What the query path of src/nextdns.go and src/cache.go promises to the  *)
(* clients: each query is answered at most once, with no answer or with a  *)
(* message about the name and type it asked for that was obtained for its  *)
(* own request (profile and whole question), by this query or by an        *)
(* earlier one for the same request. That the message is of the class      *)
(* asked for is not promised: nothing compares it. The memory holds one    *)
(* message per request and may lose any of them whenever another is kept.  *)
(*                                                                         *)
(* Keys, shards, collisions, lifetimes, limits, endpoints and failures are *)
(* left to the query path.                                                 *)
(***************************************************************************)
CONSTANTS
  Request, Msg, NoMsg, Queries,
  Subject,    \* per question, one that stands for its name and type
  NoRequest   \* request of a query that asks nothing

VARIABLES
  memo,  \* message remembered for each request
  hand,  \* message each query has obtained or recalled
  call   \* per query: state, request, message given

vars == <<memo, hand, call>>

NoCall == [state |-> "idle", request |-> NoRequest, msg |-> NoMsg]

Given(r, m) == [state |-> "answered", request |-> r, msg |-> m]

Asking(q) == call[q].state = "asking"

AnswersTo(m, r) == m \in Msg /\ m.for = r /\ Subject[m.question] = Subject[r.question]

Init ==
  /\ memo = [r \in Request |-> NoMsg]
  /\ hand = [q \in Queries |-> NoMsg]
  /\ call = [q \in Queries |-> NoCall]

Asks(q, r) ==
  /\ call[q].state = "idle"
  /\ call' = [call EXCEPT ![q] = [state |-> "asking", request |-> r, msg |-> NoMsg]]
  /\ UNCHANGED <<memo, hand>>

\* The query is somebody else's to answer.
Passes(q) ==
  /\ call[q].state = "idle"
  /\ call' = [call EXCEPT ![q] = Given(NoRequest, NoMsg)]
  /\ UNCHANGED <<memo, hand>>

Recalls(q) ==
  /\ Asking(q)
  /\ memo[call[q].request] # NoMsg
  /\ hand' = [hand EXCEPT ![q] = memo[call[q].request]]
  /\ UNCHANGED <<memo, call>>

Obtains(q) ==
  /\ Asking(q)
  /\ AnswersTo(hand'[q], call[q].request)
  /\ hand' = [hand EXCEPT ![q] = hand'[q]]
  /\ UNCHANGED <<memo, call>>

\* A recalled message may be too old, an obtained one unusable.
Drops(q) ==
  /\ Asking(q)
  /\ hand' = [hand EXCEPT ![q] = NoMsg]
  /\ UNCHANGED <<memo, call>>

Answers(q) ==
  /\ Asking(q)
  /\ hand[q] # NoMsg
  /\ call' = [call EXCEPT ![q] = Given(call[q].request, hand[q])]
  /\ hand' = [hand EXCEPT ![q] = NoMsg]

Fails(q) ==
  /\ Asking(q)
  /\ call' = [call EXCEPT ![q] = Given(call[q].request, NoMsg)]
  /\ hand' = [hand EXCEPT ![q] = NoMsg]
  /\ UNCHANGED memo

Keeps(q) ==
  /\ Asking(q)
  /\ hand[q] # NoMsg
  /\ \E lost \in SUBSET Request :
       memo' = [r \in Request |-> IF r = call[q].request THEN hand[q]
                                  ELSE IF r \in lost THEN NoMsg ELSE memo[r]]

Leaves(q) ==
  /\ call[q].state = "answered"
  /\ call' = [call EXCEPT ![q] = NoCall]
  /\ UNCHANGED <<memo, hand>>

Next ==
  \E q \in Queries :
    \/ \E r \in Request : Asks(q, r)
    \/ Passes(q) \/ Recalls(q) \/ Obtains(q) \/ Drops(q) \/ Fails(q) \/ Leaves(q)
    \/ Answers(q) /\ UNCHANGED memo
    \/ Keeps(q) /\ UNCHANGED <<hand, call>>
    \/ Keeps(q) /\ Answers(q)

Spec == Init /\ [][Next]_vars
=============================================================================
