----------------------------- MODULE MCBootstrap -----------------------------
(***************************************************************************)
(* Instances of Bootstrap for TLC: what a Corefile may say of two hosts,   *)
(* of which the code knows one.                                            *)
(***************************************************************************)
EXTENDS Bootstrap, TLC

CONSTANTS four, six, third, nextdns, other

KnownAddresses == (nextdns :> <<four, six, third>>) @@ (other :> <<>>)

Bare(h) == [host |-> h, hash |-> FALSE, own |-> <<>>]

Quoted(h, list) == [host |-> h, hash |-> TRUE, own |-> list]

\* Nothing; a host the code does not know; the same with addresses, twice; with
\* a bare "#", then both hosts.
Corefiles ==
  { <<>>,
    <<Bare(other)>>,
    <<Quoted(other, <<four>>), Quoted(other, <<six, third>>)>>,
    <<Quoted(other, <<>>), Quoted(other, <<four>>)>>,
    <<Quoted(other, <<>>), Bare(nextdns)>> }

Bootstraps == { <<>>, <<four, third>> }

Symmetry == Permutations(Dialers)
=============================================================================
