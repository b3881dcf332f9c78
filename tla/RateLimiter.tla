----------------------------- MODULE RateLimiter -----------------------------
(***************************************************************************)
(* Who pays for a request: the router of apps/api (lib.rs) and its limiter *)
(* (infrastructure/rate_limit.rs) on a token bucket per key.               *)
(*                                                                         *)
(* A request comes through the operator's own proxies, each of which       *)
(* appends the address it heard from to x-forwarded-for, after whatever    *)
(* the client had put there; or from inside, straight to the service and   *)
(* without the header.                                                     *)
(***************************************************************************)
EXTENDS Integers, Sequences, SequencesExt

CONSTANTS Clients,
          Proxies,      \* the operator's proxies, the one clients talk to first
          ClientSends,  \* what clients send as x-forwarded-for, as lists of entries
          Burst

\* What an entry of the header may be besides an address.
BlankEntry == "blank"
NotTextEntry == "not_text"

ProxyHosts == {Proxies[i] : i \in DOMAIN Proxies}

ASSUME LimiterAssumption ==
    /\ Proxies \in Seq(ProxyHosts)
    /\ {BlankEntry, NotTextEntry} \cap (Clients \cup ProxyHosts) = {}
    /\ \A prefix \in ClientSends : prefix \in Seq(Range(prefix))
    /\ Burst \in Nat \ {0}

VARIABLES trusted,      \* TRUSTED_PROXY_HOPS, the number of proxies in use
          buckets,      \* the limiter's map: tokens left per key seen so far
          account       \* what a bucket of its own would hold, per sender

limiterVars == <<trusted, buckets, account>>

-----------------------------------------------------------------------------

Through(client, prefix) ==
    [sender |-> client, through |-> TRUE,
     header |-> IF trusted = 0 THEN prefix
                ELSE prefix \o <<client>> \o SubSeq(Proxies, 1, trusted - 1),
     peer |-> IF trusted = 0 THEN client ELSE Proxies[trusted]]

Direct(client) == [sender |-> client, through |-> FALSE, header |-> <<>>, peer |-> client]

\* Where the header has an entry: one that is not text makes all of it unreadable, and
\* blanks are skipped.
Entries(header) ==
    IF \E i \in DOMAIN header : header[i] = NotTextEntry THEN {}
    ELSE {i \in DOMAIN header : header[i] # BlankEntry}

\* A defect: the leftmost entry, as it was before the hops were configured.
LeftmostKey(request) ==
    LET forwarded == Entries(request.header)
    IN  IF trusted = 0 \/ forwarded = {} THEN request.peer
        ELSE request.header[CHOOSE i \in forwarded : \A j \in forwarded : i <= j]

\* client_key: the entry `trusted' from the end, or the peer address.
ClientKey(request) ==
    LET forwarded == Entries(request.header)
        FromTheEnd(i) == Cardinality({j \in forwarded : i <= j})
    IN  IF trusted = 0 \/ Cardinality(forwarded) < trusted THEN request.peer
        ELSE request.header[CHOOSE i \in forwarded : FromTheEnd(i) = trusted]

Tokens(key) == IF key \in DOMAIN buckets THEN buckets[key] ELSE Burst

-----------------------------------------------------------------------------

LimiterInit ==
    /\ trusted \in 0..Len(Proxies)
    /\ buckets = <<>>
    /\ account = [s \in Clients \cup ProxyHosts |-> Burst]

\* Whose account a request is for: its client's, unless the client made the header
\* unreadable; then all that is known is the proxy it came through.
Payer(request) ==
    IF trusted > 0 /\ NotTextEntry \in Range(request.header) THEN request.peer ELSE request.sender

\* `layer': a key's first request makes its bucket; an empty bucket answers 429.
Admit(key) ==
    buckets' = [k \in DOMAIN buckets \cup {key} |->
                   IF k = key THEN IF Tokens(k) = 0 THEN 0 ELSE Tokens(k) - 1 ELSE buckets[k]]

\* Routes of the domain are behind the limiter; the probes and /auth are not.
Handle(request, route) ==
    /\ IF route = "domain"
       THEN /\ Admit(ClientKey(request))
            /\ account' = [account EXCEPT ![Payer(request)] = IF @ = 0 THEN 0 ELSE @ - 1]
       ELSE UNCHANGED <<buckets, account>>
    /\ UNCHANGED trusted

\* Time passes: every bucket gains a token.
Refill ==
    /\ \E key \in DOMAIN buckets : buckets[key] < Burst
    /\ buckets' = [key \in DOMAIN buckets |-> IF buckets[key] < Burst THEN buckets[key] + 1 ELSE Burst]
    /\ account' = [s \in DOMAIN account |-> IF account[s] < Burst THEN account[s] + 1 ELSE Burst]
    /\ UNCHANGED trusted

LimiterNext ==
    \/ \E client \in Clients, route \in {"domain", "probe", "auth"} :
          \/ \E prefix \in ClientSends : Handle(Through(client, prefix), route)
          \/ Handle(Direct(client), route)
    \/ Refill

LimiterSpec == LimiterInit /\ [][LimiterNext]_limiterVars

-----------------------------------------------------------------------------

\* However a client dresses its header, its requests are charged to one bucket that
\* holds what they alone left, so that nobody is refused for another's requests and
\* the map never grows past the hosts that exist.
BucketsAreTheClients ==
    /\ DOMAIN buckets \subseteq Clients \cup ProxyHosts
    /\ \A s \in Clients \cup ProxyHosts : Tokens(s) = account[s]
=============================================================================
