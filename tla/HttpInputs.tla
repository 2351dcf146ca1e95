----------------------------- MODULE HttpInputs -----------------------------
(***************************************************************************)
(* What the HTTP layer computes from a request alone: the address a        *)
(* request is counted under (presentation/http/rate_limit.rs) and the part *)
(* of the table a page of the listing shows (application/user/dto.rs).     *)
(***************************************************************************)
EXTENDS Naturals, Sequences, SequencesExt

CONSTANTS
    Addresses,     \* IP addresses
    Trusted,       \* those in trusted_proxy_cidrs
    Unreadable,    \* an entry of X-Forwarded-For that is no IP address
    Opaque,        \* one with a byte that is not visible ASCII
    MaxForged,     \* BOUND: entries a client writes into the header itself
    MaxHops,       \* BOUND: trusted proxies in front of the server
    MaxPerPage,    \* 100
    MaxTotal       \* BOUND: users, pages and per_page values tried

ASSUME InputConstants ==
    /\ Trusted \subseteq Addresses
    /\ Unreadable \notin Addresses
    /\ Opaque \notin Addresses \cup {Unreadable}
    /\ MaxForged \in Nat /\ MaxHops \in Nat /\ MaxTotal \in Nat
    /\ MaxPerPage \in Nat \ {0}

-----------------------------------------------------------------------------
(* The rate limiter's key.  A header is a sequence of lines, a line a sequence *)
(* of entries.                                                               *)

\* headers().get and to_str: the first line alone, whole or not at all.
Readable(header) == header # <<>> /\ \A i \in DOMAIN header[1] : header[1][i] # Opaque

\* MUTANT of ClientKey: the chain is read from its first entry on.
ClientKeyFromLeft(peer, header) ==
    LET chain == header[1]
        stops == {i \in DOMAIN chain : chain[i] \notin Trusted}
        first == chain[CHOOSE i \in stops : \A k \in stops : i <= k]
    IN  IF peer \notin Trusted \/ ~Readable(header) \/ stops = {} \/ first = Unreadable
        THEN peer ELSE first

\* extract: a trusted peer is asked for the rightmost address of the chain that
\* is not trusted; an entry that is no address ends the search.
ClientKey(peer, header) ==
    LET chain == header[1]
        stops == {i \in DOMAIN chain : chain[i] \notin Trusted}
        last  == chain[CHOOSE i \in stops : \A k \in stops : i >= k]
    IN  IF peer \notin Trusted \/ ~Readable(header) \/ stops = {} \/ last = Unreadable
        THEN peer ELSE last

\* What the client sends itself, or nothing; several lines of its own are one
\* line here, for only a proxy that joins them looks behind the first.
Forged == BoundedSeq(Addresses \cup {Unreadable, Opaque}, MaxForged)

\* The request passes through the trusted proxies `hops` (perhaps none).  Each
\* adds the address it was called from, which the first may hide (`seen`): it
\* joins all lines and its entry into one, or adds a line of its own.  The last
\* that joins is number `joined`.
Header(forged, seen, hops, joined) ==
    LET added == <<seen>> \o Front(hops)
        sent  == IF joined > 0 THEN <<forged \o SubSeq(added, 1, joined)>>
                 ELSE IF forged = <<>> THEN <<>> ELSE <<forged>>
    IN  sent \o [k \in 1..Len(hops) - joined |-> <<added[joined + k]>>]

\* No line of the client's own stands before what the proxies say: it sent none,
\* a proxy overwrites it (as README.md:253 asks of operators) or joins it.
ProxiesSpeakFirst(forged, hops, joined) == joined > 0 \/ forged = <<>> \/ hops = <<>>

\* Then its request is counted under its own address, or under the proxy's when
\* the chain does not name it or has a byte in it that to_str refuses.
EveryKeyIsItsClient ==
    \A client \in Addresses \ Trusted, forged \in Forged,
       hops \in BoundedSeq(Trusted, MaxHops), seen \in Addresses \cup {Unreadable} :
    \A joined \in 0..Len(hops) :
        seen \in {client, Unreadable} /\ ProxiesSpeakFirst(forged, hops, joined) =>
            LET peer  == IF hops = <<>> THEN client ELSE Last(hops)
                named == seen = client /\ \A i \in DOMAIN forged : forged[i] # Opaque
            IN  ClientKey(peer, Header(forged, seen, hops, joined)) =
                    IF named THEN client ELSE peer

-----------------------------------------------------------------------------
(* Pages. *)

\* normalized: page.max(1), per_page.clamp(1, 100).
Page(page) == IF page > 1 THEN page ELSE 1

PerPage(per_page) ==
    IF per_page < 1 THEN 1 ELSE IF per_page > MaxPerPage THEN MaxPerPage ELSE per_page

\* MUTANT of Offset: the first page is number 0.
OffsetFromZero(page, per_page) == Page(page) * PerPage(per_page)

Offset(page, per_page) == (Page(page) - 1) * PerPage(per_page)

\* LIMIT per_page OFFSET offset of `total` rows, numbered from 1.
Shown(total, page, per_page) ==
    {i \in 1..total : /\ i > Offset(page, per_page)
                      /\ i <= Offset(page, per_page) + PerPage(per_page)}

\* Of every table, the pages of one size show each row exactly once, and page 0
\* is page 1.
EveryTableIsTiled ==
    \A total, per_page \in 0..MaxTotal :
        /\ Shown(total, 0, per_page) = Shown(total, 1, per_page)
        /\ \A i \in 1..total :
              \E page \in 1..total :
                 \A q \in 1..total + 1 : i \in Shown(total, q, per_page) <=> q = page
=============================================================================
