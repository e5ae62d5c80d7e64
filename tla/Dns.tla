--------------------------------- MODULE Dns ---------------------------------
(***************************************************************************)
(* The resolver of src/src/dns.rs beside the DHCP server whose lease file  *)
(* it reads.                                                               *)
(*                                                                         *)
(* It is one thread: a query is answered from the lease file, from the     *)
(* cache, or by asking upstream, and nothing else is looked at while it    *)
(* waits up to three seconds for the answer.  The file is read again for   *)
(* every query, so it may be half written, or left by a server that has    *)
(* been restarted since.  A query is its transaction id and its question;  *)
(* a question is a name and whether it is a single A question.             *)
(*                                                                         *)
(* The socket that waits for upstream is not connected, and neither the    *)
(* sender, the id nor the question of what it receives is looked at: any   *)
(* datagram is taken for the answer.                                       *)
(***************************************************************************)
EXTENDS DhcpServer

CONSTANTS
    Id,        \* transaction ids
    Names,     \* names asked for; None is the name "*"
    Data,      \* what else an answer says
    TTL,       \* ticks for which an answer is used again (60 seconds)
    MaxTicks   \* bound on the clock

ASSUME DnsAssumption ==
    /\ Names \subseteq Word \cup {None}
    /\ TTL \in Nat \ {0} /\ MaxTicks \in Nat

Question == [name : Names, isA : BOOLEAN]
Query    == [id : Id, q : Question]
Datagram == [id : Id, q : Question, data : Data]
Nothing  == [from |-> "nobody"]

VARIABLES
    cache,   \* question -> [packet, when], Nothing if absent
    asking,  \* the query being forwarded, Nothing if idle
    sent,    \* the answer sent by the last step, Nothing if it sent none
    now,     \* the clock
    given    \* history of this run: question -> what the last datagram taken for its answer says,
             \* when it came, and whether it was the answer to the query

dnsVars == <<cache, asking, sent, now, given>>
lanVars == <<srvVars, dnsVars>>

DnsInit ==
    /\ SrvInit
    /\ cache = [q \in Question |-> Nothing] /\ asking = Nothing
    /\ sent = Nothing /\ now = 0
    /\ given = [q \in Question |-> Nothing]

-----------------------------------------------------------------------------
(* lookup_lease and local_answer.                                          *)

Has(l, i, name) == i \in LineNos(l) /\ LineAt(l, i).word = name
Matching(name)  == {l \in file : \E i \in LineNos(l) : Has(l, i, name)}

\* The first entry with the name, in the order of the hardware addresses, and in it
\* the first line.
FirstEntry(name)   == CHOOSE l \in Matching(name) : \A k \in Matching(name) : l.mac <= k.mac
FirstLine(l, name) == CHOOSE i \in LineNos(l) : Has(l, i, name) /\ \A j \in LineNos(l) : Has(l, j, name) => i <= j

\* None also if the third word of that line is no address: no other line is tried.
LookupLease(name) ==
    IF Matching(name) = {} THEN None
    ELSE LineAt(FirstEntry(name), FirstLine(FirstEntry(name), name)).ip

\* Everything but a single A question is left to upstream.
LocalAnswer(q) == IF q.isA THEN LookupLease(q.name) ELSE None

-----------------------------------------------------------------------------
(* The loop of run.                                                        *)

\* The answer to `query`: `to` is the id of the query and `q` its question, the other
\* fields are the answer's own.
Answer(from, query, packet) ==
    sent' = [from |-> from, to |-> query.id, q |-> query.q,
             id |-> packet.id, about |-> packet.q, data |-> packet.data]

AnswerLocally(query) ==
    /\ asking = Nothing
    /\ LocalAnswer(query.q) # None
    /\ Answer("leases", query, [id |-> query.id, q |-> query.q, data |-> LocalAnswer(query.q)])
    /\ UNCHANGED <<srvVars, cache, asking, now, given>>

Cached(q) == cache[q] # Nothing /\ now - cache[q].when < TTL

\* Mutant: the stored answer is sent as it was stored.
AnswerCachedAsStored(query) ==
    /\ asking = Nothing
    /\ LocalAnswer(query.q) = None /\ Cached(query.q)
    /\ Answer("cache", query, cache[query.q].packet)
    /\ UNCHANGED <<srvVars, cache, asking, now, given>>

\* The stored answer with the id of this query.
AnswerCached(query) ==
    /\ asking = Nothing
    /\ LocalAnswer(query.q) = None /\ Cached(query.q)
    /\ Answer("cache", query, [cache[query.q].packet EXCEPT !.id = query.id])
    /\ UNCHANGED <<srvVars, cache, asking, now, given>>

\* forward: to the address in /run/wan.dns, from a socket of its own.
Forward(query) ==
    /\ asking = Nothing
    /\ LocalAnswer(query.q) = None /\ ~Cached(query.q)
    /\ asking' = query /\ sent' = Nothing
    /\ UNCHANGED <<srvVars, cache, now, given>>

\* The first datagram to arrive is passed on as it is and stored, under the question
\* that was asked, with id 0; nothing is ever evicted.
Forwarded(packet) ==
    /\ asking # Nothing
    /\ cache' = [cache EXCEPT ![asking.q] = [packet |-> [packet EXCEPT !.id = 0], when |-> now]]
    /\ Answer("upstream", asking, packet)
    /\ given' = [given EXCEPT ![asking.q] =
                     [q |-> packet.q, data |-> packet.data, when |-> now,
                      fits |-> packet.id = asking.id /\ packet.q = asking.q]]
    /\ asking' = Nothing
    /\ UNCHANGED <<srvVars, now>>

\* No socket, no route, or no answer in time: the client gets nothing.
ForwardFails ==
    /\ asking # Nothing
    /\ asking' = Nothing /\ sent' = Nothing
    /\ UNCHANGED <<srvVars, cache, now, given>>

\* The resolver dies (an answer of less than two bytes is indexed out of bounds)
\* and init starts it again, with an empty cache.
DnsRestart ==
    /\ asking # Nothing
    /\ cache' = [q \in Question |-> Nothing] /\ asking' = Nothing /\ sent' = Nothing
    /\ given' = [q \in Question |-> Nothing]
    /\ UNCHANGED <<srvVars, now>>

Tick ==
    /\ now < MaxTicks /\ now' = now + 1 /\ sent' = Nothing
    /\ UNCHANGED <<srvVars, cache, asking, given>>

DnsStep ==
    \/ \E query \in Query : AnswerLocally(query) \/ AnswerCached(query) \/ Forward(query)
    \/ \E packet \in Datagram : Forwarded(packet)
    \/ ForwardFails \/ DnsRestart

DnsNext ==
    \/ SrvNext /\ sent' = Nothing /\ UNCHANGED <<cache, asking, now, given>>
    \/ DnsStep \/ Tick

DnsSpec == DnsInit /\ [][DnsNext]_lanVars

-----------------------------------------------------------------------------
(* Properties.                                                             *)

(* A name is answered with an address that the server has offered or       *)
(* acknowledged to some client; while the file is this run's, with one     *)
(* that is leased now, even if persist is in the middle of the file.       *)
(* Otherwise the answer stands under that name in a host name with a line  *)
(* break that a client sent, and the file as it was read holds that name   *)
(* (lookup_lease, persist).                                                *)
LocalAnswersLeased ==
    [][ sent'.from = "leases" =>
          \/ /\ \E r \in replies : r.type # "NAK" /\ r.ip = sent'.data
             /\ current => \E m \in Mac : byMac[m] = sent'.data
          \/ \E l \in file : \E i \in LineNos(l) \ {0} :
                LineAt(l, i) = [ip |-> sent'.data, word |-> sent'.q.name] ]_lanVars

(* An answer from the lease file or the cache carries the id of the query  *)
(* it answers.  One that is not from the lease file is the datagram that   *)
(* was last taken for the answer to the very same question, less than TTL  *)
(* ago, whatever was asked and cached for others in between; so if that    *)
(* datagram was the answer to the query that was forwarded, the client is  *)
(* told the answer to its own question under its own id (run, forward).    *)
AnswersCurrent ==
    sent # Nothing =>
        /\ sent.from # "upstream" => sent.id = sent.to
        /\ sent.from # "leases" =>
             LET g == given[sent.q] IN
             /\ g # Nothing /\ now - g.when < TTL
             /\ sent.about = g.q /\ sent.data = g.data
             /\ g.fits => sent.id = sent.to /\ sent.about = sent.q
=============================================================================
