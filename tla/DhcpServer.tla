----------------------------- MODULE DhcpServer -----------------------------
(***************************************************************************)
(* The DHCP server of src/src/dhcp.rs: the address pool, the two messages  *)
(* it answers, and the lease file other applets read.                      *)
(*                                                                         *)
(* The pool lives in memory only.  `persist` truncates the file and writes *)
(* one entry per lease, so a reader (dns, httpd) can see it half written,  *)
(* and a crash can leave it so; init then respawns the server with an      *)
(* empty pool.                                                             *)
(*                                                                         *)
(* A host name is whatever bytes the client sent, written as they are: a   *)
(* reader splits the text at line breaks and white space, so that only the *)
(* first word of the name ends the entry's own line, and a name with a     *)
(* line break makes lines of its own.  Reads says what a name reads as.    *)
(***************************************************************************)
EXTENDS Integers, Sequences

CONSTANTS
    Mac,          \* hardware addresses, ordered like the BTreeMap's keys
    Host,         \* host names, as sent (numbers, so that None is not one of them)
    Word,         \* single words, up to case (numbers too)
    Reads,        \* host name -> its first word, and the further lines with four words
    WordSize,     \* 2^32 in the code: addresses are u32 and wrap
    Pools,        \* the [start, count] a configuration may give: dhcp.start, dhcp.limit
    MaxRestarts   \* bound on the restarts of the server

None  == -1       \* Option::None; the name "*", which is written where there is none
Blank == -2       \* no word at all: the line has three words
Addr  == 0 .. WordSize - 1
Line  == [ip : Addr \cup {None}, word : Word \cup {None}]

ASSUME PoolAssumption ==
    /\ Mac \subseteq Nat /\ Host \subseteq Nat /\ Word \subseteq Nat
    /\ WordSize \in Nat \ {0}
    /\ Pools \subseteq [start : Addr, count : Addr]
    /\ MaxRestarts \in Nat

ASSUME ReadsAssumption == Reads \in [Host -> [word : Word \cup {None, Blank}, more : Seq(Line)]]

VARIABLES
    cfg,      \* the pool's start and count, read from the configuration at start
    byMac,    \* mac -> leased address, None if absent
    used,     \* leased addresses
    names,    \* address -> host name, None if absent
    file,     \* entries of /run/dhcp.leases, each with the host name as it was sent
    writing,  \* persist in progress: macs whose entry is still to be written
    replies,  \* history: every reply sent
    epoch,    \* history: restarts so far
    current   \* history: the file was written, completely, by this run's last persist

pool    == <<cfg, byMac, used, names>>
srvVars == <<pool, file, writing, replies, epoch, current>>

SrvInit ==
    /\ cfg \in Pools
    /\ byMac = [m \in Mac |-> None] /\ used = {} /\ names = [a \in Addr |-> None]
    /\ file = {} /\ writing = {}
    /\ replies = {} /\ epoch = 0 /\ current = FALSE

-----------------------------------------------------------------------------
(* Pool::lease_for and Pool::assign.                                       *)

\* Mutant: the sum is not reduced to the width of an address.
PoolAddrWide(off) == cfg.start + off

\* start + off, as u32 arithmetic wraps in a release build.
PoolAddr(off) == (cfg.start + off) % WordSize
Offsets       == 0 .. cfg.count - 1

\* Mutant: a request inside the pool is honoured although the address is taken.
HonouredTaken(req) == req # None /\ req >= cfg.start /\ req < PoolAddr(cfg.count)

\* "a sane request inside the pool": the bound start + count wraps too.
Honoured(req) == req # None /\ req >= cfg.start /\ req < PoolAddr(cfg.count) /\ req \notin used

FirstFree(off) == PoolAddr(off) \notin used /\ \A o \in Offsets : o < off => PoolAddr(o) \in used

\* Mutant: the search stops before the last address of the pool.
LeaseForShort(m, req) ==
    IF byMac[m] # None THEN byMac[m]
    ELSE IF Honoured(req) THEN req
    ELSE IF \E off \in Offsets : off + 1 \in Offsets /\ FirstFree(off)
    THEN PoolAddr(CHOOSE off \in Offsets : FirstFree(off))
    ELSE None

\* The address lease_for returns, None when the pool is exhausted.
LeaseFor(m, req) ==
    IF byMac[m] # None THEN byMac[m]
    ELSE IF Honoured(req) THEN req
    ELSE IF \E off \in Offsets : FirstFree(off)
    THEN PoolAddr(CHOOSE off \in Offsets : FirstFree(off))
    ELSE None

\* Mutant: the address is not marked as used.
AssignUnmarked(m, ip, host) ==
    /\ byMac' = [byMac EXCEPT ![m] = ip]
    /\ names' = IF host = None THEN names ELSE [names EXCEPT ![ip] = host]
    /\ UNCHANGED <<cfg, used>>

\* What lease_for and the host name of the request leave in the pool.
Assign(m, ip, host) ==
    /\ byMac' = [byMac EXCEPT ![m] = ip]
    /\ used' = used \cup {ip}
    /\ UNCHANGED cfg
    /\ names' = IF host = None THEN names ELSE [names EXCEPT ![ip] = host]

Reply(type, m, ip) ==
    replies' = replies \cup {[type |-> type, mac |-> m, ip |-> ip, epoch |-> epoch]}

-----------------------------------------------------------------------------
(* The server loop, one action per message type.  It is sequential: no     *)
(* packet is looked at while persist runs.                                 *)

Discover(m, req, host) ==
    /\ writing = {}
    /\ LET ip == LeaseFor(m, req) IN
         /\ ip # None                \* otherwise it stays silent
         /\ Assign(m, ip, host)
         /\ Reply("OFFER", m, ip)
    /\ UNCHANGED <<file, writing, epoch, current>>

\* Mutant: the file is opened without truncating it.
PersistAppends(macs) ==
    \/ current' = TRUE /\ writing' = macs /\ UNCHANGED file
    \/ current' = FALSE /\ UNCHANGED <<file, writing>>

\* The start of persist for the leases of `macs`: File::create truncates; if it
\* fails the file stays as it is.
Persist(macs) ==
    \/ file' = {} /\ current' = TRUE /\ writing' = macs
    \/ current' = FALSE /\ UNCHANGED <<file, writing>>

\* Mutant: what is written is the pool as it was before the grant.
RequestAckPersistsOld(m, req, host) ==
    /\ writing = {}
    /\ LeaseFor(m, req) # None
    /\ Assign(m, LeaseFor(m, req), host)
    /\ Reply("ACK", m, LeaseFor(m, req))
    /\ Persist({n \in Mac : byMac[n] # None})
    /\ UNCHANGED epoch

\* ACK, then persist.
RequestAck(m, req, host) ==
    /\ writing = {}
    /\ LET ip == LeaseFor(m, req) IN
         /\ ip # None
         /\ Assign(m, ip, host)
         /\ Reply("ACK", m, ip)
    /\ Persist({n \in Mac : byMac'[n] # None})
    /\ UNCHANGED epoch

RequestNak(m, req) ==
    /\ writing = {}
    /\ LeaseFor(m, req) = None
    /\ Reply("NAK", m, None)
    /\ UNCHANGED <<pool, file, writing, epoch, current>>

\* The next entry, in the order of the map, the name as it is.  A failed write is
\* ignored.
PersistLine ==
    \E m \in writing :
        /\ \A n \in writing : m <= n
        /\ writing' = writing \ {m}
        /\ \/ /\ file' = file \cup {[mac |-> m, ip |-> byMac[m], name |-> names[byMac[m]]]}
              /\ UNCHANGED current
           \/ current' = FALSE /\ UNCHANGED file
        /\ UNCHANGED <<pool, replies, epoch>>

\* The server dies anywhere, persist included, and init respawns it; it reads
\* the configuration again.
Restart ==
    /\ epoch < MaxRestarts
    /\ cfg' \in Pools
    /\ byMac' = [m \in Mac |-> None] /\ used' = {} /\ names' = [a \in Addr |-> None]
    /\ writing' = {} /\ epoch' = epoch + 1 /\ current' = FALSE
    /\ UNCHANGED <<file, replies>>

SrvStep == PersistLine \/ Restart

\* Any packet may arrive at any time: clients are free to repeat, reorder and
\* invent requests, and the network to lose and duplicate them.
Handle(m, req, host) == Discover(m, req, host) \/ RequestAck(m, req, host) \/ RequestNak(m, req)

SrvNext ==
    \/ SrvStep
    \/ \E m \in Mac, req \in Addr \cup {None}, host \in Host \cup {None} : Handle(m, req, host)

SrvSpec == SrvInit /\ [][SrvNext]_srvVars

-----------------------------------------------------------------------------
(* The file as it is read (lines, split_whitespace): line 0 of an entry is *)
(* the one that starts with its expiry, the others are its host name's.    *)

More(name)    == IF name = None THEN <<>> ELSE Reads[name].more
LineNos(l)    == 0 .. Len(More(l.name))
LineAt(l, i)  ==
    IF i = 0 THEN [ip |-> l.ip, word |-> IF l.name = None THEN None ELSE Reads[l.name].word]
    ELSE More(l.name)[i]

-----------------------------------------------------------------------------
(* Properties.                                                             *)

ReplyRec == [type : {"OFFER", "ACK", "NAK"}, mac : Mac, ip : Addr \cup {None}, epoch : Nat]

(* The pool, the file and the replies hold addresses of the width the code *)
(* uses (u32), whatever the sums of lease_for come to.                     *)
SrvTypeOK ==
    /\ cfg \in Pools
    /\ byMac \in [Mac -> Addr \cup {None}]
    /\ used \subseteq Addr
    /\ names \in [Addr -> Host \cup {None}]
    /\ file \subseteq [mac : Mac, ip : Addr, name : Host \cup {None}]
    /\ writing \subseteq Mac
    /\ replies \subseteq ReplyRec
    /\ epoch \in Nat /\ current \in BOOLEAN

(* No address is leased twice, and `used` is exactly the set of leased     *)
(* addresses, so an address can neither leak nor be handed out again; all  *)
(* of them come from the pool, even when start + limit wraps around.       *)
PoolConsistent ==
    /\ \A m, n \in Mac : byMac[m] # None /\ byMac[m] = byMac[n] => m = n
    /\ used = {byMac[m] : m \in {n \in Mac : byMac[n] # None}}
    /\ \A a \in used : \E off \in Offsets : a = PoolAddr(off)

\* The server's pool and replies as the abstract specification sees them.
PoolSet == {PoolAddr(off) : off \in Offsets}
Told    == {<<r.mac, r.ip>> : r \in {q \in replies : q.epoch = epoch /\ q.type # "NAK"}}
Refused == {r.mac : r \in {q \in replies : q.epoch = epoch /\ q.type = "NAK"}}

Promises == INSTANCE Leases WITH
    Client <- Mac, Address <- Addr, NoAddress <- None,
    pool <- PoolSet, lease <- byMac, told <- Told, refused <- Refused

(* The server implements Leases: whatever packets arrive, repeated or      *)
(* invented, and wherever the pool wraps around, a client is told one      *)
(* address and keeps it, no address is told to two, and a client is turned *)
(* away only when the pool is exhausted; only a restart forgets (server).  *)
LeasesKept == Promises!Spec

(* Whenever the file belongs to this run, the line of every entry that a   *)
(* reader finds, however far persist has come, is the lease of its client: *)
(* a line that is no lease is one of the further lines of a host name with *)
(* a line break.  Once persist is through, every client acknowledged in    *)
(* this run has its line, whatever names are around it (persist).          *)
LeaseFileSound ==
    current =>
        /\ \A l \in file : LineAt(l, 0).ip = byMac[l.mac]
        /\ writing = {} =>
             \A r \in replies : r.type = "ACK" /\ r.epoch = epoch =>
                 \E l \in file : l.mac = r.mac /\ LineAt(l, 0).ip = r.ip
=============================================================================
