----------------------------- MODULE DhcpProofs ------------------------------
(***************************************************************************)
(* Proofs about the DHCP server and the programs that live with it, for    *)
(* every set of clients, every pool and every width of an address: the     *)
(* server's pool is consistent and the server implements Leases            *)
(* (DhcpServer, Leases); what the clients bring up is what the server has  *)
(* leased them, so that no two share an address (DhcpClient); and the      *)
(* resolver answers from the lease file and its cache only what is true    *)
(* (Dns).                                                                  *)
(***************************************************************************)
EXTENDS DhcpClient, Dns, NaturalsInduction, WellFoundedInduction, TLAPS

-----------------------------------------------------------------------------
(* Arithmetic modulo the width of an address.                              *)

\* The remainder is an address.
LEMMA ModRange == ASSUME NEW a \in Nat PROVE a % WordSize \in Addr
  BY PoolAssumption, SMT DEF Addr

\* The remainder of a sum that does not wrap.
LEMMA ModLow == ASSUME NEW w \in Nat \ {0}, NEW a \in 0 .. w - 1 PROVE a % w = a
  BY SMT

\* The remainder of a sum that wraps once.
LEMMA ModHigh == ASSUME NEW w \in Nat \ {0}, NEW a \in w .. 2 * w - 1 PROVE a % w = a - w
  BY SMT

\* A sum of two addresses wraps at most once.
LEMMA ModOnce ==
  ASSUME NEW a \in Addr, NEW b \in Addr
  PROVE  (a + b) % WordSize = IF a + b < WordSize THEN a + b ELSE (a + b) - WordSize
<1>1. WordSize \in Nat \ {0} /\ a \in Nat /\ b \in Nat
  BY PoolAssumption DEF Addr
<1>2. CASE a + b < WordSize
  <2>1. a + b \in 0 .. WordSize - 1
    BY <1>1, <1>2
  <2>2. (a + b) % WordSize = a + b
    BY ONLY <1>1, <2>1, ModLow, Zenon
  <2> QED  BY <1>2, <2>2
<1>3. CASE ~(a + b < WordSize)
  <2>1. a + b \in WordSize .. 2 * WordSize - 1
    BY <1>1, <1>3, PoolAssumption DEF Addr
  <2>2. \A s \in WordSize .. 2 * WordSize - 1 : s % WordSize = s - WordSize
    BY <1>1, ModHigh, Zenon
  <2> QED  BY <1>3, <2>1, <2>2, Zenon
<1> QED  BY <1>2, <1>3

\* None is not an address.
LEMMA NoneNotAddr == None \notin Addr
  BY PoolAssumption DEF None, Addr

\* Every offset of a pool gives an address.
LEMMA PoolAddrType ==
  ASSUME cfg \in Pools, NEW off \in Offsets PROVE PoolAddr(off) \in Addr
<1>1. cfg.start \in Nat /\ off \in Nat
  BY PoolAssumption DEF Addr, Offsets
<1> QED  BY <1>1, ModRange DEF PoolAddr

\* A request that is honoured is in the pool, also where start + count wraps:
\* the range check then lets nothing through.
LEMMA HonouredInPool ==
  ASSUME cfg \in Pools, NEW req \in Addr \cup {None}, Honoured(req)
  PROVE  req \in Addr /\ req \notin used /\ \E off \in Offsets : req = PoolAddr(off)
<1>1. req \in Addr /\ req \notin used /\ req >= cfg.start /\ req < PoolAddr(cfg.count)
  BY DEF Honoured
<1>2. cfg.start \in Addr /\ cfg.count \in Addr
  BY PoolAssumption
<1>3. PoolAddr(cfg.count) = IF cfg.start + cfg.count < WordSize
                            THEN cfg.start + cfg.count ELSE (cfg.start + cfg.count) - WordSize
  BY <1>2, ModOnce DEF PoolAddr
<1>4. req - cfg.start \in Offsets
  BY <1>1, <1>2, <1>3, PoolAssumption DEF Addr, Offsets
<1>5. req - cfg.start \in Addr
  BY <1>1, <1>2, PoolAssumption DEF Addr
<1>6. PoolAddr(req - cfg.start) = req
  <2>1. (cfg.start + (req - cfg.start)) % WordSize =
           IF cfg.start + (req - cfg.start) < WordSize
           THEN cfg.start + (req - cfg.start) ELSE (cfg.start + (req - cfg.start)) - WordSize
    BY <1>2, <1>5, ModOnce
  <2>2. cfg.start + (req - cfg.start) = req /\ req < WordSize
    BY <1>1, <1>2, PoolAssumption DEF Addr
  <2> QED  BY <2>1, <2>2 DEF PoolAddr
<1> QED  BY <1>1, <1>4, <1>6

\* A set of numbers that is not empty has a smallest one.
LEMMA SmallestFree ==
  ASSUME NEW S \in SUBSET Nat, S # {} PROVE \E o \in S : \A p \in S : o <= p
<1> DEFINE less == OpToRel(<, Nat)
<1>1. IsWellFoundedOn(less, Nat)
  BY NatLessThanWellFounded
<1>2. less = {ss \in Nat \X Nat : ss[1] < ss[2]}
  BY DEF OpToRel
<1> HIDE DEF less
<1>3. PICK o \in S : \A p \in S : ~(<<p, o>> \in less)
  BY <1>1, WFMin
<1>4. ASSUME NEW p \in S PROVE o <= p
  <2>1. o \in Nat /\ p \in Nat
    OBVIOUS
  <2>2. p < o => <<p, o>> \in less
    BY <1>2, <2>1
  <2> QED  BY <1>3, <2>1, <2>2
<1> QED  BY <1>4

-----------------------------------------------------------------------------
(* What lease_for returns: the address a client has; else a free one of    *)
(* the pool; None only if there is none.                                   *)

LEMMA LeaseForSpec ==
  ASSUME SrvTypeOK, NEW m \in Mac, NEW req \in Addr \cup {None}
  PROVE  /\ LeaseFor(m, req) \in Addr \cup {None}
         /\ byMac[m] # None => LeaseFor(m, req) = byMac[m]
         /\ byMac[m] = None /\ LeaseFor(m, req) # None =>
              /\ LeaseFor(m, req) \notin used
              /\ \E off \in Offsets : LeaseFor(m, req) = PoolAddr(off)
<1>1. cfg \in Pools /\ byMac[m] \in Addr \cup {None}
  BY DEF SrvTypeOK
<1>2. CASE byMac[m] # None
  BY <1>1, <1>2 DEF LeaseFor
<1>3. CASE byMac[m] = None /\ Honoured(req)
  <2>1. LeaseFor(m, req) = req
    BY <1>3 DEF LeaseFor
  <2> QED  BY <2>1, <1>1, <1>3, HonouredInPool
<1>4. CASE byMac[m] = None /\ ~Honoured(req) /\ \E off \in Offsets : FirstFree(off)
  <2> DEFINE o == CHOOSE off \in Offsets : FirstFree(off)
  <2>1. o \in Offsets /\ FirstFree(o)
    BY <1>4
  <2>2. LeaseFor(m, req) = PoolAddr(o)
    BY <1>4 DEF LeaseFor
  <2>3. PoolAddr(o) \notin used
    BY <2>1 DEF FirstFree
  <2>4. PoolAddr(o) \in Addr
    BY <2>1, <1>1, PoolAddrType
  <2> HIDE DEF o
  <2> QED  BY <2>1, <2>2, <2>3, <2>4, <1>4
<1>5. CASE byMac[m] = None /\ ~Honoured(req) /\ ~\E off \in Offsets : FirstFree(off)
  BY <1>5 DEF LeaseFor
<1> QED  BY <1>2, <1>3, <1>4, <1>5

\* The search gives up only if every address of the pool is taken.
LEMMA LeaseForNone ==
  ASSUME SrvTypeOK, NEW m \in Mac, NEW req \in Addr \cup {None}, LeaseFor(m, req) = None
  PROVE  byMac[m] = None /\ \A off \in Offsets : PoolAddr(off) \in used
<1>1. byMac[m] = None
  BY DEF LeaseFor
<1>2. ~Honoured(req)
  BY <1>1 DEF LeaseFor, Honoured
<1>3. ~\E off \in Offsets : FirstFree(off)
  <2> SUFFICES ASSUME \E off \in Offsets : FirstFree(off) PROVE FALSE
    OBVIOUS
  <2> DEFINE o == CHOOSE off \in Offsets : FirstFree(off)
  <2>1. o \in Offsets /\ LeaseFor(m, req) = PoolAddr(o)
    BY <1>1, <1>2 DEF LeaseFor
  <2> QED  BY <2>1, PoolAddrType, NoneNotAddr DEF SrvTypeOK
<1> DEFINE Free == {off \in Offsets : PoolAddr(off) \notin used}
<1>4. SUFFICES ASSUME Free # {} PROVE FALSE
  BY <1>1
<1>5. Free \subseteq Nat
  BY DEF Offsets
<1>6. PICK o \in Free : \A p \in Free : o <= p
  BY <1>4, <1>5, SmallestFree
<1>7. FirstFree(o)
  BY <1>5, <1>6 DEF FirstFree, Offsets
<1> QED  BY <1>3, <1>6, <1>7

-----------------------------------------------------------------------------
(* The inductive invariant.  PoolConsistent needs the types only; the file *)
(* needs more: a reply of this run is what the pool says, persist is about *)
(* leases that exist, and an acknowledged client that has no line yet is   *)
(* still to be written.                                                    *)

WritingLeased == \A m \in writing : byMac[m] # None
EpochsPast    == \A r \in replies : r.epoch <= epoch
RepliesHeld   == \A r \in replies : r.epoch = epoch /\ r.type # "NAK" =>
                     r.ip # None /\ byMac[r.mac] = r.ip
InFile(r)     == \E l \in file : l.mac = r.mac /\ l.ip = r.ip
FileComing    == current =>
                     /\ \A l \in file : byMac[l.mac] = l.ip
                     /\ \A r \in replies : r.type = "ACK" /\ r.epoch = epoch =>
                            r.mac \in writing \/ InFile(r)

SrvInv == SrvTypeOK /\ PoolConsistent /\ WritingLeased /\ EpochsPast /\ RepliesHeld /\ FileComing

\* What granting an address does to the pool.
LEMMA AssignOK ==
  ASSUME SrvTypeOK, PoolConsistent,
         NEW m \in Mac, NEW req \in Addr \cup {None}, NEW host \in Host \cup {None},
         NEW ip, ip = LeaseFor(m, req), ip # None, Assign(m, ip, host)
  PROVE  /\ ip \in Addr /\ cfg' = cfg
         /\ byMac' = [byMac EXCEPT ![m] = ip]
         /\ byMac' \in [Mac -> Addr \cup {None}]
         /\ \A n \in Mac : byMac[n] # None => byMac'[n] = byMac[n]
         /\ used' \subseteq Addr
         /\ names' \in [Addr -> Host \cup {None}]
         /\ PoolConsistent'
<1>1. /\ byMac \in [Mac -> Addr \cup {None}] /\ used \subseteq Addr
      /\ names \in [Addr -> Host \cup {None}]
  BY DEF SrvTypeOK
<1>2. /\ ip \in Addr
      /\ byMac[m] # None => ip = byMac[m]
      /\ byMac[m] = None => ip \notin used /\ \E off \in Offsets : ip = PoolAddr(off)
  BY LeaseForSpec
<1>3. /\ cfg' = cfg /\ byMac' = [byMac EXCEPT ![m] = ip] /\ used' = used \cup {ip}
      /\ names' = IF host = None THEN names ELSE [names EXCEPT ![ip] = host]
  BY DEF Assign
<1>4. names' \in [Addr -> Host \cup {None}]
  BY <1>1, <1>2, <1>3
<1>5. byMac' \in [Mac -> Addr \cup {None}] /\ used' \subseteq Addr
  BY <1>1, <1>2, <1>3
<1>6. \A n \in Mac : byMac'[n] = IF n = m THEN ip ELSE byMac[n]
  BY <1>1, <1>3
<1>7. \A n \in Mac : byMac[n] # None => byMac'[n] = byMac[n]
  BY <1>2, <1>6
<1>8. /\ \A n, k \in Mac : byMac[n] # None /\ byMac[n] = byMac[k] => n = k
      /\ used = {byMac[n] : n \in {k \in Mac : byMac[k] # None}}
      /\ \A a \in used : \E off \in Offsets : a = PoolAddr(off)
  BY DEF PoolConsistent
<1>9. PoolConsistent'
  <2>1. \A n \in Mac : n # m => byMac[n] # ip
    BY <1>2, <1>8
  <2>2. \A n, k \in Mac : byMac'[n] # None /\ byMac'[n] = byMac'[k] => n = k
    BY <1>6, <1>8, <2>1
  <2>3. used' = {byMac'[n] : n \in {k \in Mac : byMac'[k] # None}}
    <3>1. ASSUME NEW a \in used' PROVE \E n \in Mac : byMac'[n] # None /\ a = byMac'[n]
      BY <3>1, <1>3, <1>6, <1>7, <1>8
    <3>2. ASSUME NEW n \in Mac, byMac'[n] # None PROVE byMac'[n] \in used'
      BY <3>2, <1>3, <1>6, <1>8
    <3> QED  BY <3>1, <3>2
  <2>4. ip \in used \/ \E off \in Offsets : ip = PoolAddr(off)
    BY <1>2, <1>8
  <2>5. \A a \in used' : \E off \in Offsets : a = PoolAddr(off)
    BY <1>3, <1>8, <2>4
  <2>6. Offsets' = Offsets /\ \A off : PoolAddr(off)' = PoolAddr(off)
    BY <1>3 DEF Offsets, PoolAddr
  <2>7. \A a \in used' : \E off \in Offsets' : a = PoolAddr(off)'
    BY <2>5, <2>6
  <2> QED  BY <2>2, <2>3, <2>7 DEF PoolConsistent
<1> QED  BY <1>2, <1>3, <1>4, <1>5, <1>7, <1>9

LEMMA InitInv == SrvInit => SrvInv
<1> SUFFICES ASSUME SrvInit PROVE SrvInv
  OBVIOUS
<1>1. SrvTypeOK
  BY PoolAssumption DEF SrvInit, SrvTypeOK
<1>2. PoolConsistent
  BY DEF SrvInit, PoolConsistent
<1> QED  BY <1>1, <1>2 DEF SrvInit, SrvInv, WritingLeased, EpochsPast, RepliesHeld, FileComing

\* What sending a reply adds.
LEMMA ReplyOK ==
  ASSUME SrvTypeOK, EpochsPast, epoch' = epoch,
         NEW type \in {"OFFER", "ACK", "NAK"}, NEW m \in Mac, NEW ip \in Addr \cup {None},
         Reply(type, m, ip)
  PROVE  /\ replies' \subseteq ReplyRec /\ EpochsPast'
         /\ \A r \in replies' : r \in replies \/
               (r.type = type /\ r.mac = m /\ r.ip = ip /\ r.epoch = epoch)
<1>1. replies \subseteq ReplyRec /\ epoch \in Nat
  BY DEF SrvTypeOK
<1> DEFINE rec == [type |-> type, mac |-> m, ip |-> ip, epoch |-> epoch]
<1>2. replies' = replies \cup {rec}
  BY DEF Reply
<1>3. rec \in ReplyRec
  BY <1>1 DEF ReplyRec
<1>4. replies' \subseteq ReplyRec
  BY <1>1, <1>2, <1>3
<1>5. EpochsPast'
  BY <1>1, <1>2 DEF EpochsPast
<1>6. \A r \in replies' : r \in replies \/
               (r.type = type /\ r.mac = m /\ r.ip = ip /\ r.epoch = epoch)
  BY <1>2
<1> QED  BY <1>4, <1>5, <1>6

\* A grant keeps what was said in this run true, and the new reply is true.
LEMMA GrantHeld ==
  ASSUME SrvInv, epoch' = epoch,
         NEW type \in {"OFFER", "ACK"},
         NEW m \in Mac, NEW req \in Addr \cup {None}, NEW host \in Host \cup {None},
         NEW ip, ip = LeaseFor(m, req), ip # None, Assign(m, ip, host), Reply(type, m, ip)
  PROVE  RepliesHeld'
<1>1. /\ ip \in Addr /\ byMac' = [byMac EXCEPT ![m] = ip]
      /\ \A n \in Mac : byMac[n] # None => byMac'[n] = byMac[n]
  BY AssignOK DEF SrvInv
<1>2. \A r \in replies' : r \in replies \/
               (r.type = type /\ r.mac = m /\ r.ip = ip /\ r.epoch = epoch)
  BY <1>1, ReplyOK DEF SrvInv
<1>3. byMac \in [Mac -> Addr \cup {None}] /\ \A r \in replies : r.mac \in Mac
  BY DEF SrvInv, SrvTypeOK, ReplyRec
<1>4. SUFFICES ASSUME NEW r \in replies', r.epoch = epoch, r.type # "NAK"
               PROVE  r.ip # None /\ byMac'[r.mac] = r.ip
  BY DEF RepliesHeld
<1>5. CASE r \in replies
  BY <1>1, <1>3, <1>4, <1>5 DEF SrvInv, RepliesHeld
<1>6. CASE r.mac = m /\ r.ip = ip
  BY <1>1, <1>3, <1>6
<1> QED  BY <1>2, <1>5, <1>6

LEMMA DiscoverInv ==
  ASSUME SrvInv, NEW m \in Mac, NEW req \in Addr \cup {None}, NEW host \in Host \cup {None},
         Discover(m, req, host)
  PROVE  SrvInv'
<1> DEFINE ip == LeaseFor(m, req)
<1>1. /\ ip # None /\ Assign(m, ip, host) /\ Reply("OFFER", m, ip) /\ writing = {}
      /\ file' = file /\ writing' = writing /\ epoch' = epoch /\ current' = current
  BY DEF Discover
<1> HIDE DEF ip
<1>2. SrvTypeOK /\ PoolConsistent /\ EpochsPast /\ FileComing
  BY DEF SrvInv
<1>3. ip = LeaseFor(m, req)
  BY DEF ip
<1>4. /\ ip \in Addr /\ cfg' = cfg /\ byMac' \in [Mac -> Addr \cup {None}]
      /\ \A n \in Mac : byMac[n] # None => byMac'[n] = byMac[n]
      /\ used' \subseteq Addr /\ names' \in [Addr -> Host \cup {None}] /\ PoolConsistent'
  BY <1>1, <1>2, <1>3, AssignOK
<1>5. /\ replies' \subseteq ReplyRec /\ EpochsPast'
      /\ \A r \in replies' : r \in replies \/ r.type = "OFFER"
  BY <1>1, <1>2, <1>4, ReplyOK
<1>6. RepliesHeld'
  BY <1>1, <1>3, GrantHeld
<1>7. SrvTypeOK'
  BY <1>1, <1>2, <1>4, <1>5 DEF SrvTypeOK
<1>8. FileComing'
  <2>1. SUFFICES ASSUME current
                 PROVE  /\ \A l \in file : byMac'[l.mac] = l.ip
                        /\ \A r \in replies' : r.type = "ACK" /\ r.epoch = epoch =>
                               r.mac \in writing \/ InFile(r)
    BY <1>1 DEF FileComing, InFile
  <2>2. \A l \in file : l.mac \in Mac /\ l.ip # None
    BY <1>2, NoneNotAddr DEF SrvTypeOK
  <2>3. \A l \in file : byMac'[l.mac] = l.ip
    BY <1>2, <1>4, <2>1, <2>2 DEF FileComing
  <2>4. \A r \in replies' : r.type = "ACK" /\ r.epoch = epoch => r.mac \in writing \/ InFile(r)
    BY <1>2, <1>5, <2>1 DEF FileComing
  <2> QED  BY <2>3, <2>4
<1>9. WritingLeased'
  BY <1>1 DEF WritingLeased
<1> QED  BY <1>4, <1>5, <1>6, <1>7, <1>8, <1>9 DEF SrvInv

LEMMA RequestAckInv ==
  ASSUME SrvInv, NEW m \in Mac, NEW req \in Addr \cup {None}, NEW host \in Host \cup {None},
         RequestAck(m, req, host)
  PROVE  SrvInv'
<1> DEFINE ip == LeaseFor(m, req)
<1>1. /\ ip # None /\ Assign(m, ip, host) /\ Reply("ACK", m, ip) /\ writing = {}
      /\ epoch' = epoch /\ Persist({n \in Mac : byMac'[n] # None})
  BY DEF RequestAck
<1> HIDE DEF ip
<1>2. SrvTypeOK /\ PoolConsistent /\ EpochsPast /\ FileComing
  BY DEF SrvInv
<1>3. ip = LeaseFor(m, req)
  BY DEF ip
<1>4. /\ ip \in Addr /\ cfg' = cfg /\ byMac' \in [Mac -> Addr \cup {None}]
      /\ used' \subseteq Addr /\ names' \in [Addr -> Host \cup {None}] /\ PoolConsistent'
  BY <1>1, <1>2, <1>3, AssignOK
<1>5. replies' \subseteq ReplyRec /\ EpochsPast'
  BY <1>1, <1>2, <1>4, ReplyOK
<1>6. RepliesHeld'
  BY <1>1, <1>3, GrantHeld
<1>7. \/ file' = {} /\ current' = TRUE /\ writing' = {n \in Mac : byMac'[n] # None}
      \/ current' = FALSE /\ file' = file /\ writing' = {}
  BY <1>1 DEF Persist
<1>8. SrvTypeOK'
  <2>1. /\ file' \subseteq [mac : Mac, ip : Addr, name : Host \cup {None}]
        /\ writing' \subseteq Mac /\ current' \in BOOLEAN
    BY <1>2, <1>7 DEF SrvTypeOK
  <2> QED  BY <1>1, <1>2, <1>4, <1>5, <2>1 DEF SrvTypeOK
<1>9. WritingLeased'
  BY <1>7 DEF WritingLeased
<1>10. FileComing'
  <2>1. CASE current' = FALSE
    BY <2>1 DEF FileComing
  <2>2. CASE file' = {} /\ writing' = {n \in Mac : byMac'[n] # None}
    <3>1. \A r \in replies' : r.mac \in Mac
      BY <1>5 DEF ReplyRec
    <3>2. \A r \in replies' : r.type = "ACK" /\ r.epoch = epoch' => r.mac \in writing'
      BY <1>6, <2>2, <3>1 DEF RepliesHeld
    <3> QED  BY <2>2, <3>2 DEF FileComing
  <2> QED  BY <1>7, <2>1, <2>2
<1> QED  BY <1>4, <1>5, <1>6, <1>8, <1>9, <1>10 DEF SrvInv

LEMMA RequestNakInv ==
  ASSUME SrvInv, NEW m \in Mac, NEW req \in Addr \cup {None}, RequestNak(m, req)
  PROVE  SrvInv'
<1>1. /\ Reply("NAK", m, None) /\ cfg' = cfg /\ byMac' = byMac /\ used' = used /\ names' = names
      /\ file' = file /\ writing' = writing /\ epoch' = epoch /\ current' = current
  BY DEF RequestNak, pool
<1>2. /\ SrvTypeOK /\ PoolConsistent /\ EpochsPast /\ FileComing
      /\ WritingLeased /\ RepliesHeld
  BY DEF SrvInv
<1>3. /\ replies' \subseteq ReplyRec /\ EpochsPast'
      /\ \A r \in replies' : r \in replies \/ r.type = "NAK"
  BY <1>1, <1>2, ReplyOK
<1>4. SrvTypeOK'
  BY <1>1, <1>2, <1>3 DEF SrvTypeOK
<1>5. PoolConsistent'
  BY <1>1, <1>2 DEF PoolConsistent, Offsets, PoolAddr
<1>6. WritingLeased'
  BY <1>1, <1>2 DEF WritingLeased
<1>7. RepliesHeld'
  BY <1>1, <1>2, <1>3 DEF RepliesHeld
<1>8. FileComing'
  BY <1>1, <1>2, <1>3 DEF FileComing, InFile
<1> QED  BY <1>3, <1>4, <1>5, <1>6, <1>7, <1>8 DEF SrvInv

LEMMA PersistLineInv == SrvInv /\ PersistLine => SrvInv'
<1> SUFFICES ASSUME SrvInv, PersistLine PROVE SrvInv'
  OBVIOUS
<1>1. PICK m \in writing :
         /\ writing' = writing \ {m}
         /\ \/ /\ file' = file \cup {[mac |-> m, ip |-> byMac[m], name |-> names[byMac[m]]]}
               /\ current' = current
            \/ current' = FALSE /\ file' = file
  BY DEF PersistLine
<1>2. /\ cfg' = cfg /\ byMac' = byMac /\ used' = used /\ names' = names
      /\ replies' = replies /\ epoch' = epoch
  BY DEF PersistLine, pool
<1>3. /\ SrvTypeOK /\ PoolConsistent /\ EpochsPast /\ FileComing
      /\ WritingLeased /\ RepliesHeld
  BY DEF SrvInv
<1>4. m \in Mac /\ byMac[m] \in Addr /\ names[byMac[m]] \in Host \cup {None}
  BY <1>1, <1>3 DEF SrvTypeOK, WritingLeased
<1> DEFINE line == [mac |-> m, ip |-> byMac[m], name |-> names[byMac[m]]]
<1>5. line \in [mac : Mac, ip : Addr, name : Host \cup {None}] /\ line.mac = m /\ line.ip = byMac[m]
  BY <1>4
<1>6. \/ file' = file \cup {line} /\ current' = current
      \/ current' = FALSE /\ file' = file
  BY <1>1
<1> HIDE DEF line
<1>7. SrvTypeOK'
  <2>1. file' \subseteq [mac : Mac, ip : Addr, name : Host \cup {None}] /\ current' \in BOOLEAN
    BY <1>3, <1>5, <1>6 DEF SrvTypeOK
  <2> QED  BY <1>1, <1>2, <1>3, <2>1 DEF SrvTypeOK
<1>8. PoolConsistent' /\ WritingLeased' /\ EpochsPast' /\ RepliesHeld'
  BY <1>1, <1>2, <1>3 DEF PoolConsistent, Offsets, PoolAddr, WritingLeased, EpochsPast, RepliesHeld
<1>9. FileComing'
  <2>1. CASE current' = FALSE
    BY <2>1 DEF FileComing
  <2>2. CASE current /\ file' = file \cup {line}
    <3>1. \A l \in file' : byMac'[l.mac] = l.ip
      BY <1>2, <1>3, <1>5, <2>2 DEF FileComing
    <3>2. ASSUME NEW r \in replies, r.type = "ACK", r.epoch = epoch
          PROVE  r.mac \in writing' \/ \E l \in file' : l.mac = r.mac /\ l.ip = r.ip
      <4>1. r.mac \in writing \/ InFile(r)
        BY <1>3, <2>2, <3>2 DEF FileComing
      <4>2. byMac[r.mac] = r.ip
        BY <1>3, <3>2 DEF RepliesHeld
      <4> QED  BY <1>1, <1>5, <2>2, <4>1, <4>2 DEF InFile
    <3> QED  BY <1>2, <3>1, <3>2 DEF FileComing, InFile
  <2>3. CASE ~current /\ current' = current
    BY <2>3 DEF FileComing
  <2> QED  BY <1>6, <2>1, <2>2, <2>3
<1> QED  BY <1>7, <1>8, <1>9 DEF SrvInv

LEMMA RestartInv == SrvInv /\ Restart => SrvInv'
<1> SUFFICES ASSUME SrvInv, Restart PROVE SrvInv'
  OBVIOUS
<1>1. /\ cfg' \in Pools /\ byMac' = [m \in Mac |-> None] /\ used' = {}
      /\ names' = [a \in Addr |-> None] /\ writing' = {} /\ epoch' = epoch + 1
      /\ current' = FALSE /\ file' = file /\ replies' = replies
  BY DEF Restart
<1>2. SrvTypeOK /\ EpochsPast
  BY DEF SrvInv
<1>3. SrvTypeOK'
  <2>1. byMac' \in [Mac -> Addr \cup {None}] /\ names' \in [Addr -> Host \cup {None}]
    BY <1>1
  <2>2. epoch' \in Nat
    BY <1>1, <1>2 DEF SrvTypeOK
  <2>3. used' \subseteq Addr /\ writing' \subseteq Mac /\ current' \in BOOLEAN
    BY <1>1
  <2> QED  BY <1>1, <1>2, <2>1, <2>2, <2>3 DEF SrvTypeOK
<1>4. PoolConsistent'
  BY <1>1 DEF PoolConsistent
<1>5. \A r \in replies : r.epoch \in Nat
  BY <1>2 DEF SrvTypeOK, ReplyRec
<1>6. EpochsPast' /\ RepliesHeld'
  BY <1>1, <1>2, <1>5 DEF EpochsPast, RepliesHeld, SrvTypeOK
<1>7. WritingLeased' /\ FileComing'
  BY <1>1 DEF WritingLeased, FileComing
<1> QED  BY <1>3, <1>4, <1>6, <1>7 DEF SrvInv

LEMMA StutterInv == SrvInv /\ UNCHANGED srvVars => SrvInv'
  BY DEF SrvInv, srvVars, pool, SrvTypeOK, PoolConsistent, Offsets, PoolAddr, WritingLeased,
         EpochsPast, RepliesHeld, FileComing, InFile

LEMMA StepInv == SrvInv /\ [SrvNext]_srvVars => SrvInv'
<1> SUFFICES ASSUME SrvInv, [SrvNext]_srvVars PROVE SrvInv'
  OBVIOUS
<1>1. CASE PersistLine
  BY <1>1, PersistLineInv
<1>2. CASE Restart
  BY <1>2, RestartInv
<1>3. ASSUME NEW m \in Mac, NEW req \in Addr \cup {None}, NEW host \in Host \cup {None},
             Handle(m, req, host)
      PROVE  SrvInv'
  BY <1>3, DiscoverInv, RequestAckInv, RequestNakInv DEF Handle
<1>4. CASE UNCHANGED srvVars
  BY <1>4, StutterInv
<1> QED  BY <1>1, <1>2, <1>3, <1>4 DEF SrvNext, SrvStep

LEMMA InvAlways == SrvSpec => []SrvInv
<1>1. SrvInit => SrvInv
  BY InitInv
<1>2. SrvInv /\ [SrvNext]_srvVars => SrvInv'
  BY StepInv
<1> QED  BY <1>1, <1>2, PTL DEF SrvSpec

(* The pool, the file and the replies hold values of their types: an       *)
(* address is a u32, although lease_for adds to the start without a check. *)
THEOREM ServerTypes == SrvSpec => []SrvTypeOK
<1>1. SrvInv => SrvTypeOK
  BY DEF SrvInv
<1> QED  BY <1>1, InvAlways, PTL

(* lease_for never leases an address twice, never loses one and never      *)
(* leaves the pool, whatever clients ask for and wherever the pool wraps.  *)
THEOREM PoolSafe == SrvSpec => []PoolConsistent
<1>1. SrvInv => PoolConsistent
  BY DEF SrvInv
<1> QED  BY <1>1, InvAlways, PTL

(* Wherever persist stands, the line of every entry in the file of this    *)
(* run is a lease as it is read, and after persist every acknowledged      *)
(* client has its line, for every way in which host names may read: only   *)
(* the further lines of a name can be no lease (dhcp.rs: persist).         *)
THEOREM FileSafe == SrvSpec => []LeaseFileSound
<1>1. SrvInv => LeaseFileSound
  BY DEF SrvInv, FileComing, InFile, LeaseFileSound, LineAt
<1> QED  BY <1>1, InvAlways, PTL

-----------------------------------------------------------------------------
(* The server implements Leases.                                           *)

\* Under PoolConsistent, an address is free for Leases iff lease_for finds it so.
LEMMA LeasedIsUsed ==
  ASSUME PoolConsistent, NEW a, a # None
  PROVE  Promises!Leased(a) <=> a \in used
<1>1. used = {byMac[m] : m \in {n \in Mac : byMac[n] # None}}
  BY DEF PoolConsistent
<1> QED  BY <1>1 DEF Promises!Leased

\* A reply that grants an address is a Promise.
LEMMA GrantPromises ==
  ASSUME SrvInv, epoch' = epoch, NEW type \in {"OFFER", "ACK"},
         NEW m \in Mac, NEW req \in Addr \cup {None}, NEW host \in Host \cup {None},
         NEW ip, ip = LeaseFor(m, req), ip # None, Assign(m, ip, host), Reply(type, m, ip)
  PROVE  ip \in Addr /\ Promises!Promise(m, ip)
<1>1. SrvTypeOK /\ PoolConsistent
  BY DEF SrvInv
<1>2. /\ ip \in Addr /\ cfg' = cfg
      /\ byMac' = [byMac EXCEPT ![m] = ip]
  BY <1>1, AssignOK
<1>3. /\ byMac[m] # None => ip = byMac[m]
      /\ byMac[m] = None => ip \notin used /\ \E off \in Offsets : ip = PoolAddr(off)
  BY <1>1, LeaseForSpec
<1>4. byMac[m] = ip \/ (byMac[m] = None /\ ip \in PoolSet /\ ~Promises!Leased(ip))
  BY <1>1, <1>3, LeasedIsUsed DEF PoolSet
<1>5. PoolSet' = PoolSet
  BY <1>2 DEF PoolSet, PoolAddr, Offsets
<1> DEFINE rec == [type |-> type, mac |-> m, ip |-> ip, epoch |-> epoch]
<1>6. replies' = replies \cup {rec} /\ rec.epoch = epoch /\ rec.type # "NAK"
      /\ rec.mac = m /\ rec.ip = ip
  BY DEF Reply
<1> HIDE DEF rec
<1>7. Told' = Told \cup {<<m, ip>>}
  BY <1>6 DEF Told
<1>8. Refused' = Refused
  BY <1>6 DEF Refused
<1> QED  BY <1>2, <1>4, <1>5, <1>7, <1>8 DEF Promises!Promise

\* Turning a client away is a Refuse: the pool is really exhausted.
LEMMA NakRefuses ==
  ASSUME SrvInv, NEW m \in Mac, NEW req \in Addr \cup {None}, RequestNak(m, req)
  PROVE  Promises!Refuse(m)
<1>1. SrvTypeOK /\ PoolConsistent
  BY DEF SrvInv
<1>2. /\ LeaseFor(m, req) = None /\ Reply("NAK", m, None)
      /\ cfg' = cfg /\ byMac' = byMac /\ epoch' = epoch
  BY DEF RequestNak, pool
<1>3. byMac[m] = None /\ \A off \in Offsets : PoolAddr(off) \in used
  BY <1>1, <1>2, LeaseForNone
<1>4. \A a \in PoolSet : Promises!Leased(a)
  <2>1. SUFFICES ASSUME NEW off \in Offsets PROVE Promises!Leased(PoolAddr(off))
    BY DEF PoolSet
  <2>2. PoolAddr(off) # None
    BY <1>1, PoolAddrType, NoneNotAddr DEF SrvTypeOK
  <2> QED  BY <1>1, <1>3, <2>2, LeasedIsUsed
<1>5. PoolSet' = PoolSet
  BY <1>2 DEF PoolSet, PoolAddr, Offsets
<1> DEFINE rec == [type |-> "NAK", mac |-> m, ip |-> None, epoch |-> epoch]
<1>6. replies' = replies \cup {rec} /\ rec.epoch = epoch /\ rec.type = "NAK" /\ rec.mac = m
  BY <1>2 DEF Reply
<1> HIDE DEF rec
<1>7. Told' = Told
  BY <1>2, <1>6 DEF Told
<1>8. Refused' = Refused \cup {m}
  BY <1>2, <1>6 DEF Refused
<1> QED  BY <1>2, <1>3, <1>4, <1>5, <1>7, <1>8 DEF Promises!Refuse

\* A restart is a Forget: no reply is of the new run yet.
LEMMA RestartForgets ==
  ASSUME SrvInv, Restart PROVE Promises!Forget
<1>1. /\ cfg' \in Pools /\ byMac' = [c \in Mac |-> None]
      /\ epoch' = epoch + 1 /\ replies' = replies
  BY DEF Restart
<1>2. \A r \in replies : r.epoch # epoch'
  BY <1>1 DEF SrvInv, EpochsPast, SrvTypeOK, ReplyRec
<1>3. Told' = {} /\ Refused' = {}
  BY <1>1, <1>2 DEF Told, Refused
<1>4. PoolSet' \subseteq Addr
  <2>1. SUFFICES ASSUME NEW off \in 0 .. cfg'.count - 1
                 PROVE  (cfg'.start + off) % WordSize \in Addr
    BY DEF PoolSet, PoolAddr, Offsets
  <2>2. cfg'.start + off \in Nat
    BY <1>1, PoolAssumption DEF Addr
  <2> QED  BY <2>2, ModRange
<1> QED  BY <1>1, <1>3, <1>4 DEF Promises!Forget

(* Every step of the server is a step of Leases or leaves its state alone: *)
(* a client is told one address and keeps it, no address is told to two,   *)
(* and a client is turned away only when the pool is exhausted.            *)
THEOREM ServerImplementsLeases == SrvSpec => LeasesKept
<1>1. SrvInit => Promises!Init
  <2> SUFFICES ASSUME SrvInit PROVE Promises!Init
    OBVIOUS
  <2>1. byMac = [c \in Mac |-> None] /\ Told = {} /\ Refused = {}
    BY DEF SrvInit, Told, Refused
  <2>2. PoolSet \subseteq Addr
    BY PoolAddrType DEF SrvInit, PoolSet
  <2> QED  BY <2>1, <2>2 DEF Promises!Init, Promises!Nothing
<1>2. SrvInv /\ [SrvNext]_srvVars => [Promises!Next]_(Promises!vars)
  <2> SUFFICES ASSUME SrvInv, [SrvNext]_srvVars
               PROVE  Promises!Next \/ UNCHANGED Promises!vars
    OBVIOUS
  <2>1. CASE PersistLine \/ UNCHANGED srvVars
    <3>1. cfg' = cfg /\ byMac' = byMac /\ replies' = replies /\ epoch' = epoch
      BY <2>1 DEF PersistLine, srvVars, pool
    <3>2. PoolSet' = PoolSet /\ Told' = Told /\ Refused' = Refused
      BY <3>1 DEF PoolSet, PoolAddr, Offsets, Told, Refused
    <3> QED  BY <3>1, <3>2 DEF Promises!vars
  <2>2. CASE Restart
    BY <2>2, RestartForgets DEF Promises!Next
  <2>3. ASSUME NEW m \in Mac, NEW req \in Addr \cup {None}, NEW host \in Host \cup {None},
               Handle(m, req, host)
        PROVE  Promises!Next
    <3>1. CASE RequestNak(m, req)
      BY <3>1, NakRefuses DEF Promises!Next
    <3>2. CASE Discover(m, req, host)
      BY <3>2, GrantPromises DEF Discover, Promises!Next
    <3>3. CASE RequestAck(m, req, host)
      BY <3>3, GrantPromises DEF RequestAck, Promises!Next
    <3> QED  BY <2>3, <3>1, <3>2, <3>3 DEF Handle
  <2> QED  BY <2>1, <2>2, <2>3 DEF SrvNext, SrvStep
<1> QED  BY <1>1, <1>2, InvAlways, PTL DEF SrvSpec, LeasesKept, Promises!Spec

-----------------------------------------------------------------------------
(* What the clients get from an implementation of Leases.                  *)

\* Every reply since the last restart is still what the leases say.
LeasesInv ==
    /\ byMac \in [Mac -> Addr \cup {None}]
    /\ \A c, d \in Mac : byMac[c] = byMac[d] /\ byMac[c] # None => c = d
    /\ \A t \in Told : t[1] \in Mac /\ t[2] # None /\ byMac[t[1]] = t[2]
    /\ \A c \in Refused : c \in Mac /\ byMac[c] = None /\ \A a \in PoolSet : Promises!Leased(a)

LEMMA PromiseInv ==
  ASSUME LeasesInv, NEW c \in Mac, NEW a \in Addr, Promises!Promise(c, a)
  PROVE  LeasesInv'
<1>1. /\ byMac[c] = a \/ (byMac[c] = None /\ a \in PoolSet /\ ~Promises!Leased(a))
      /\ a # None /\ byMac' = [byMac EXCEPT ![c] = a]
      /\ Told' = Told \cup {<<c, a>>} /\ PoolSet' = PoolSet /\ Refused' = Refused
  BY DEF Promises!Promise
<1>2. byMac \in [Mac -> Addr \cup {None}]
  BY DEF LeasesInv
<1>3. byMac' \in [Mac -> Addr \cup {None}]
      /\ \A d \in Mac : byMac'[d] = IF d = c THEN a ELSE byMac[d]
  BY <1>1, <1>2
<1>4. \A d \in Mac : byMac[d] # None => byMac'[d] = byMac[d]
  BY <1>1, <1>3
<1>5. \A d \in Mac : d # c => byMac[d] # a
  BY <1>1 DEF LeasesInv, Promises!Leased
<1>6. \A d, e \in Mac : byMac'[d] = byMac'[e] /\ byMac'[d] # None => d = e
  BY <1>3, <1>5 DEF LeasesInv
<1>7. \A t \in Told' : t[1] \in Mac /\ t[2] # None /\ byMac'[t[1]] = t[2]
  BY <1>1, <1>3, <1>4 DEF LeasesInv
<1>8. \A d \in Refused' : d \in Mac /\ byMac'[d] = None /\ \A b \in PoolSet' : Promises!Leased(b)'
  <2>1. SUFFICES ASSUME NEW d \in Refused
                 PROVE  d \in Mac /\ byMac'[d] = None /\ \A b \in PoolSet : Promises!Leased(b)'
    BY <1>1
  <2>2. d \in Mac /\ byMac[d] = None /\ \A b \in PoolSet : Promises!Leased(b)
    BY DEF LeasesInv
  <2>3. byMac[c] = a
    BY <1>1, <2>2
  <2>4. byMac' = byMac
    BY <1>1, <1>2, <2>3
  <2> QED  BY <2>2, <2>4 DEF Promises!Leased
<1> QED  BY <1>3, <1>6, <1>7, <1>8 DEF LeasesInv

LEMMA LeasesStep == LeasesInv /\ [Promises!Next]_(Promises!vars) => LeasesInv'
<1> SUFFICES ASSUME LeasesInv, [Promises!Next]_(Promises!vars) PROVE LeasesInv'
  OBVIOUS
<1>1. ASSUME NEW c \in Mac, Promises!Refuse(c) PROVE LeasesInv'
  BY <1>1 DEF Promises!Refuse, LeasesInv, Promises!Leased
<1>2. ASSUME NEW c \in Mac, NEW a \in Addr, Promises!Promise(c, a) PROVE LeasesInv'
  BY <1>2, PromiseInv
<1>3. CASE Promises!Forget
  BY <1>3 DEF Promises!Forget, LeasesInv
<1>4. CASE UNCHANGED Promises!vars
  BY <1>4 DEF Promises!vars, LeasesInv, Promises!Leased
<1> QED  BY <1>1, <1>2, <1>3, <1>4 DEF Promises!Next

LEMMA LeasesPromise == Promises!Spec => []Promises!PromisesKept
<1>1. Promises!Init => LeasesInv
  BY DEF Promises!Init, Promises!Nothing, LeasesInv
<1>2. LeasesInv => Promises!PromisesKept
  BY DEF LeasesInv, Promises!PromisesKept
<1> QED  BY <1>1, <1>2, LeasesStep, PTL DEF Promises!Spec

(* Since the server's last restart, two replies name one client exactly    *)
(* when they name one address, and whoever was refused could not have been *)
(* served (dhcp.rs: lease_for, assign, server).                            *)
THEOREM ServerKeepsPromises == SrvSpec => []Promises!PromisesKept
BY ServerImplementsLeases, LeasesPromise, PTL DEF LeasesKept

-----------------------------------------------------------------------------
(* The client (DhcpClient).                                                *)


\* In the server's first run, a client that took an OFFER holds the lease it was
\* offered, and the ACK it took named the same address.
HeldInv ==
    epoch = 0 => \A m \in Clients :
        /\ phase[m] \in {"requesting", "configured"} => offer[m] # None /\ byMac[m] = offer[m]
        /\ phase[m] = "configured" => conf[m] = offer[m] /\ acked[m] = offer[m]

CliTypeOK ==
    /\ net \subseteq [type : {"DISCOVER", "REQUEST"}, mac : Mac, ip : Addr \cup {None}]
    /\ phase \in [Clients -> {"start", "selecting", "requesting", "configured", "failed"}]
    /\ offer \in [Clients -> Addr \cup {None}]
    /\ conf \in [Clients -> Addr \cup {None}]
    /\ acked \in [Clients -> Addr \cup {None}]

CliInv == SrvInv /\ CliTypeOK /\ HeldInv

\* Whatever the clients do, the server takes a step of its own specification.
LEMMA ServerSteps ==
  ASSUME CliTypeOK, [Next]_vars
  PROVE  /\ [SrvNext]_srvVars
         /\ UNCHANGED cliVars \/ UNCHANGED srvVars
<1>1. CASE SrvStep /\ UNCHANGED cliVars
  BY <1>1 DEF SrvNext
<1>2. ASSUME NEW p \in net, Receive(p)
      PROVE  SrvNext /\ UNCHANGED cliVars
  <2>1. p.mac \in Mac /\ p.ip \in Addr \cup {None}
    BY DEF CliTypeOK
  <2>2. Handle(p.mac, p.ip, None) /\ UNCHANGED cliVars
    BY <1>2 DEF Receive, Handle
  <2> QED  BY <2>1, <2>2 DEF SrvNext
<1>3. ASSUME NEW m \in Mac \ Clients, NEW req \in Addr \cup {None}, NEW host \in Host \cup {None},
             Handle(m, req, host) /\ UNCHANGED cliVars
      PROVE  SrvNext /\ UNCHANGED cliVars
  BY <1>3 DEF SrvNext
<1>4. ASSUME NEW m \in Clients, SendDiscover(m) \/ TakeOffer(m) \/ TakeAck(m) \/ GiveUp(m)
      PROVE  UNCHANGED srvVars
  BY <1>4 DEF SendDiscover, TakeOffer, TakeAck, GiveUp
<1>5. CASE UNCHANGED vars
  BY <1>5 DEF vars
<1> QED  BY <1>1, <1>2, <1>3, <1>4, <1>5 DEF Next

\* A lease ends only with the run of the server.
LEMMA LeasesStay ==
  ASSUME SrvInv, [SrvNext]_srvVars
  PROVE  \/ epoch' = epoch /\ \A n \in Mac : byMac[n] # None => byMac'[n] = byMac[n]
         \/ epoch' = epoch + 1
<1>1. SrvTypeOK /\ PoolConsistent
  BY DEF SrvInv
<1>2. CASE PersistLine
  BY <1>2 DEF PersistLine, pool
<1>3. CASE Restart
  BY <1>3 DEF Restart
<1>4. ASSUME NEW m \in Mac, NEW req \in Addr \cup {None}, NEW host \in Host \cup {None},
             Handle(m, req, host)
      PROVE  epoch' = epoch /\ \A n \in Mac : byMac[n] # None => byMac'[n] = byMac[n]
  <2>1. CASE Discover(m, req, host)
    BY <2>1, <1>1, AssignOK DEF Discover
  <2>2. CASE RequestAck(m, req, host)
    BY <2>2, <1>1, AssignOK DEF RequestAck
  <2>3. CASE RequestNak(m, req)
    BY <2>3 DEF RequestNak, pool
  <2> QED  BY <1>4, <2>1, <2>2, <2>3 DEF Handle
<1>5. CASE UNCHANGED srvVars
  BY <1>5 DEF srvVars, pool
<1> QED  BY <1>2, <1>3, <1>4, <1>5 DEF SrvNext, SrvStep

\* A step of the server leaves the clients' leases alone.
LEMMA ServerStepHeld ==
  ASSUME CliInv, [SrvNext]_srvVars, UNCHANGED cliVars
  PROVE  CliTypeOK' /\ HeldInv'
<1>1. net' = net /\ phase' = phase /\ offer' = offer /\ conf' = conf /\ acked' = acked
  BY DEF cliVars
<1>2. CliTypeOK'
  BY <1>1 DEF CliInv, CliTypeOK
<1>3. epoch \in Nat
  BY DEF CliInv, SrvInv, SrvTypeOK
<1>4. \/ epoch' = epoch /\ \A n \in Mac : byMac[n] # None => byMac'[n] = byMac[n]
      \/ epoch' = epoch + 1
  BY LeasesStay DEF CliInv
<1>5. HeldInv'
  <2>1. CASE epoch' = epoch + 1
    BY <1>3, <2>1 DEF HeldInv
  <2>2. CASE epoch' = epoch /\ \A n \in Mac : byMac[n] # None => byMac'[n] = byMac[n]
    BY <1>1, <2>2, ClientAssumption DEF CliInv, HeldInv
  <2> QED  BY <1>4, <2>1, <2>2
<1> QED  BY <1>2, <1>5

\* In the server's first run every reply is one of this run.
LEMMA RepliesOfThisRun ==
  ASSUME SrvInv, epoch = 0, NEW r \in replies, r.type # "NAK"
  PROVE  r.ip # None /\ byMac[r.mac] = r.ip
<1>1. r.epoch \in Nat /\ r.epoch <= epoch
  BY DEF SrvInv, SrvTypeOK, ReplyRec, EpochsPast
<1>2. r.epoch = epoch
  BY <1>1
<1> QED  BY <1>2 DEF SrvInv, RepliesHeld

\* A step of a client keeps the clients' part of the invariant.
LEMMA ClientStepHeld ==
  ASSUME CliInv, NEW m \in Clients, SendDiscover(m) \/ TakeOffer(m) \/ TakeAck(m) \/ GiveUp(m)
  PROVE  CliTypeOK' /\ HeldInv'
<1>1. SrvInv /\ CliTypeOK /\ HeldInv
  BY DEF CliInv
<1>2. m \in Mac
  BY ClientAssumption
<1>3. byMac' = byMac /\ epoch' = epoch
  BY DEF SendDiscover, TakeOffer, TakeAck, GiveUp, srvVars, pool
<1>4. \A r \in replies : r.ip \in Addr \cup {None}
  BY <1>1 DEF SrvInv, SrvTypeOK, ReplyRec
<1>5. CASE SendDiscover(m)
  <2>1. /\ phase' = [phase EXCEPT ![m] = "selecting"]
        /\ net' = net \cup {[type |-> "DISCOVER", mac |-> m, ip |-> None]}
        /\ offer' = offer /\ conf' = conf /\ acked' = acked
    BY <1>5 DEF SendDiscover, Broadcast
  <2>2. CliTypeOK'
    BY <1>1, <1>2, <2>1 DEF CliTypeOK
  <2>3. HeldInv'
    BY <1>1, <1>3, <2>1 DEF CliTypeOK, HeldInv
  <2> QED  BY <2>2, <2>3
<1>6. CASE TakeOffer(m)
  <2>1. PICK r \in replies :
           /\ r.type = "OFFER" /\ r.mac = m
           /\ offer' = [offer EXCEPT ![m] = r.ip]
           /\ net' = net \cup {[type |-> "REQUEST", mac |-> m, ip |-> r.ip]}
    BY <1>6 DEF TakeOffer, Broadcast
  <2>2. phase' = [phase EXCEPT ![m] = "requesting"] /\ conf' = conf /\ acked' = acked
    BY <1>6 DEF TakeOffer
  <2>3. CliTypeOK'
    BY <1>1, <1>2, <1>4, <2>1, <2>2 DEF CliTypeOK
  <2>4. epoch = 0 => r.ip # None /\ byMac[m] = r.ip
    BY <1>1, <2>1, RepliesOfThisRun
  <2>5. HeldInv'
    BY <1>1, <1>3, <2>1, <2>2, <2>4 DEF CliTypeOK, HeldInv
  <2> QED  BY <2>3, <2>5
<1>7. CASE TakeAck(m)
  <2>1. PICK r \in replies :
           /\ r.type = "ACK" /\ r.mac = m
           /\ acked' = [acked EXCEPT ![m] = r.ip]
    BY <1>7 DEF TakeAck
  <2>2. /\ \/ /\ phase' = [phase EXCEPT ![m] = "configured"]
              /\ conf' = [conf EXCEPT ![m] = offer[m]]
           \/ phase' = [phase EXCEPT ![m] = "failed"] /\ conf' = conf
        /\ phase[m] = "requesting" /\ net' = net /\ offer' = offer
    BY <1>7 DEF TakeAck
  <2>3. acked' \in [Clients -> Addr \cup {None}]
    BY <1>1, <1>4, <2>1 DEF CliTypeOK
  <2>4. conf' \in [Clients -> Addr \cup {None}]
    BY <1>1, <2>2 DEF CliTypeOK
  <2>5. CliTypeOK'
    BY <1>1, <2>2, <2>3, <2>4 DEF CliTypeOK
  <2>6. epoch = 0 => byMac[m] = r.ip
    BY <1>1, <2>1, RepliesOfThisRun
  <2>7. HeldInv'
    <3>1. CASE phase' = [phase EXCEPT ![m] = "failed"] /\ conf' = conf
      BY <1>1, <1>3, <2>1, <2>2, <3>1 DEF CliTypeOK, HeldInv
    <3>2. CASE phase' = [phase EXCEPT ![m] = "configured"] /\ conf' = [conf EXCEPT ![m] = offer[m]]
      BY <1>1, <1>3, <2>1, <2>2, <2>6, <3>2 DEF CliTypeOK, HeldInv
    <3> QED  BY <2>2, <3>1, <3>2
  <2> QED  BY <2>5, <2>7
<1>8. CASE GiveUp(m)
  <2>1. /\ phase' = [phase EXCEPT ![m] = "failed"] /\ net' = net
        /\ offer' = offer /\ conf' = conf /\ acked' = acked
    BY <1>8 DEF GiveUp
  <2>2. CliTypeOK'
    BY <1>1, <2>1 DEF CliTypeOK
  <2>3. HeldInv'
    BY <1>1, <1>3, <2>1 DEF CliTypeOK, HeldInv
  <2> QED  BY <2>2, <2>3
<1> QED  BY <1>5, <1>6, <1>7, <1>8

LEMMA ClientInvAlways == Spec => []CliInv
<1>1. Init => CliInv
  <2> SUFFICES ASSUME Init PROVE CliInv
    OBVIOUS
  <2>1. SrvInv
    BY InitInv DEF Init
  <2>2. CliTypeOK
    BY DEF Init, CliTypeOK
  <2>3. HeldInv
    BY DEF Init, HeldInv
  <2> QED  BY <2>1, <2>2, <2>3 DEF CliInv
<1>2. CliInv /\ [Next]_vars => CliInv'
  <2> SUFFICES ASSUME CliInv, [Next]_vars PROVE CliInv'
    OBVIOUS
  <2>1. [SrvNext]_srvVars /\ (UNCHANGED cliVars \/ UNCHANGED srvVars)
    BY ServerSteps DEF CliInv
  <2>2. SrvInv'
    BY <2>1, StepInv DEF CliInv
  <2>3. CASE UNCHANGED cliVars
    BY <2>1, <2>2, <2>3, ServerStepHeld DEF CliInv
  <2>4. CASE \E m \in Clients : SendDiscover(m) \/ TakeOffer(m) \/ TakeAck(m) \/ GiveUp(m)
    BY <2>2, <2>4, ClientStepHeld DEF CliInv
  <2>5. UNCHANGED cliVars \/ \E m \in Clients : SendDiscover(m) \/ TakeOffer(m) \/ TakeAck(m) \/ GiveUp(m)
    BY DEF Next, Receive, vars
  <2> QED  BY <2>3, <2>4, <2>5
<1> QED  BY <1>1, <1>2, PTL DEF Spec

(* Server, network and clients hold values of their types.                 *)
THEOREM ClientTypes == Spec => []TypeOK
<1>1. CliInv => TypeOK
  BY DEF CliInv, SrvInv, CliTypeOK, TypeOK
<1> QED  BY <1>1, ClientInvAlways, PTL

(* Until the server restarts, `dhcp client` brings up the address of the   *)
(* ACK, although it configures the one of the OFFER.                       *)
THEOREM ConfiguredSafe == Spec => []ConfiguredIsAcked
<1>1. CliInv => ConfiguredIsAcked
  BY DEF CliInv, HeldInv, ConfiguredIsAcked, Configured
<1> QED  BY <1>1, ClientInvAlways, PTL

(* Until the server restarts, no two runs of `dhcp client` bring up one    *)
(* address, whatever the network and the other machines on it do.          *)
THEOREM AddressesDistinct == Spec => []NoSharedAddress
<1>1. CliInv => NoSharedAddress
  <2> SUFFICES ASSUME CliInv, epoch = 0, NEW m \in Clients, NEW n \in Clients,
                      Configured(m), Configured(n), conf[m] = conf[n]
               PROVE  m = n
    BY DEF NoSharedAddress
  <2>1. byMac[m] # None /\ byMac[m] = byMac[n]
    BY DEF CliInv, HeldInv, Configured
  <2> QED  BY <2>1, ClientAssumption DEF CliInv, SrvInv, PoolConsistent
<1> QED  BY <1>1, ClientInvAlways, PTL

(* Clients, network and other machines use the server only as it can be    *)
(* used: with them it is still the server of the theorems above.  So what  *)
(* those say holds of the composition too: its pool is consistent, and it  *)
(* keeps the promises of Leases (run_server).                              *)
THEOREM ClientsUseServer == Spec => SrvSpec /\ []PoolConsistent /\ LeasesKept
<1>1. Init => SrvInit
  BY DEF Init
<1>2. CliInv /\ [Next]_vars => [SrvNext]_srvVars
  BY ServerSteps DEF CliInv
<1>3. Spec => SrvSpec
  BY <1>1, <1>2, ClientInvAlways, PTL DEF Spec, SrvSpec
<1> QED  BY <1>3, PoolSafe, ServerImplementsLeases, PTL

-----------------------------------------------------------------------------
(* The resolver (Dns).                                                     *)

\* Every lease was told to its client, and every line of the file was a lease.
LeasesTold ==
    /\ \A m \in Mac : byMac[m] # None => \E r \in replies : r.type # "NAK" /\ r.ip = byMac[m]
    /\ \A l \in file : \E r \in replies : r.type # "NAK" /\ r.ip = l.ip

\* What is cached for a question is what was last taken for its answer, and is about
\* that question if it was the answer.
Packet == [id : {0}, q : Question, data : Data]
CacheGiven ==
    /\ cache \in [Question -> [packet : Packet, when : Nat] \cup {Nothing}]
    /\ given \in [Question -> [q : Question, data : Data, when : Nat, fits : BOOLEAN] \cup {Nothing}]
    /\ now \in Nat /\ asking \in Query \cup {Nothing}
    /\ \A q \in Question : cache[q] # Nothing =>
          /\ given[q] # Nothing /\ given[q].when = cache[q].when
          /\ given[q].q = cache[q].packet.q /\ given[q].data = cache[q].packet.data
          /\ given[q].fits => given[q].q = q

DnsInv == SrvInv /\ LeasesTold /\ CacheGiven /\ AnswersCurrent

\* A stored answer is not the mark of an absent one.
LEMMA NotNothing ==
    ASSUME NEW packet, NEW when, NEW q, NEW data, NEW fits
    PROVE  /\ [packet |-> packet, when |-> when] # Nothing
           /\ [q |-> q, data |-> data, when |-> when, fits |-> fits] # Nothing
BY DEF Nothing

\* Replies are never taken back, so whatever the server leases or writes to the
\* file was told.
LEMMA ServerTells ==
  ASSUME SrvInv, LeasesTold, [SrvNext]_srvVars
  PROVE  LeasesTold'
<1> USE DEF LeasesTold
<1>1. CASE UNCHANGED srvVars
  BY <1>1 DEF srvVars, pool
<1>2. CASE Restart
  <2>1. byMac' = [m \in Mac |-> None] /\ file' = file /\ replies' = replies
    BY <1>2 DEF Restart
  <2> QED  BY <2>1
<1>3. CASE PersistLine
  <2>1. byMac' = byMac /\ replies' = replies
    BY <1>3 DEF PersistLine, pool
  <2>2. PICK m \in writing : file' = file \/ file' = file \cup {[mac |-> m, ip |-> byMac[m], name |-> names[byMac[m]]]}
    BY <1>3 DEF PersistLine
  <2>3. m \in Mac /\ byMac[m] # None
    BY DEF SrvInv, SrvTypeOK, WritingLeased
  <2> QED  BY <2>1, <2>2, <2>3
<1>4. ASSUME NEW m \in Mac, NEW ip, NEW type \in {"OFFER", "ACK"}, NEW host,
             Assign(m, ip, host), Reply(type, m, ip), file' \subseteq file
      PROVE  LeasesTold'
  <2>1. byMac' = [byMac EXCEPT ![m] = ip] /\ byMac \in [Mac -> Addr \cup {None}]
    BY <1>4 DEF Assign, SrvInv, SrvTypeOK
  <2> DEFINE r == [type |-> type, mac |-> m, ip |-> ip, epoch |-> epoch]
  <2>2. replies' = replies \cup {r} /\ r.type # "NAK" /\ r.ip = ip
    BY <1>4 DEF Reply
  <2> HIDE DEF r
  <2> QED  BY <1>4, <2>1, <2>2
<1>5. ASSUME NEW m \in Mac, NEW req \in Addr \cup {None}, NEW host \in Host \cup {None}, Handle(m, req, host)
      PROVE  LeasesTold'
  <2>1. CASE Discover(m, req, host)
    BY <1>4, <2>1 DEF Discover
  <2>2. CASE RequestAck(m, req, host)
    BY <1>4, <2>2 DEF RequestAck, Persist
  <2>3. CASE RequestNak(m, req)
    BY <2>3 DEF RequestNak, Reply, pool
  <2> QED  BY <1>5, <2>1, <2>2, <2>3 DEF Handle
<1> QED  BY <1>1, <1>2, <1>3, <1>5 DEF SrvNext, SrvStep

\* The resolver's steps leave the server alone.
LEMMA DnsUsesServer == [DnsNext]_lanVars => [SrvNext]_srvVars
BY DEF DnsNext, DnsStep, AnswerLocally, AnswerCached, Forward, Forwarded, ForwardFails,
       DnsRestart, Tick, lanVars

LEMMA DnsServerSteps ==
  ASSUME DnsInv, [DnsNext]_lanVars
  PROVE  SrvInv' /\ LeasesTold'
BY DnsUsesServer, StepInv, ServerTells DEF DnsInv

LEMMA DnsCache ==
  ASSUME CacheGiven, AnswersCurrent, [DnsNext]_lanVars
  PROVE  CacheGiven' /\ AnswersCurrent'
<1>1. CASE \E query \in Query : AnswerLocally(query)
  <2>1. PICK query \in Query : AnswerLocally(query)
    BY <1>1
  <2>2. CacheGiven'
    BY <2>1 DEF AnswerLocally, CacheGiven
  <2>3. AnswersCurrent'
    BY <2>1 DEF AnswerLocally, Answer, AnswersCurrent
  <2> QED  BY <2>2, <2>3
<1>2. CASE \E query \in Query : AnswerCached(query)
  <2>1. PICK query \in Query : AnswerCached(query)
    BY <1>2
  <2>2. CacheGiven'
    BY <2>1 DEF AnswerCached, CacheGiven
  <2>3. query.q \in Question
    BY DEF Query
  <2>4. /\ given[query.q] # Nothing /\ now - given[query.q].when < TTL
        /\ given[query.q].q = cache[query.q].packet.q /\ given[query.q].data = cache[query.q].packet.data
        /\ given[query.q].fits => given[query.q].q = query.q
        /\ cache[query.q].packet \in Packet
    BY <2>1, <2>3 DEF AnswerCached, Cached, CacheGiven
  <2> DEFINE p == [cache[query.q].packet EXCEPT !.id = query.id]
  <2>5. p.id = query.id /\ p.q = cache[query.q].packet.q /\ p.data = cache[query.q].packet.data
    BY <2>4 DEF Packet
  <2>6. given' = given /\ now' = now
        /\ sent' = [from |-> "cache", to |-> query.id, q |-> query.q, id |-> p.id, about |-> p.q, data |-> p.data]
    BY <2>1 DEF AnswerCached, Answer
  <2> HIDE DEF p
  <2>7. AnswersCurrent'
    BY <2>4, <2>5, <2>6 DEF AnswersCurrent
  <2> QED  BY <2>2, <2>7
<1>3. CASE \E query \in Query : Forward(query)
  BY <1>3 DEF Forward, CacheGiven, AnswersCurrent
<1>4. CASE \E packet \in Datagram : Forwarded(packet)
  <2>1. PICK packet \in Datagram : Forwarded(packet)
    BY <1>4
  <2> DEFINE z == [packet EXCEPT !.id = 0]
             f == packet.id = asking.id /\ packet.q = asking.q
             c == [packet |-> z, when |-> now]
             g == [q |-> packet.q, data |-> packet.data, when |-> now, fits |-> f]
  <2>2. asking \in Query /\ asking.q \in Question /\ now \in Nat
    BY <2>1 DEF Forwarded, CacheGiven, Query
  <2>3. z \in Packet /\ z.q = packet.q /\ z.data = packet.data
    BY DEF Datagram, Packet
  <2>4. packet.q \in Question /\ packet.data \in Data /\ f \in BOOLEAN
    BY DEF Datagram
  <2>5. /\ cache' = [cache EXCEPT ![asking.q] = c] /\ given' = [given EXCEPT ![asking.q] = g]
        /\ now' = now /\ asking' = Nothing
        /\ sent' = [from |-> "upstream", to |-> asking.id, q |-> asking.q,
                    id |-> packet.id, about |-> packet.q, data |-> packet.data]
    BY <2>1 DEF Forwarded, Answer
  <2>6. f => packet.id = asking.id /\ packet.q = asking.q
    OBVIOUS
  <2> HIDE DEF z, f
  <2>7. c # Nothing /\ g # Nothing
    BY NotNothing
  <2>8. /\ c.packet = z /\ c.when = now
        /\ g.q = packet.q /\ g.data = packet.data /\ g.when = now /\ g.fits = f
        /\ c \in [packet : Packet, when : Nat]
        /\ g \in [q : Question, data : Data, when : Nat, fits : BOOLEAN]
    BY <2>2, <2>3, <2>4
  <2> HIDE DEF c, g
  <2>9. CacheGiven'
    <3>1. /\ cache \in [Question -> [packet : Packet, when : Nat] \cup {Nothing}]
          /\ given \in [Question -> [q : Question, data : Data, when : Nat, fits : BOOLEAN] \cup {Nothing}]
      BY DEF CacheGiven
    <3>2. /\ cache' \in [Question -> [packet : Packet, when : Nat] \cup {Nothing}]
          /\ given' \in [Question -> [q : Question, data : Data, when : Nat, fits : BOOLEAN] \cup {Nothing}]
      BY <3>1, <2>2, <2>5, <2>8
    <3>3. ASSUME NEW q \in Question, cache'[q] # Nothing
          PROVE  /\ given'[q] # Nothing /\ given'[q].when = cache'[q].when
                 /\ given'[q].q = cache'[q].packet.q /\ given'[q].data = cache'[q].packet.data
                 /\ given'[q].fits => given'[q].q = q
      <4>1. CASE q = asking.q
        <5>1. cache'[q] = c /\ given'[q] = g
          BY <3>1, <2>2, <2>5, <4>1
        <5> QED  BY <5>1, <4>1, <2>3, <2>6, <2>7, <2>8
      <4>2. CASE q # asking.q
        <5>1. cache'[q] = cache[q] /\ given'[q] = given[q]
          BY <3>1, <2>2, <2>5, <4>2
        <5> QED  BY <5>1, <3>3 DEF CacheGiven
      <4> QED  BY <4>1, <4>2
    <3> QED  BY <3>2, <3>3, <2>2, <2>5 DEF CacheGiven
  <2>10. given'[asking.q] = g
    BY <2>2, <2>5 DEF CacheGiven
  <2>11. now - now < TTL
    BY <2>2, DnsAssumption
  <2>12. AnswersCurrent'
    BY <2>5, <2>6, <2>7, <2>8, <2>10, <2>11 DEF AnswersCurrent
  <2> QED  BY <2>9, <2>12
<1>5. CASE ForwardFails \/ DnsRestart
  BY <1>5 DEF ForwardFails, DnsRestart, CacheGiven, AnswersCurrent
<1>6. CASE Tick
  BY <1>6 DEF Tick, CacheGiven, AnswersCurrent
<1>7. CASE SrvNext /\ sent' = Nothing /\ UNCHANGED <<cache, asking, now, given>>
  BY <1>7 DEF CacheGiven, AnswersCurrent
<1>8. CASE UNCHANGED lanVars
  BY <1>8 DEF lanVars, dnsVars, CacheGiven, AnswersCurrent
<1> QED  BY <1>1, <1>2, <1>3, <1>4, <1>5, <1>6, <1>7, <1>8 DEF DnsNext, DnsStep

LEMMA DnsInvAlways == DnsSpec => []DnsInv
<1>1. DnsInit => DnsInv
  BY InitInv DEF DnsInit, DnsInv, SrvInit, LeasesTold, CacheGiven, AnswersCurrent
<1>2. DnsInv /\ [DnsNext]_lanVars => DnsInv'
  BY DnsServerSteps, DnsCache DEF DnsInv
<1> QED  BY <1>1, <1>2, PTL DEF DnsSpec

(* The resolver only reads what the server writes: beside it, the server   *)
(* is the one of the theorems above, and the file that lookup_lease reads  *)
(* at any moment, also within persist, holds leases but for the further    *)
(* lines of host names (dns.rs: lookup_lease; dhcp.rs: persist).           *)
THEOREM DnsReadsServer == DnsSpec => SrvSpec /\ []LeaseFileSound
<1>1. DnsInit => SrvInit
  BY DEF DnsInit
<1>2. DnsSpec => SrvSpec
  BY <1>1, DnsUsesServer, PTL DEF DnsSpec, SrvSpec
<1> QED  BY <1>2, FileSafe, PTL

(* For every set of ids, names, questions and datagrams, whoever sends     *)
(* them: an answer that is not from the lease file is the datagram last    *)
(* taken for the answer to this very question, less than TTL ago; local    *)
(* and cached answers carry the id of the query; and where the datagram    *)
(* was the answer, so is what the client gets (dns.rs: run, forward).      *)
THEOREM DnsAnswersCurrent == DnsSpec => []AnswersCurrent
BY DnsInvAlways, PTL DEF DnsInv

\* What a lookup returns is on a line of an entry of the file, under the name.
LEMMA LookupInFile ==
  ASSUME SrvTypeOK, NEW name, LookupLease(name) # None
  PROVE  \E l \in file : \E i \in LineNos(l) :
            LineAt(l, i).word = name /\ LookupLease(name) = LineAt(l, i).ip
<1>1. Matching(name) # {}
  BY DEF LookupLease
<1> DEFINE macs == {l.mac : l \in Matching(name)}
<1>2. macs \in SUBSET Nat /\ macs # {}
  <2>1. \A l \in Matching(name) : l.mac \in Mac
    BY DEF Matching, SrvTypeOK
  <2>2. Mac \subseteq Nat
    BY PoolAssumption
  <2> QED  BY <1>1, <2>1, <2>2
<1>3. PICK o \in macs : \A p \in macs : o <= p
  BY <1>2, SmallestFree
<1>4. \E l \in Matching(name) : \A k \in Matching(name) : l.mac <= k.mac
  BY <1>3
<1> DEFINE l == FirstEntry(name)
<1>5. l \in Matching(name)
  BY <1>4 DEF FirstEntry
<1> HIDE DEF l
<1>6. l \in file /\ \E i \in LineNos(l) : Has(l, i, name)
  BY <1>5 DEF Matching
<1> DEFINE nos == {i \in LineNos(l) : Has(l, i, name)}
<1>7. nos \in SUBSET Nat /\ nos # {}
  BY <1>6 DEF LineNos
<1>8. PICK n \in nos : \A p \in nos : n <= p
  BY <1>7, SmallestFree
<1>9. \E i \in LineNos(l) : Has(l, i, name) /\ \A j \in LineNos(l) : Has(l, j, name) => i <= j
  BY <1>8
<1> DEFINE i == FirstLine(l, name)
<1>10. i \in LineNos(l) /\ Has(l, i, name)
  BY <1>9 DEF FirstLine
<1>11. LookupLease(name) = LineAt(l, i).ip
  BY <1>1 DEF LookupLease, l
<1> QED  BY <1>6, <1>10, <1>11 DEF Has

\* A further line of a host name is a record of its address and its word.
LEMMA MoreLines ==
  ASSUME SrvTypeOK, NEW l \in file, NEW i \in LineNos(l), i # 0
  PROVE  LineAt(l, i) = [ip |-> LineAt(l, i).ip, word |-> LineAt(l, i).word]
<1>1. l.name \in Host \cup {None}
  BY DEF SrvTypeOK
<1>2. More(l.name) \in Seq(Line)
  <2>1. CASE l.name = None
    BY <2>1 DEF More
  <2>2. CASE l.name \in Host /\ l.name # None
    BY <2>2, ReadsAssumption DEF More
  <2> QED  BY <1>1, <2>1, <2>2
<1>3. i \in 1 .. Len(More(l.name))
  BY <1>2 DEF LineNos
<1>4. More(l.name)[i] \in Line
  BY <1>2, <1>3
<1>5. LineAt(l, i) \in Line
  BY <1>4 DEF LineAt
<1> QED  BY <1>5 DEF Line

(* A local answer names an address the server has told some client, and    *)
(* one that is leased now while the file is this run's, for every number   *)
(* of clients, every interleaving of the resolver with persist and every   *)
(* way in which host names may read; else it stands, under the name that   *)
(* was asked for, on a further line of a host name that a client sent      *)
(* (dns.rs: lookup_lease, local_answer; dhcp.rs: persist).                 *)
THEOREM DnsLocalAnswers == DnsSpec => LocalAnswersLeased
<1> DEFINE Leased == sent'.from = "leases" =>
              \/ /\ \E r \in replies : r.type # "NAK" /\ r.ip = sent'.data
                 /\ current => \E m \in Mac : byMac[m] = sent'.data
              \/ \E l \in file : \E i \in LineNos(l) \ {0} :
                    LineAt(l, i) = [ip |-> sent'.data, word |-> sent'.q.name]
<1>1. ASSUME DnsInv, [DnsNext]_lanVars PROVE [Leased]_lanVars
  <2> SUFFICES ASSUME DnsNext, sent'.from = "leases" PROVE Leased
    BY <1>1
  <2>1. Nothing.from # "leases"
    BY DEF Nothing
  <2>2. PICK query \in Query : AnswerLocally(query)
    <3>1. ASSUME NEW query \in Query, AnswerCached(query) PROVE FALSE
      BY <3>1 DEF AnswerCached, Answer
    <3>2. ASSUME NEW packet \in Datagram, Forwarded(packet) PROVE FALSE
      BY <3>2 DEF Forwarded, Answer
    <3>3. sent' # Nothing
      BY <2>1
    <3>4. ~(ForwardFails \/ DnsRestart \/ Tick \/ \E query \in Query : Forward(query))
      BY <3>3 DEF ForwardFails, DnsRestart, Tick, Forward
    <3> QED  BY <3>1, <3>2, <3>3, <3>4 DEF DnsNext, DnsStep
  <2> DEFINE name == query.q.name
  <2>3. LookupLease(name) # None /\ sent'.data = LookupLease(name) /\ sent'.q = query.q
    BY <2>2 DEF AnswerLocally, Answer, LocalAnswer
  <2>4. PICK l \in file : \E i \in LineNos(l) :
               LineAt(l, i).word = name /\ sent'.data = LineAt(l, i).ip
    BY <1>1, <2>3, LookupInFile DEF DnsInv, SrvInv
  <2>5. PICK i \in LineNos(l) : LineAt(l, i).word = name /\ sent'.data = LineAt(l, i).ip
    BY <2>4
  <2>6. CASE i = 0
    <3>1. sent'.data = l.ip
      BY <2>5, <2>6 DEF LineAt
    <3>2. \E r \in replies : r.type # "NAK" /\ r.ip = l.ip
      BY <1>1 DEF DnsInv, LeasesTold
    <3>3. l.mac \in Mac /\ (current => byMac[l.mac] = l.ip)
      BY <1>1 DEF DnsInv, SrvInv, SrvTypeOK, FileComing
    <3> QED  BY <3>1, <3>2, <3>3
  <2>7. CASE i # 0
    <3>1. LineAt(l, i) = [ip |-> LineAt(l, i).ip, word |-> LineAt(l, i).word]
      BY <1>1, <2>7, MoreLines DEF DnsInv, SrvInv
    <3>2. sent'.q.name = name
      BY <2>3
    <3>3. LineAt(l, i) = [ip |-> sent'.data, word |-> sent'.q.name]
      BY <3>1, <3>2, <2>5
    <3> QED  BY <3>3, <2>7
  <2> QED  BY <2>6, <2>7
<1> QED  BY <1>1, DnsInvAlways, PTL DEF DnsSpec, LocalAnswersLeased
=============================================================================
