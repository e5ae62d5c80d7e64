------------------------------- MODULE FwRules -------------------------------
(***************************************************************************)
(* The rule set that `fw` builds (src/src/fw.rs) and what it means for the *)
(* packets: the port forwards of the configuration, the filter and nat     *)
(* chains, and the kernel that evaluates them.                             *)
(*                                                                         *)
(* The kernel is modelled as far as the batch addresses it: a rule without *)
(* NLM_F_APPEND goes to the head of its chain, a batch is committed whole  *)
(* or not at all, a nat chain sees the first packet of a connection, and   *)
(* the state of the connection is a register in the byte order of the      *)
(* host.  Connections do not influence one another: one is remembered.     *)
(***************************************************************************)
EXTENDS Integers, Sequences

CONSTANTS
    Router,    \* the router's own address
    LanHosts,  \* addresses on the LAN
    Far,       \* an address behind the WAN
    Ports,
    Configs,   \* the [masq, forward] a configuration may hold; forward is a list
    MaxRuns    \* bound on the runs of fw

Proto == {"tcp", "udp", "icmp"}
Bad   == [proto |-> "malformed"]

\* Any address may be the destination: a host of the LAN, one outside, the router.
Forward == [proto : {"tcp", "udp"}, dport : Ports, dest : LanHosts \cup {Router, Far}, destPort : Ports]

ASSUME FwRulesAssumption ==
    /\ Router \notin LanHosts /\ Far \notin LanHosts \cup {Router}
    /\ \A c \in Configs : c.masq \in BOOLEAN /\ c.forward \in Seq(Forward \cup {Bad})
    /\ MaxRuns \in Nat

Iface == {"lo", "lan", "wan"}

VARIABLES
    conf,       \* the configuration on disk
    taken,      \* what the running fw has read; Idle if fw is not running
    ipForward,  \* /proc/sys/net/ipv4/ip_forward
    loaded,     \* the table and its chains exist
    rules,      \* the rules of all chains, those of one chain in its order
    conn,       \* the connection opened last: its first packet, as it came and as it went on
    seen,       \* what became of the packet of this step; Unseen if it has none
    runs,
    forwards,   \* history: every forward committed since the boot
    newest      \* history: the forwards of the last commit

kernel  == <<ipForward, loaded, rules>>
history == <<forwards, newest>>
vars    == <<conf, taken, kernel, conn, seen, runs, history>>

Idle   == [masq |-> FALSE, idle |-> TRUE]
NoConn == [iif |-> "none"]
Unseen == [verdict |-> "none"]

Booted ==
    /\ ipForward' = FALSE /\ loaded' = FALSE /\ rules' = <<>>
    /\ taken' = Idle /\ conn' = NoConn /\ seen' = Unseen
    /\ forwards' = {} /\ newest' = {}

Init ==
    /\ conf \in Configs /\ runs = 0
    /\ ipForward = FALSE /\ loaded = FALSE /\ rules = <<>>
    /\ taken = Idle /\ conn = NoConn /\ seen = Unseen
    /\ forwards = {} /\ newest = {}

-----------------------------------------------------------------------------
(* The configuration and the rules.  A rule applies to the packets that    *)
(* pass all its comparisons and, if it has a mask, share a bit with it.    *)

\* parse_forwards: malformed entries are skipped.
ParseForwards(list) ==
    LET kept[n \in 0 .. Len(list)] ==
            IF n = 0 THEN <<>> ELSE IF list[n] = Bad THEN kept[n - 1] ELSE Append(kept[n - 1], list[n])
    IN kept[Len(list)]

Is(field, value)            == [field |-> field, value |-> value]
NewRule(chain, tests, then) == [chain |-> chain, tests |-> tests, ct |-> {}, then |-> then]
Accept                      == [do |-> "accept"]

\* The four bytes of a word with these bits set (all below 8), as <<byte, bit>> pairs.
ToBeBytes(bits) == {<<3, b>> : b \in bits}
HostBytes(bits) == {<<0, b>> : b \in bits}   \* mipsel

\* The numbers of the bits.
CT_ESTABLISHED == 1
CT_RELATED     == 2
CT_NEW         == 3

\* ct state & (established|related) != 0; the mask is given as bytes, big end first.
CtStateMatch == ToBeBytes({CT_ESTABLISHED, CT_RELATED})

RuleCtAccept(chain)       == [NewRule(chain, {}, Accept) EXCEPT !.ct = CtStateMatch]
RuleIifAccept(chain, if)  == NewRule(chain, {Is("iif", if)}, Accept)
RuleL4protoAccept(chain, p) == NewRule(chain, {Is("proto", p)}, Accept)

RuleDnat(f) ==
    NewRule("prerouting", {Is("proto", f.proto), Is("dport", f.dport)},
            [do |-> "dnat", dest |-> f.dest, port |-> f.destPort])

\* Mutant: every port of the destination is opened.
RuleForwardToHost(f) ==
    NewRule("forward", {Is("proto", f.proto), Is("daddr", f.dest)}, Accept)

\* Mutant: the port is the one the packet had before the rewriting.
RuleForwardToOldPort(f) ==
    NewRule("forward", {Is("proto", f.proto), Is("daddr", f.dest), Is("dport", f.dport)}, Accept)

\* The packet has been rewritten when it comes to the forward chain.
RuleForwardToDest(f) ==
    NewRule("forward", {Is("proto", f.proto), Is("daddr", f.dest), Is("dport", f.destPort)}, Accept)

BuildRuleset(masq, fs) ==
    << RuleCtAccept("input"), RuleIifAccept("input", "lo"), RuleIifAccept("input", "lan"),
       RuleL4protoAccept("input", "icmp"),
       RuleCtAccept("forward"), RuleIifAccept("forward", "lan") >>
      \o [i \in 1 .. Len(fs) |-> RuleForwardToDest(fs[i])]
      \o [i \in 1 .. Len(fs) |-> RuleDnat(fs[i])]
      \o (IF masq THEN <<NewRule("postrouting", {}, [do |-> "masq"])>> ELSE <<>>)

-----------------------------------------------------------------------------
(* fw.                                                                     *)

ElementsOf(s) == {s[i] : i \in 1 .. Len(s)}
Backwards(s)  == [i \in 1 .. Len(s) |-> s[Len(s) + 1 - i]]

\* run: the configuration is read and forwarding enabled (if the write works)
\* before any rule exists.
FwStart ==
    /\ taken = Idle /\ runs < MaxRuns
    /\ taken' = [masq |-> conf.masq, forward |-> ParseForwards(conf.forward)]
    /\ ipForward' \in {TRUE, ipForward}
    /\ runs' = runs + 1
    /\ seen' = Unseen
    /\ UNCHANGED <<conf, loaded, rules, conn, history>>

\* The kernel accepts the batch: chains that exist stay, rules are added.
FwCommit ==
    /\ taken # Idle
    /\ rules' = Backwards(BuildRuleset(taken.masq, taken.forward)) \o rules
    /\ loaded' = TRUE /\ taken' = Idle
    /\ newest' = ElementsOf(taken.forward) /\ forwards' = forwards \cup newest'
    /\ seen' = Unseen
    /\ UNCHANGED <<conf, ipForward, conn, runs>>

\* The batch could not be sent, or the kernel rejected it.
FwFails ==
    /\ taken # Idle /\ taken' = Idle /\ seen' = Unseen
    /\ UNCHANGED <<conf, kernel, conn, runs, history>>

Configure ==
    /\ conf' \in Configs /\ seen' = Unseen
    /\ UNCHANGED <<taken, kernel, conn, runs, history>>

Reboot == runs > 0 /\ Booted /\ UNCHANGED <<conf, runs>>

-----------------------------------------------------------------------------
(* Packets.                                                                *)

Applies(r, p) ==
    /\ \A t \in r.tests : p[t.field] = t.value
    /\ r.ct # {} => p.ct \cap r.ct # {}

Matching(c, p) == {i \in 1 .. Len(rules) : rules[i].chain = c /\ Applies(rules[i], p)}

\* The first rule of the nat chain that applies rewrites the destination.
Prerouted(p) ==
    IF Matching("prerouting", p) = {} THEN p
    ELSE LET i == CHOOSE i \in Matching("prerouting", p) : \A j \in Matching("prerouting", p) : i <= j
         IN [p EXCEPT !.daddr = rules[i].then.dest, !.dport = rules[i].then.port]

\* The policy of both filter chains is drop; without the table nothing is filtered.
Verdict(p) ==
    LET c == IF p.daddr = Router THEN "input" ELSE "forward" IN
    IF (c = "input" \/ ipForward) /\ (~loaded \/ Matching(c, p) # {}) THEN "accept" ELSE "drop"

Packet(iif, src, daddr, proto, dport, state) ==
    [iif |-> iif, src |-> src, daddr |-> daddr, proto |-> proto, dport |-> dport,
     ct |-> HostBytes({state})]

\* Who sends on an interface, and to whom: hosts of one LAN do not need the router.
Ends(iif) ==
    CASE iif = "lo"  -> {Router} \X {Router}
      [] iif = "lan" -> LanHosts \X {Router, Far}
      [] iif = "wan" -> {Far} \X (LanHosts \cup {Router})

\* The first packet of a connection comes in on an interface.
Opens ==
    /\ UNCHANGED <<conf, taken, kernel, runs, history>>
    /\ \E iif \in Iface, proto \in Proto, dport \in Ports : \E e \in Ends(iif) :
         LET p == Packet(iif, e[1], e[2], proto, dport, CT_NEW)
             q == Prerouted(p)
         IN /\ seen' = [verdict |-> Verdict(q), as |-> p, went |-> q, state |-> CT_NEW]
            /\ conn' = IF Verdict(q) = "accept" THEN [iif |-> iif, first |-> p, went |-> q] ELSE NoConn

\* The router opens a connection of its own; nothing filters what it sends.
RouterOpens(proto, dport) ==
    LET p == Packet("lo", Router, Far, proto, dport, CT_NEW) IN
    /\ conn' = [iif |-> "lo", first |-> p, went |-> p] /\ seen' = Unseen
    /\ UNCHANGED <<conf, taken, kernel, runs, history>>

\* An answer to that connection, with the translation undone.  What the router
\* answers itself passes no chain of the table.
Answered ==
    /\ conn # NoConn /\ conn.went.daddr # Router
    /\ LET p == Packet(IF conn.went.daddr = Far THEN "wan" ELSE "lan", conn.went.daddr, conn.first.src,
                       conn.first.proto, 0, CT_ESTABLISHED) IN
         seen' = [verdict |-> Verdict(p), as |-> p, went |-> p, state |-> CT_ESTABLISHED]
    /\ UNCHANGED <<conf, taken, kernel, conn, runs, history>>

Next ==
    \/ FwStart \/ FwCommit \/ FwFails \/ Configure \/ Reboot
    \/ Opens
    \/ \E proto \in Proto, dport \in Ports : RouterOpens(proto, dport)
    \/ Answered

Spec == Init /\ [][Next]_vars

-----------------------------------------------------------------------------
(* Properties.                                                             *)

FromWan == seen # Unseen /\ loaded /\ seen.as.iif = "wan" /\ seen.state = CT_NEW

(* "protect the router itself", and everything behind it: once the table   *)
(* is loaded, and however often the configuration is changed and fw run    *)
(* again (it may fail), a connection from the WAN reaches the router only  *)
(* with ICMP, and beyond it only what a forward committed since the boot   *)
(* names (build_ruleset).                                                  *)
Protected ==
    FromWan /\ seen.verdict = "accept" =>
        IF seen.went.daddr = Router THEN seen.went.proto = "icmp"
        ELSE \E f \in forwards :
                f.proto = seen.went.proto /\ f.dest = seen.went.daddr /\ f.destPort = seen.went.dport

(* A forward of the last commit works: what comes from the WAN for its     *)
(* port on the router is sent where a forward of the last commit for this  *)
(* port says, also when older commits, whose rules are still there, or     *)
(* other entries of the list send the same port elsewhere.  It is let      *)
(* through unless that is the router itself, whose input chain knows no    *)
(* forwards: such an entry is read and committed, and what it rewrites is  *)
(* dropped (parse_forward, rule_dnat, rule_forward_to_dest).               *)
ForwardsWork ==
    FromWan /\ ipForward /\ seen.as.daddr = Router =>
        LET here == {f \in newest : f.proto = seen.as.proto /\ f.dport = seen.as.dport} IN
        here # {} =>
            \E f \in here :
                /\ seen.went.daddr = f.dest /\ seen.went.dport = f.destPort
                /\ seen.verdict = "accept" <=> f.dest # Router

(* "established back-traffic": an answer to a connection that the LAN or   *)
(* the router itself has opened is let through (rule_ct_accept).           *)
BackTraffic ==
    seen # Unseen /\ seen.state = CT_ESTABLISHED /\ ipForward /\ conn.iif \in {"lo", "lan"}
        => seen.verdict = "accept"
=============================================================================
