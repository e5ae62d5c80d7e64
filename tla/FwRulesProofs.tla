--------------------------- MODULE FwRulesProofs ----------------------------
(***************************************************************************)
(* Proofs about FwRules, for every list of configurations, any number of   *)
(* hosts and ports and any number of runs of fw.                           *)
(*                                                                         *)
(* The invariant is about the rules in the kernel, which no property       *)
(* names: each is one that build_ruleset makes for a forward committed     *)
(* since the boot, and those of the last commit stand before all others.   *)
(***************************************************************************)
EXTENDS FwRules, NaturalsInduction, WellFoundedInduction, SequenceTheorems, TLAPS

-----------------------------------------------------------------------------
(* parse_forwards: what is kept of a list is a list of forwards.           *)

LEMMA Smallest ==
    ASSUME NEW S \in SUBSET Nat, S # {}
    PROVE  \E o \in S : \A p \in S : o <= p
<1> DEFINE less == OpToRel(<, Nat)
<1>1. IsWellFoundedOn(less, Nat)
  BY NatLessThanWellFounded
<1>2. less = {ss \in Nat \X Nat : ss[1] < ss[2]}
  BY DEF OpToRel
<1> HIDE DEF less
<1>3. PICK o \in S : \A p \in S : ~(<<p, o>> \in less)
  BY <1>1, WFMin
<1>4. ASSUME NEW p \in S PROVE o <= p
  <2>1. o \in Nat /\ p \in Nat /\ (p < o => <<p, o>> \in less)
    BY <1>2
  <2> QED
    BY <1>3, <2>1
<1> QED
  BY <1>4

\* What one more entry makes of the forwards so far.
Keep(list, n, sofar) == IF list[n] = Bad THEN sofar ELSE Append(sofar, list[n])

\* f tells what is kept of the first n entries of the list.
Keeps(f, list, n) ==
    /\ f = [i \in 0 .. n |-> IF i = 0 THEN <<>> ELSE Keep(list, i, f[i - 1])]
    /\ \A i \in 0 .. n : f[i] \in Seq(Forward)

LEMMA KeepTyped ==
    ASSUME NEW list \in Seq(Forward \cup {Bad}), NEW n \in 1 .. Len(list), NEW sofar \in Seq(Forward)
    PROVE  Keep(list, n, sofar) \in Seq(Forward)
<1>1. list[n] \in Forward \cup {Bad}
  OBVIOUS
<1> QED
  BY <1>1 DEF Keep

LEMMA KeptExists ==
    ASSUME NEW list \in Seq(Forward \cup {Bad})
    PROVE  \E f : Keeps(f, list, Len(list))
<1> DEFINE S == {n \in 0 .. Len(list) : ~ \E f : Keeps(f, list, n)}
<1>0. Len(list) \in Nat /\ S \in SUBSET Nat
  OBVIOUS
<1> SUFFICES S = {}
  BY <1>0
<1> SUFFICES ASSUME S # {} PROVE FALSE
  OBVIOUS
<1>1. PICK n \in S : \A m \in S : n <= m
  BY <1>0, Smallest
<1>2. CASE n = 0
  <2>1. Keeps([i \in 0 .. 0 |-> <<>>], list, 0)
    BY DEF Keeps
  <2> QED
    BY <1>1, <1>2, <2>1
<1>3. CASE n # 0
  <2>1. n - 1 \in 0 .. Len(list) /\ n - 1 \notin S /\ n \in 1 .. Len(list)
    BY <1>0, <1>1, <1>3
  <2>2. PICK f : Keeps(f, list, n - 1)
    BY <2>1
  <2> DEFINE new == Keep(list, n, f[n - 1])
             g == [i \in 0 .. n |-> IF i = n THEN new ELSE f[i]]
  <2>3. f[n - 1] \in Seq(Forward)
    BY <2>1, <2>2 DEF Keeps
  <2>4. new \in Seq(Forward)
    BY <2>1, <2>3, KeepTyped
  <2> HIDE DEF new
  <2>5. \A i \in 0 .. n : g[i] \in Seq(Forward)
    BY <2>1, <2>2, <2>4 DEF Keeps
  <2>6. ASSUME NEW i \in 0 .. n
        PROVE  g[i] = IF i = 0 THEN <<>> ELSE Keep(list, i, g[i - 1])
    <3>1. CASE i = n
      <4>1. g[n] = new /\ g[n - 1] = f[n - 1]
        BY <2>1
      <4> QED
        BY <2>1, <3>1, <4>1 DEF new
    <3>2. CASE i # n
      <4>1. i \in 0 .. n - 1
        BY <2>1, <3>2
      <4>2. g[i] = f[i] /\ (i # 0 => g[i - 1] = f[i - 1])
        BY <2>1, <4>1
      <4>3. f[i] = IF i = 0 THEN <<>> ELSE Keep(list, i, f[i - 1])
        BY <2>2, <4>1 DEF Keeps
      <4> QED
        BY <4>2, <4>3
    <3> QED
      BY <3>1, <3>2
  <2>7. Keeps(g, list, n)
    BY <2>5, <2>6 DEF Keeps
  <2> QED
    BY <1>1, <2>7
<1> QED
  BY <1>2, <1>3

\* Whatever satisfies the recursion holds lists of forwards.
LEMMA KeptTyped ==
    ASSUME NEW list \in Seq(Forward \cup {Bad}), NEW f,
           f = [i \in 0 .. Len(list) |-> IF i = 0 THEN <<>> ELSE Keep(list, i, f[i - 1])]
    PROVE  f[Len(list)] \in Seq(Forward)
<1> DEFINE S == {n \in 0 .. Len(list) : f[n] \notin Seq(Forward)}
<1>0. Len(list) \in Nat /\ S \in SUBSET Nat /\ Len(list) \in 0 .. Len(list)
  OBVIOUS
<1>s. S = {} => f[Len(list)] \in Seq(Forward)
  BY <1>0, Zenon
<1> SUFFICES ASSUME S # {} PROVE FALSE
  BY <1>s
<1>1. PICK n \in S : \A m \in S : n <= m
  BY <1>0, Smallest
<1>2. n # 0
  <2>1. f[0] = <<>>
    BY <1>0
  <2> QED
    BY <1>1, <2>1
<1>3. n \in 1 .. Len(list) /\ n - 1 \in 0 .. Len(list) /\ n - 1 \notin S
  BY <1>0, <1>1, <1>2
<1>4. f[n] = Keep(list, n, f[n - 1]) /\ f[n - 1] \in Seq(Forward)
  BY <1>3
<1>5. f[n] \in Seq(Forward)
  BY <1>3, <1>4, KeepTyped
<1> QED
  BY <1>1, <1>5

LEMMA ParseTyped ==
    ASSUME NEW list \in Seq(Forward \cup {Bad})
    PROVE  ParseForwards(list) \in Seq(Forward)
<1> DEFINE Rec(f) == f = [i \in 0 .. Len(list) |-> IF i = 0 THEN <<>> ELSE Keep(list, i, f[i - 1])]
<1>1. \E f : Rec(f)
  BY KeptExists DEF Keeps
<1>2. Rec(CHOOSE f : Rec(f))
  BY <1>1
<1>3. ParseForwards(list) = (CHOOSE f : Rec(f))[Len(list)]
  BY DEF ParseForwards, Keep
<1> QED
  BY <1>2, <1>3, KeptTyped

-----------------------------------------------------------------------------
(* The rules.                                                              *)

Masquerade == NewRule("postrouting", {}, [do |-> "masq"])

Fixed == { RuleCtAccept("input"), RuleIifAccept("input", "lo"), RuleIifAccept("input", "lan"),
           RuleL4protoAccept("input", "icmp"), RuleCtAccept("forward"), RuleIifAccept("forward", "lan"),
           Masquerade }

\* The rules that build_ruleset can make for forwards of F.
Made(F) == Fixed \cup {RuleForwardToDest(f) : f \in F} \cup {RuleDnat(f) : f \in F}

LEMMA MadeGrows ==
    ASSUME NEW F, NEW G, F \subseteq G
    PROVE  Made(F) \subseteq Made(G)
BY DEF Made

\* u is s followed by t.
Joins(u, s, t) ==
    /\ Len(u) = Len(s) + Len(t) /\ Len(s) \in Nat /\ Len(t) \in Nat
    /\ \A i \in 1 .. Len(s) : u[i] = s[i]
    /\ \A i \in 1 .. Len(t) : u[Len(s) + i] = t[i]

LEMMA Concat ==
    ASSUME NEW S, NEW s \in Seq(S), NEW t \in Seq(S)
    PROVE  s \o t \in Seq(S) /\ Joins(s \o t, s, t)
BY DEF Joins

LEMMA BatchMade ==
    ASSUME NEW masq, NEW fs \in Seq(Forward)
    PROVE  LET b == BuildRuleset(masq, fs)  F == ElementsOf(fs) IN
           /\ b \in Seq(Made(F))
           /\ \A f \in F : /\ \E i \in 1 .. Len(b) : b[i] = RuleForwardToDest(f)
                          /\ \E i \in 1 .. Len(b) : b[i] = RuleDnat(f)
<1> DEFINE F == ElementsOf(fs)  M == Made(F)
           s1 == << RuleCtAccept("input"), RuleIifAccept("input", "lo"), RuleIifAccept("input", "lan"),
                    RuleL4protoAccept("input", "icmp"),
                    RuleCtAccept("forward"), RuleIifAccept("forward", "lan") >>
           s2 == [i \in 1 .. Len(fs) |-> RuleForwardToDest(fs[i])]
           s3 == [i \in 1 .. Len(fs) |-> RuleDnat(fs[i])]
           s4 == IF masq THEN <<Masquerade>> ELSE <<>>
<1>0. Len(fs) \in Nat /\ \A i \in 1 .. Len(fs) : fs[i] \in F
  BY DEF ElementsOf
<1>1. s1 \in Seq(M)
  BY DEF Made, Fixed
<1>2. s2 \in Seq(M) /\ Len(s2) = Len(fs)
  BY <1>0 DEF Made
<1>3. s3 \in Seq(M) /\ Len(s3) = Len(fs)
  BY <1>0 DEF Made
<1>4. s4 \in Seq(M)
  <2>1. Masquerade \in M
    BY DEF Made, Fixed
  <2> QED
    BY <2>1
<1>5. BuildRuleset(masq, fs) = ((s1 \o s2) \o s3) \o s4
  BY DEF BuildRuleset, Masquerade
<1>6. ASSUME NEW f \in F PROVE \E i \in 1 .. Len(fs) : s2[i] = RuleForwardToDest(f) /\ s3[i] = RuleDnat(f)
  BY DEF ElementsOf
<1> HIDE DEF s1, s2, s3, s4, M, F
<1> DEFINE s12 == s1 \o s2  s123 == s12 \o s3  b == s123 \o s4
<1>7. s12 \in Seq(M) /\ Joins(s12, s1, s2)
  BY <1>1, <1>2, Concat
<1> HIDE DEF s12
<1>8. s123 \in Seq(M) /\ Joins(s123, s12, s3)
  BY <1>3, <1>7, Concat
<1> HIDE DEF s123
<1>9. b \in Seq(M) /\ Joins(b, s123, s4)
  BY <1>4, <1>8, Concat
<1> HIDE DEF b
<1>10. ASSUME NEW f \in F
       PROVE  /\ \E i \in 1 .. Len(b) : b[i] = RuleForwardToDest(f)
              /\ \E i \in 1 .. Len(b) : b[i] = RuleDnat(f)
  <2>1. PICK i \in 1 .. Len(fs) : s2[i] = RuleForwardToDest(f) /\ s3[i] = RuleDnat(f)
    BY <1>6
  <2> DEFINE j == Len(s1) + i  k == Len(s12) + i
  <2>2. j \in 1 .. Len(s12) /\ j \in 1 .. Len(s123) /\ j \in 1 .. Len(b)
    BY <1>0, <1>2, <1>3, <1>7, <1>8, <1>9 DEF Joins
  <2>3. k \in 1 .. Len(s123) /\ k \in 1 .. Len(b)
    BY <1>0, <1>2, <1>3, <1>7, <1>8, <1>9 DEF Joins
  <2>4. i \in 1 .. Len(s2) /\ i \in 1 .. Len(s3)
    BY <1>2, <1>3
  <2>5. b[j] = s123[j] /\ s123[j] = s12[j] /\ s12[j] = s2[i]
    BY <1>7, <1>8, <1>9, <2>2, <2>4 DEF Joins
  <2>6. b[k] = s123[k] /\ s123[k] = s3[i]
    BY <1>8, <1>9, <2>3, <2>4 DEF Joins
  <2> HIDE DEF j, k
  <2> QED
    BY <2>1, <2>2, <2>3, <2>5, <2>6
<1>11. BuildRuleset(masq, fs) = b
  BY <1>5 DEF b, s123, s12
<1> QED
  BY <1>9, <1>10, <1>11 DEF M, F

LEMMA BackwardsSame ==
    ASSUME NEW S, NEW s \in Seq(S)
    PROVE  /\ Backwards(s) \in Seq(S) /\ Len(Backwards(s)) = Len(s)
           /\ \A i \in 1 .. Len(s) : \E j \in 1 .. Len(s) : Backwards(s)[j] = s[i]
<1>1. Len(s) \in Nat /\ \A i \in 1 .. Len(s) : Len(s) + 1 - i \in 1 .. Len(s)
  OBVIOUS
<1>2. Backwards(s) \in Seq(S) /\ Len(Backwards(s)) = Len(s)
  BY <1>1 DEF Backwards
<1>3. ASSUME NEW i \in 1 .. Len(s) PROVE \E j \in 1 .. Len(s) : Backwards(s)[j] = s[i]
  <2> DEFINE j == Len(s) + 1 - i
  <2>1. j \in 1 .. Len(s) /\ Len(s) + 1 - j = i
    BY <1>1
  <2>2. Backwards(s)[j] = s[Len(s) + 1 - j]
    BY <2>1 DEF Backwards
  <2> QED
    BY <2>1, <2>2
<1> QED
  BY <1>2, <1>3

\* What each kind of rule compares.
LEMMA FixedRules ==
    /\ \A r \in Fixed : r.chain \in {"input", "forward", "postrouting"}
    /\ \A c : RuleCtAccept(c).ct = CtStateMatch /\ RuleCtAccept(c).chain = c
    /\ \A c, if : RuleIifAccept(c, if).tests = {Is("iif", if)} /\ RuleIifAccept(c, if).chain = c
    /\ \A c, p : RuleL4protoAccept(c, p).tests = {Is("proto", p)} /\ RuleL4protoAccept(c, p).chain = c
BY DEF Fixed, RuleCtAccept, RuleIifAccept, RuleL4protoAccept, Masquerade, NewRule

LEMMA ForwardRules ==
    ASSUME NEW f
    PROVE  /\ RuleDnat(f).chain = "prerouting" /\ RuleDnat(f).ct = {}
           /\ RuleDnat(f).tests = {Is("proto", f.proto), Is("dport", f.dport)}
           /\ RuleDnat(f).then.dest = f.dest /\ RuleDnat(f).then.port = f.destPort
           /\ RuleForwardToDest(f).chain = "forward" /\ RuleForwardToDest(f).ct = {}
           /\ RuleForwardToDest(f).tests = {Is("proto", f.proto), Is("daddr", f.dest), Is("dport", f.destPort)}
BY DEF RuleDnat, RuleForwardToDest, NewRule

LEMMA NewIsNotBack == CtStateMatch # {} /\ HostBytes({CT_NEW}) \cap CtStateMatch = {}
<1>1. CT_ESTABLISHED \in {CT_ESTABLISHED, CT_RELATED}
  OBVIOUS
<1>2. <<3, CT_ESTABLISHED>> \in CtStateMatch
  BY <1>1 DEF CtStateMatch, ToBeBytes
<1>3. ASSUME NEW x \in CtStateMatch PROVE x[2] \in {1, 2}
  BY DEF CtStateMatch, ToBeBytes, CT_ESTABLISHED, CT_RELATED
<1>4. ASSUME NEW x \in HostBytes({CT_NEW}) PROVE x[2] = 3
  BY DEF HostBytes, CT_NEW
<1>5. ASSUME NEW x \in CtStateMatch, x \in HostBytes({CT_NEW}) PROVE FALSE
  <2>1. x[2] \in {1, 2} /\ x[2] = 3
    BY <1>3, <1>4, <1>5
  <2> QED
    BY <2>1
<1> QED
  BY <1>2, <1>5

\* The first packet of a connection from the WAN, before or after the rewriting.
FromOutside(p) == p.iif = "wan" /\ p.ct = HostBytes({CT_NEW})

LEMMA Tests ==
    ASSUME NEW p
    PROVE  /\ \A v : p[Is("iif", v).field] = Is("iif", v).value <=> p.iif = v
           /\ \A v : p[Is("proto", v).field] = Is("proto", v).value <=> p.proto = v
           /\ \A v : p[Is("daddr", v).field] = Is("daddr", v).value <=> p.daddr = v
           /\ \A v : p[Is("dport", v).field] = Is("dport", v).value <=> p.dport = v
BY DEF Is

LEMMA ForwardApplies ==
    ASSUME NEW p, NEW f
    PROVE  /\ Applies(RuleDnat(f), p) <=> p.proto = f.proto /\ p.dport = f.dport
           /\ Applies(RuleForwardToDest(f), p) <=>
                 p.proto = f.proto /\ p.daddr = f.dest /\ p.dport = f.destPort
<1>1. Applies(RuleDnat(f), p) <=>
        /\ p[Is("proto", f.proto).field] = Is("proto", f.proto).value
        /\ p[Is("dport", f.dport).field] = Is("dport", f.dport).value
  BY ForwardRules DEF Applies
<1>2. Applies(RuleForwardToDest(f), p) <=>
        /\ p[Is("proto", f.proto).field] = Is("proto", f.proto).value
        /\ p[Is("daddr", f.dest).field] = Is("daddr", f.dest).value
        /\ p[Is("dport", f.destPort).field] = Is("dport", f.destPort).value
  BY ForwardRules DEF Applies
<1> QED
  BY <1>1, <1>2, Tests

\* Of the rules that do not depend on the configuration only the one for ICMP
\* applies to such a packet.
LEMMA FixedApplies ==
    ASSUME NEW p, FromOutside(p), NEW r \in Fixed, Applies(r, p)
    PROVE  r.chain = "postrouting" \/ (r.chain = "input" /\ p.proto = "icmp")
<1>1. ASSUME NEW c PROVE ~Applies(RuleCtAccept(c), p)
  <2>1. RuleCtAccept(c).ct = CtStateMatch
    BY FixedRules
  <2> QED
    BY <2>1, NewIsNotBack DEF Applies, FromOutside
<1>2. ASSUME NEW c, NEW if, if # "wan" PROVE ~Applies(RuleIifAccept(c, if), p)
  <2>1. RuleIifAccept(c, if).tests = {Is("iif", if)}
    BY FixedRules
  <2>2. p[Is("iif", if).field] # Is("iif", if).value
    BY <1>2, Tests DEF FromOutside
  <2> QED
    BY <2>1, <2>2 DEF Applies
<1>3. ASSUME Applies(RuleL4protoAccept("input", "icmp"), p) PROVE p.proto = "icmp"
  <2>1. RuleL4protoAccept("input", "icmp").tests = {Is("proto", "icmp")}
    BY FixedRules
  <2>2. p[Is("proto", "icmp").field] = Is("proto", "icmp").value
    BY <1>3, <2>1 DEF Applies
  <2> QED
    BY <2>2, Tests
<1>4. r = RuleL4protoAccept("input", "icmp") \/ r = Masquerade
  BY <1>1, <1>2 DEF Fixed
<1>5. Masquerade.chain = "postrouting" /\ RuleL4protoAccept("input", "icmp").chain = "input"
  BY FixedRules DEF Masquerade, NewRule
<1> QED
  BY <1>3, <1>4, <1>5

LEMMA MadeApplies ==
    ASSUME NEW F, NEW p, FromOutside(p), NEW r \in Made(F), Applies(r, p)
    PROVE  /\ r.chain = "input" => p.proto = "icmp"
           /\ r.chain = "forward" =>
                \E f \in F : f.proto = p.proto /\ f.dest = p.daddr /\ f.destPort = p.dport
           /\ r.chain = "prerouting" =>
                \E f \in F : r = RuleDnat(f) /\ f.proto = p.proto /\ f.dport = p.dport
<1>1. CASE r \in Fixed
  BY <1>1, FixedApplies
<1>2. ASSUME NEW f \in F, r = RuleForwardToDest(f)
      PROVE  r.chain = "forward" /\ f.proto = p.proto /\ f.dest = p.daddr /\ f.destPort = p.dport
  BY <1>2, ForwardApplies, ForwardRules
<1>3. ASSUME NEW f \in F, r = RuleDnat(f)
      PROVE  r.chain = "prerouting" /\ f.proto = p.proto /\ f.dport = p.dport
  BY <1>3, ForwardApplies, ForwardRules
<1> QED
  BY <1>1, <1>2, <1>3 DEF Made

-----------------------------------------------------------------------------
(* The invariant.                                                          *)

Inputs ==
    /\ conf \in Configs
    /\ taken # Idle => taken.forward \in Seq(Forward)

\* The first n rules of the list are made for F, and no forward of F lacks its two.
Leads(list, F, n) ==
    /\ \A i \in 1 .. n : list[i] \in Made(F)
    /\ \A f \in F : /\ \E i \in 1 .. n : list[i] = RuleDnat(f)
                   /\ \E i \in 1 .. n : list[i] = RuleForwardToDest(f)

RulesInv ==
    /\ rules \in Seq(Made(forwards)) /\ newest \subseteq forwards /\ forwards \subseteq Forward
    /\ \E n \in 0 .. Len(rules) : Leads(rules, newest, n)

IInv == Inputs /\ RulesInv /\ Protected /\ ForwardsWork

LEMMA NothingSeen ==
    ASSUME seen = Unseen
    PROVE  Protected /\ ForwardsWork
BY DEF Protected, ForwardsWork, FromWan

LEMMA EmptyTable ==
    ASSUME rules = <<>>, forwards = {}, newest = {}
    PROVE  RulesInv
<1>1. Len(rules) = 0 /\ rules \in Seq(Made(forwards))
  BY EmptySeq
<1>2. Leads(rules, newest, 0) /\ 0 \in 0 .. Len(rules)
  BY <1>1 DEF Leads
<1> QED
  BY <1>1, <1>2 DEF RulesInv

LEMMA InitIInv == Init => IInv
<1> SUFFICES ASSUME Init PROVE IInv
  OBVIOUS
<1>1. Inputs
  BY DEF Init, Inputs
<1>2. RulesInv
  BY EmptyTable DEF Init
<1> QED
  BY <1>1, <1>2, NothingSeen DEF IInv, Init

LEMMA CommitKeeps ==
    ASSUME Inputs, RulesInv, FwCommit
    PROVE  RulesInv'
<1> DEFINE b == BuildRuleset(taken.masq, taken.forward)  F == ElementsOf(taken.forward)
           B == Backwards(b)  M == Made(forwards')
<1>1. taken.forward \in Seq(Forward)
  BY DEF Inputs, FwCommit
<1>2. /\ rules' = B \o rules /\ newest' = F /\ forwards' = forwards \cup F
  BY DEF FwCommit
<1>3. F \subseteq Forward
  BY <1>1 DEF ElementsOf
<1>4. /\ b \in Seq(Made(F))
      /\ \A f \in F : /\ \E i \in 1 .. Len(b) : b[i] = RuleForwardToDest(f)
                     /\ \E i \in 1 .. Len(b) : b[i] = RuleDnat(f)
  BY <1>1, BatchMade
<1> HIDE DEF b, F
<1>5. /\ B \in Seq(Made(F)) /\ Len(B) = Len(b)
      /\ \A i \in 1 .. Len(b) : \E j \in 1 .. Len(b) : B[j] = b[i]
  BY <1>4, BackwardsSame
<1> HIDE DEF B
<1>6. Made(F) \subseteq M /\ Made(forwards) \subseteq M
  BY <1>2, MadeGrows
<1> HIDE DEF M
<1>7. rules \in Seq(M) /\ B \in Seq(M)
  BY <1>5, <1>6, SeqMonotonic DEF RulesInv
<1>8. rules' \in Seq(M) /\ Joins(rules', B, rules)
  BY <1>2, <1>7, Concat
<1>9. Leads(rules', newest', Len(B))
  <2>1. ASSUME NEW i \in 1 .. Len(B) PROVE rules'[i] \in Made(F)
    <3>1. rules'[i] = B[i]
      BY <1>8 DEF Joins
    <3> QED
      BY <1>5, <3>1, ElementOfSeq
  <2>2. ASSUME NEW f \in F PROVE /\ \E i \in 1 .. Len(B) : rules'[i] = RuleDnat(f)
                                 /\ \E i \in 1 .. Len(B) : rules'[i] = RuleForwardToDest(f)
    <3>1. PICK i \in 1 .. Len(b) : b[i] = RuleForwardToDest(f)
      BY <1>4
    <3>2. PICK j \in 1 .. Len(b) : B[j] = b[i]
      BY <1>5
    <3>3. PICK k \in 1 .. Len(b) : b[k] = RuleDnat(f)
      BY <1>4
    <3>4. PICK l \in 1 .. Len(b) : B[l] = b[k]
      BY <1>5
    <3>5. j \in 1 .. Len(B) /\ l \in 1 .. Len(B) /\ rules'[j] = B[j] /\ rules'[l] = B[l]
      BY <1>5, <1>8 DEF Joins
    <3> QED
      BY <3>1, <3>2, <3>3, <3>4, <3>5
  <2> QED
    BY <1>2, <2>1, <2>2 DEF Leads
<1>10. Len(B) \in 0 .. Len(rules')
  BY <1>8 DEF Joins
<1>11. newest' \subseteq forwards' /\ forwards' \subseteq Forward
  BY <1>2, <1>3 DEF RulesInv
<1> QED
  <2>1. \E n \in 0 .. Len(rules') : Leads(rules', newest', n)
    BY <1>9, <1>10
  <2> QED
    BY <1>8, <1>11, <2>1 DEF RulesInv, M

-----------------------------------------------------------------------------
(* A packet opens a connection.                                            *)

Parts == {"iif", "src", "daddr", "proto", "dport", "ct"}

LEMMA PacketFields ==
    ASSUME NEW iif, NEW src, NEW daddr, NEW proto, NEW dport, NEW state
    PROVE  LET p == Packet(iif, src, daddr, proto, dport, state) IN
           /\ p = [x \in Parts |-> p[x]]
           /\ p.iif = iif /\ p.daddr = daddr /\ p.proto = proto /\ p.dport = dport /\ p.ct = HostBytes({state})
BY DEF Packet, Parts

\* What dnat leaves of a packet, and what it puts in.
IsRewritten(q, p, dest, port) ==
    q.iif = p.iif /\ q.proto = p.proto /\ q.ct = p.ct /\ q.daddr = dest /\ q.dport = port

LEMMA ExceptFields ==
    ASSUME NEW p, p = [x \in Parts |-> p[x]], NEW dest, NEW port
    PROVE  IsRewritten([p EXCEPT !.daddr = dest, !.dport = port], p, dest, port)
BY DEF IsRewritten, Parts

IsFirst(i, c, p) == i \in Matching(c, p) /\ \A j \in Matching(c, p) : i <= j

LEMMA PreroutedIs ==
    ASSUME NEW p, p = [x \in Parts |-> p[x]]
    PROVE  \/ Matching("prerouting", p) = {} /\ Prerouted(p) = p
           \/ \E i : /\ IsFirst(i, "prerouting", p)
                     /\ IsRewritten(Prerouted(p), p, rules[i].then.dest, rules[i].then.port)
<1> DEFINE M == Matching("prerouting", p)
<1>1. CASE M = {}
  BY <1>1 DEF Prerouted
<1>2. CASE M # {}
  <2>1. M \in SUBSET Nat
    BY DEF Matching
  <2>2. \E i \in M : \A j \in M : i <= j
    BY <1>2, <2>1, Smallest
  <2> DEFINE i == CHOOSE i \in M : \A j \in M : i <= j
  <2>3. i \in M /\ \A j \in M : i <= j
    BY <2>2
  <2>4. Prerouted(p) = [p EXCEPT !.daddr = rules[i].then.dest, !.dport = rules[i].then.port]
    BY <1>2 DEF Prerouted
  <2> HIDE DEF i
  <2>5. IsRewritten(Prerouted(p), p, rules[i].then.dest, rules[i].then.port)
    <3> DEFINE dest == rules[i].then.dest  port == rules[i].then.port
    <3>1. Prerouted(p) = [p EXCEPT !.daddr = dest, !.dport = port]
      BY <2>4
    <3> HIDE DEF dest, port
    <3>2. IsRewritten([p EXCEPT !.daddr = dest, !.dport = port], p, dest, port)
      BY ExceptFields
    <3> QED
      BY <3>1, <3>2 DEF dest, port
  <2> QED
    BY <2>3, <2>5 DEF IsFirst
<1> QED
  BY <1>1, <1>2

\* A packet from the WAN is accepted only for what a forward names, or as ICMP.
LEMMA AcceptedOutside ==
    ASSUME RulesInv, loaded, NEW q, FromOutside(q), Verdict(q) = "accept"
    PROVE  IF q.daddr = Router THEN q.proto = "icmp"
           ELSE \E f \in forwards : f.proto = q.proto /\ f.dest = q.daddr /\ f.destPort = q.dport
<1> DEFINE c == IF q.daddr = Router THEN "input" ELSE "forward"
<1>1. Matching(c, q) # {}
  BY DEF Verdict
<1>2. PICK i \in 1 .. Len(rules) : rules[i].chain = c /\ Applies(rules[i], q)
  BY <1>1 DEF Matching
<1>3. rules[i] \in Made(forwards)
  BY ElementOfSeq DEF RulesInv
<1> QED
  BY <1>2, <1>3, MadeApplies

\* A packet from the WAN for a port that the last commit forwards goes where it says.
LEMMA ForwardedOutside ==
    ASSUME RulesInv, ipForward, loaded, NEW p, p = [x \in Parts |-> p[x]], FromOutside(p),
           NEW f \in newest, f.proto = p.proto, f.dport = p.dport
    PROVE  \E g \in newest : /\ g.proto = p.proto /\ g.dport = p.dport
                             /\ Prerouted(p).daddr = g.dest /\ Prerouted(p).dport = g.destPort
                             /\ Verdict(Prerouted(p)) = "accept" <=> g.dest # Router
<1> DEFINE q == Prerouted(p)
<1>1. PICK n \in 0 .. Len(rules) : Leads(rules, newest, n)
  BY DEF RulesInv
<1>n. Len(rules) \in Nat /\ n \in Nat /\ n <= Len(rules)
  BY DEF RulesInv
<1>2. PICK k \in 1 .. n : rules[k] = RuleDnat(f)
  BY <1>1 DEF Leads
<1>3. k \in Matching("prerouting", p)
  <2>1. Applies(RuleDnat(f), p) /\ RuleDnat(f).chain = "prerouting"
    BY ForwardApplies, ForwardRules
  <2> QED
    BY <1>n, <1>2, <2>1 DEF Matching
<1>4. PICK i : /\ IsFirst(i, "prerouting", p)
               /\ IsRewritten(q, p, rules[i].then.dest, rules[i].then.port)
  BY <1>3, PreroutedIs
<1>5. i \in 1 .. n /\ rules[i].chain = "prerouting" /\ Applies(rules[i], p)
  <2>1. i <= k /\ i \in 1 .. Len(rules) /\ rules[i].chain = "prerouting" /\ Applies(rules[i], p)
    BY <1>3, <1>4 DEF IsFirst, Matching
  <2> QED
    BY <1>n, <2>1
<1>6. rules[i] \in Made(newest)
  BY <1>1, <1>5 DEF Leads
<1>7. PICK g \in newest : rules[i] = RuleDnat(g) /\ g.proto = p.proto /\ g.dport = p.dport
  BY <1>5, <1>6, MadeApplies
<1>8. /\ q.daddr = g.dest /\ q.dport = g.destPort /\ q.proto = g.proto
      /\ q.iif = p.iif /\ q.ct = p.ct
  BY <1>4, <1>7, ForwardRules DEF IsRewritten
<1>9. g.dest = Router => Verdict(q) # "accept"
  <2>1. g.proto # "icmp"
    BY DEF RulesInv, Forward
  <2>2. FromOutside(q)
    BY <1>8 DEF FromOutside
  <2> QED
    BY <1>8, <2>1, <2>2, AcceptedOutside
<1>10. PICK j \in 1 .. n : rules[j] = RuleForwardToDest(g)
  BY <1>1 DEF Leads
<1>11. j \in Matching("forward", q)
  <2>1. Applies(RuleForwardToDest(g), q) /\ RuleForwardToDest(g).chain = "forward"
    BY <1>8, ForwardApplies, ForwardRules
  <2> QED
    BY <1>n, <1>10, <2>1 DEF Matching
<1>12. g.dest # Router => Verdict(q) = "accept"
  BY <1>8, <1>11 DEF Verdict
<1> QED
  BY <1>7, <1>8, <1>9, <1>12

LEMMA OpensKeeps ==
    ASSUME RulesInv, Opens
    PROVE  Protected' /\ ForwardsWork'
<1>1. PICK iif \in Iface, proto \in Proto, dport \in Ports : \E e \in Ends(iif) :
         LET p == Packet(iif, e[1], e[2], proto, dport, CT_NEW) IN
         seen' = [verdict |-> Verdict(Prerouted(p)), as |-> p, went |-> Prerouted(p), state |-> CT_NEW]
  BY DEF Opens
<1>2. PICK e \in Ends(iif) :
         LET p == Packet(iif, e[1], e[2], proto, dport, CT_NEW) IN
         seen' = [verdict |-> Verdict(Prerouted(p)), as |-> p, went |-> Prerouted(p), state |-> CT_NEW]
  BY <1>1
<1> DEFINE p == Packet(iif, e[1], e[2], proto, dport, CT_NEW)  q == Prerouted(p)
<1>3. seen'.verdict = Verdict(q) /\ seen'.as = p /\ seen'.went = q
  BY <1>2
<1>4. loaded' = loaded /\ ipForward' = ipForward /\ forwards' = forwards /\ newest' = newest
  BY DEF Opens, kernel, history
<1>5. p = [x \in Parts |-> p[x]] /\ p.iif = iif /\ p.ct = HostBytes({CT_NEW})
  BY PacketFields
<1> HIDE DEF p
<1>6. q.iif = p.iif /\ q.ct = p.ct /\ q.proto = p.proto
  BY <1>5, PreroutedIs DEF IsRewritten
<1> HIDE DEF q
<1>7. Protected'
  <2> SUFFICES ASSUME loaded, p.iif = "wan", Verdict(q) = "accept"
               PROVE  IF q.daddr = Router THEN q.proto = "icmp"
                      ELSE \E f \in forwards : f.proto = q.proto /\ f.dest = q.daddr /\ f.destPort = q.dport
    BY <1>3, <1>4 DEF Protected, FromWan
  <2> QED
    BY <1>5, <1>6, AcceptedOutside DEF FromOutside
<1>8. ForwardsWork'
  <2> SUFFICES ASSUME p.iif = "wan", ipForward, loaded,
                      NEW f \in newest, f.proto = p.proto, f.dport = p.dport
               PROVE  \E g \in newest : /\ g.proto = p.proto /\ g.dport = p.dport
                                        /\ q.daddr = g.dest /\ q.dport = g.destPort
                                        /\ Verdict(q) = "accept" <=> g.dest # Router
    BY <1>3, <1>4 DEF ForwardsWork, FromWan
  <2> QED
    BY <1>5, ForwardedOutside DEF FromOutside, q
<1> QED
  BY <1>7, <1>8

-----------------------------------------------------------------------------
LEMMA NextKeeps == IInv /\ [Next]_vars => IInv'
<1> SUFFICES ASSUME IInv, [Next]_vars PROVE IInv'
  OBVIOUS
<1>0. Inputs /\ RulesInv
  BY DEF IInv
<1>s. seen' = Unseen => Protected' /\ ForwardsWork'
  BY DEF Protected, ForwardsWork, FromWan
<1>k. UNCHANGED <<rules, forwards, newest>> => RulesInv'
  BY <1>0 DEF RulesInv
<1>i. UNCHANGED <<conf, taken>> => Inputs'
  BY <1>0 DEF Inputs
<1>1. CASE FwStart
  <2>1. conf.forward \in Seq(Forward \cup {Bad})
    BY <1>0, FwRulesAssumption DEF Inputs
  <2>2. ParseForwards(conf.forward) \in Seq(Forward)
    BY <2>1, ParseTyped
  <2>3. taken'.forward = ParseForwards(conf.forward) /\ conf' = conf
    BY <1>1 DEF FwStart
  <2>4. Inputs'
    BY <1>0, <2>2, <2>3 DEF Inputs
  <2> QED
    BY <1>1, <1>s, <1>k, <2>4 DEF FwStart, history, IInv
<1>2. CASE FwCommit
  <2>1. Inputs'
    BY <1>0, <1>2 DEF FwCommit, Inputs
  <2> QED
    BY <1>0, <1>2, <1>s, <2>1, CommitKeeps DEF FwCommit, IInv
<1>3. CASE FwFails
  <2>1. Inputs'
    BY <1>0, <1>3 DEF FwFails, Inputs
  <2> QED
    BY <1>3, <1>s, <1>k, <2>1 DEF FwFails, kernel, history, IInv
<1>4. CASE Configure
  <2>1. Inputs'
    BY <1>0, <1>4 DEF Configure, Inputs
  <2> QED
    BY <1>4, <1>s, <1>k, <2>1 DEF Configure, kernel, history, IInv
<1>5. CASE Reboot
  <2>1. Inputs'
    BY <1>0, <1>5 DEF Reboot, Booted, Inputs
  <2>2. rules' = <<>> /\ forwards' = {} /\ newest' = {} /\ seen' = Unseen
    BY <1>5 DEF Reboot, Booted
  <2>3. RulesInv'
    <3>1. Len(rules') = 0 /\ rules' \in Seq(Made(forwards'))
      BY <2>2, EmptySeq
    <3>2. Leads(rules', newest', 0) /\ 0 \in 0 .. Len(rules')
      BY <2>2, <3>1 DEF Leads
    <3>3. \E n \in 0 .. Len(rules') : Leads(rules', newest', n)
      BY <3>2
    <3> QED
      BY <2>2, <3>1, <3>3 DEF RulesInv
  <2> QED
    BY <1>s, <2>1, <2>2, <2>3 DEF IInv
<1>6. CASE Opens
  <2>1. UNCHANGED <<conf, taken, rules, forwards, newest>>
    BY <1>6 DEF Opens, kernel, history
  <2> QED
    BY <1>0, <1>6, <1>k, <1>i, <2>1, OpensKeeps DEF IInv
<1>7. ASSUME NEW proto \in Proto, NEW dport \in Ports, RouterOpens(proto, dport) PROVE IInv'
  BY <1>7, <1>s, <1>k, <1>i DEF RouterOpens, kernel, history, IInv
<1>8. CASE Answered
  <2>1. seen'.state = CT_ESTABLISHED /\ UNCHANGED <<conf, taken, rules, forwards, newest>>
    BY <1>8 DEF Answered, kernel, history
  <2>2. ~FromWan'
    BY <2>1 DEF FromWan, CT_ESTABLISHED, CT_NEW
  <2>3. Protected' /\ ForwardsWork'
    BY <2>2 DEF Protected, ForwardsWork
  <2> QED
    BY <1>k, <1>i, <2>1, <2>3 DEF IInv
<1>9. CASE UNCHANGED vars
  <2>1. UNCHANGED <<conf, taken, ipForward, loaded, rules, seen, forwards, newest>>
    BY <1>9 DEF vars, kernel, history
  <2>2. Protected' /\ ForwardsWork'
    BY <2>1 DEF IInv, Protected, ForwardsWork, FromWan
  <2> QED
    BY <1>k, <1>i, <2>1, <2>2 DEF IInv
<1> QED
  BY <1>1, <1>2, <1>3, <1>4, <1>5, <1>6, <1>7, <1>8, <1>9 DEF Next

-----------------------------------------------------------------------------
(* What is proved.                                                         *)

LEMMA Invariance == Spec => []IInv
<1>1. Init => IInv
  BY InitIInv
<1>2. IInv /\ [Next]_vars => IInv'
  BY NextKeeps
<1> QED
  BY <1>1, <1>2, PTL DEF Spec

(* For every configuration, and any number of changes of it, runs of fw    *)
(* and reboots: with the table loaded, a connection from the WAN reaches   *)
(* the router with ICMP only, and beyond it only what a forward committed  *)
(* since the boot names (build_ruleset).                                   *)
THEOREM FwProtects == Spec => []Protected
<1>1. IInv => Protected
  BY DEF IInv
<1> QED
  BY <1>1, Invariance, PTL

(* For every list of forwards, to whatever addresses, with malformed       *)
(* entries, with one port named twice, and on top of any rules of earlier  *)
(* runs: a forward of the last commit is reached from the WAN, except that *)
(* one to the router itself is dropped (rule_dnat, rule_forward_to_dest).  *)
THEOREM FwForwards == Spec => []ForwardsWork
<1>1. IInv => ForwardsWork
  BY DEF IInv
<1> QED
  BY <1>1, Invariance, PTL

=============================================================================
