-------------------------- MODULE SupervisorProofs --------------------------
(***************************************************************************)
(* What PID 1 keeps true for every list of services, every set of pids and *)
(* every number of exits, failed forks and orphans (Supervisor), and what  *)
(* the `fw` applet reports (FwProgram).                                    *)
(*                                                                         *)
(* TableExact and MissingOnlyIfForkFailed are not inductive: that the      *)
(* initial spawn gives no service twice rests on how far it has got, and   *)
(* that a respawn does not rests on the table and the failed forks         *)
(* together partitioning the services given to it so far.                  *)
(***************************************************************************)
EXTENDS Supervisor, TLAPS

-----------------------------------------------------------------------------
(* The fw applet.                                                          *)

\* Before the batch is sent nothing has been answered; while the loop runs it
\* has not passed an error; and the status is set only by leaving.
FwOrder ==
    /\ fwpc \in {"idle", "opened"} => iter = 0 /\ errAt = 0
    /\ fwpc = "drain" => errAt = 0 \/ iter < errAt
    /\ fwpc # "exited" => rc = 0

FwInv == FwTypeOK /\ FwOrder /\ SeenErrorReported

\* The kernel acknowledges a natural number of messages of a batch.
LEMMA BatchAcksNat ==
    ASSUME NEW n \in Nat, NEW masq \in BOOLEAN
    PROVE  BatchAcks(n, masq) \in Nat
BY DEF BatchAcks

\* Every step of `program` keeps the applet's invariant.
LEMMA FwNextInv == FwInv /\ FwNext => FwInv'
<1> SUFFICES ASSUME FwInv, FwNext PROVE FwInv'
    OBVIOUS
<1> USE FwAssumption DEF FwInv, FwTypeOK, FwOrder, SeenErrorReported
<1>1. CASE OpenFails \/ Open \/ SendFails
    BY <1>1 DEF OpenFails, Open, SendFails
<1>2. CASE Send
  <2>1. acks' \in Nat /\ errAt' \in Nat
    BY <1>2, BatchAcksNat DEF Send
  <2> QED
    BY <1>2, <2>1 DEF Send
<1>3. CASE RecvAck \/ RecvError \/ RecvFails \/ DrainEnds
    BY <1>3 DEF RecvAck, RecvError, RecvFails, DrainEnds
<1> QED
    BY <1>1, <1>2, <1>3 DEF FwNext, FwRun

\* A fresh process starts the applet anew.
LEMMA FwFresh ==
    ASSUME fwpc' = "idle" /\ acks' = 0 /\ errAt' = 0 /\ iter' = 0 /\ rc' = 0
    PROVE  FwInv'
BY FwAssumption DEF FwInv, FwTypeOK, FwOrder, SeenErrorReported

-----------------------------------------------------------------------------
(* PID 1.                                                                  *)

\* The services given to the initial spawn so far.
Given == {SERVICES[i] : i \in 1 .. next}

\* Services are spawned after the one-shots and before the loop.
SpawnOrder ==
    /\ pc \in {"start", "network", "dhcp client", "fw", "fw wait", "wg"} => next = 0
    /\ pc \in {"top", "wait", "halt", "down"} => next = Len(SERVICES)

\* Each service given so far is in the table or was lost by fork, never both.
Partition ==
    /\ \A s \in Svc : (\E p \in Pid : <<p, s>> \in table) => s \in Given
    /\ lost \subseteq Given
    /\ \A s \in Given : (\E p \in Pid : <<p, s>> \in table) <=> s \notin lost

SupInv == TypeOK /\ SpawnOrder /\ TableExact /\ Partition /\ FwInv

\* SERVICES is a sequence of as many distinct services as it is long.
LEMMA ServicesFacts ==
    /\ Len(SERVICES) \in Nat
    /\ \A n \in 0 .. Len(SERVICES) - 1 :
          /\ SERVICES[n + 1] \in Svc
          /\ SERVICES[n + 1] \notin {SERVICES[i] : i \in 1 .. n}
          /\ {SERVICES[i] : i \in 1 .. n + 1} = {SERVICES[i] : i \in 1 .. n} \cup {SERVICES[n + 1]}
<1>1. Len(SERVICES) \in Nat
    BY SupervisorAssumption
<1>2. ASSUME NEW n \in 0 .. Len(SERVICES) - 1
      PROVE  /\ SERVICES[n + 1] \in Svc
             /\ SERVICES[n + 1] \notin {SERVICES[i] : i \in 1 .. n}
  <2>1. n + 1 \in 1 .. Len(SERVICES) /\ 1 .. n \subseteq 1 .. Len(SERVICES) /\ n + 1 \notin 1 .. n
    BY <1>1
  <2> QED
    BY <2>1, SupervisorAssumption DEF Svc
<1>3. ASSUME NEW n \in 0 .. Len(SERVICES) - 1
      PROVE  {SERVICES[i] : i \in 1 .. n + 1} = {SERVICES[i] : i \in 1 .. n} \cup {SERVICES[n + 1]}
  <2>1. 1 .. n + 1 = 1 .. n \cup {n + 1}
    BY <1>1
  <2> QED
    BY <2>1
<1> QED
    BY <1>1, <1>2, <1>3

\* A bounded counter goes up by one, or stays.
LEMMA CounterBound ==
    ASSUME NEW Max \in Nat, NEW n \in 0 .. Max, NEW m, m = n \/ (n < Max /\ m = n + 1)
    PROVE  m \in 0 .. Max
OBVIOUS

LEMMA SupInit == Init => SupInv
<1> SUFFICES ASSUME Init PROVE SupInv
    OBVIOUS
<1> USE DEF Init, FwInit
<1>1. FwInv
    BY FwAssumption DEF FwInv, FwTypeOK, FwOrder, SeenErrorReported
<1>2. TypeOK
  <2>1. next \in 0 .. Len(SERVICES)
    BY ServicesFacts
  <2>2. exits \in 0 .. MaxExits /\ forkFails \in 0 .. MaxForkFails /\ orphans \in 0 .. MaxOrphans
    BY SupervisorAssumption
  <2> QED
    BY <1>1, <2>1, <2>2 DEF TypeOK, FwInv
<1>3. SpawnOrder /\ TableExact /\ Partition
    BY DEF SpawnOrder, TableExact, Partition, Given
<1> QED
    BY <1>1, <1>2, <1>3 DEF SupInv

\* A table t that is exact for the process states, without an entry for s, and
\* pids that are free in them.
SpawnPre(s, t, free, states) ==
    /\ s \in Svc /\ s \notin lost
    /\ t \subseteq Pid \X Svc /\ free \subseteq Pid
    /\ states \in [Pid -> {"free", "run", "zombie"}]
    /\ \A p \in free : states[p] = "free"
    /\ \A p \in Pid : <<p, s>> \notin t
    /\ \A p \in Pid, u \in Svc : <<p, u>> \in t <=> (states[p] # "free" /\ prog[p] = u)
    /\ \A p, q \in Pid, u \in Svc : <<p, u>> \in t /\ <<q, u>> \in t => p = q

\* The new table is exact too; s joined it or is lost, the others are as in t.
SpawnPost(s, t) ==
    /\ table' \subseteq Pid \X Svc
    /\ st' \in [Pid -> {"free", "run", "zombie"}]
    /\ prog' \in [Pid -> Svc \cup {Orphan}]
    /\ forkFails' \in 0 .. MaxForkFails
    /\ TableExact'
    /\ \A u \in Svc \ {s} : (\E p \in Pid : <<p, u>> \in table') <=> (\E p \in Pid : <<p, u>> \in t)
    /\ (\E p \in Pid : <<p, s>> \in table') <=> s \notin lost'
    /\ lost' \cup {s} = lost \cup {s}

\* spawn(s), at boot and after a death, keeps the table exact.
LEMMA SpawnExact ==
    ASSUME NEW s, NEW t, NEW free, NEW states,
           TypeOK, SpawnPre(s, t, free, states), Spawn(s, t, free, states)
    PROVE  SpawnPost(s, t)
<1> USE DEF SpawnPre, SpawnPost
<1>0. prog \in [Pid -> Svc \cup {Orphan}] /\ forkFails \in 0 .. MaxForkFails
    BY DEF TypeOK
<1>1. CASE \E p \in free : /\ st' = [states EXCEPT ![p] = "run"]
                           /\ prog' = [prog EXCEPT ![p] = s]
                           /\ table' = t \cup {<<p, s>>}
                           /\ UNCHANGED <<forkFails, lost>>
  <2> PICK p \in free : /\ st' = [states EXCEPT ![p] = "run"]
                        /\ prog' = [prog EXCEPT ![p] = s]
                        /\ table' = t \cup {<<p, s>>}
                        /\ UNCHANGED <<forkFails, lost>>
    BY <1>1
  <2>1. table' \subseteq Pid \X Svc
    OBVIOUS
  <2>2. st' \in [Pid -> {"free", "run", "zombie"}] /\ prog' \in [Pid -> Svc \cup {Orphan}]
    BY <1>0
  <2>3. ASSUME NEW q \in Pid, NEW u \in Svc
        PROVE  <<q, u>> \in table' <=> (st'[q] # "free" /\ prog'[q] = u)
    <3>1. CASE q = p
        BY <1>0, <3>1
    <3>2. CASE q # p
        BY <1>0, <3>2
    <3> QED
        BY <3>1, <3>2
  <2>4. \A q, r \in Pid, u \in Svc : <<q, u>> \in table' /\ <<r, u>> \in table' => q = r
    OBVIOUS
  <2> QED
    BY <1>0, <2>1, <2>2, <2>3, <2>4 DEF TableExact
<1>2. CASE /\ forkFails < MaxForkFails /\ forkFails' = forkFails + 1
           /\ st' = states /\ prog' = prog
           /\ table' = t
           /\ lost' = lost \cup {s}
  <2>1. TableExact'
    BY <1>2 DEF TableExact
  <2>2. forkFails' \in 0 .. MaxForkFails
    BY <1>0, <1>2, SupervisorAssumption
  <2> QED
    BY <1>0, <1>2, <2>1, <2>2
<1> QED
    BY <1>1, <1>2 DEF Spawn

\* A step of the boot, or of the loop around the wait: PID 1 moves on and the
\* services stay as they are.
LEMMA MoveInv ==
    ASSUME SupInv, UNCHANGED <<next, table, lost, st, prog, exits, orphans>>,
           stop' \in BOOLEAN, forkFails' \in 0 .. MaxForkFails,
           pc' \in {"start", "network", "dhcp client", "fw", "fw wait", "wg", "spawn",
                    "top", "wait", "halt", "down"},
           SpawnOrder', FwInv'
    PROVE  SupInv'
<1>1. TypeOK'
    BY DEF SupInv, TypeOK, FwInv
<1>2. TableExact' /\ Partition'
    BY DEF SupInv, TableExact, Partition, Given
<1> QED
    BY <1>1, <1>2 DEF SupInv

\* The boot up to the initial spawn.
LEMMA BootInv == SupInv /\ (Boot \/ OneshotForkFails \/ FwRecvFails) => SupInv'
<1> SUFFICES ASSUME SupInv, Boot \/ OneshotForkFails \/ FwRecvFails PROVE SupInv'
    OBVIOUS
<1> DEFINE boot == Start \/ NetworkDirect \/ NetworkDhcp \/ DhcpClient \/ FwStart \/ Wg
<1> USE DEF Start, NetworkDirect, NetworkDhcp, DhcpClient, OneshotDone, FwStart, Wg,
            FwStep, FwRecvFails, FwDone, OneshotForkFails, Goto, kernel, bounds
<1>1. FwInv'
  <2>1. CASE boot \/ OneshotForkFails
    BY <2>1 DEF SupInv, FwInv, FwTypeOK, FwOrder, SeenErrorReported, fwVars
  <2>2. CASE FwStep \/ FwRecvFails
    BY <2>2, FwNextInv DEF FwNext, SupInv
  <2>3. CASE FwDone
    <3>1. fwpc' = "idle" /\ acks' = 0 /\ errAt' = 0 /\ iter' = 0 /\ rc' = 0
        BY <2>3
    <3> QED
        BY <3>1, FwFresh
  <2> QED
    BY <2>1, <2>2, <2>3 DEF Boot
<1>2. UNCHANGED <<next, table, lost, st, prog, exits, orphans, stop>>
    BY DEF Boot
<1>3. /\ pc' \in {"start", "network", "dhcp client", "fw", "fw wait", "wg", "spawn",
                  "top", "wait", "halt", "down"}
      /\ SpawnOrder'
    BY <1>2 DEF Boot, SupInv, TypeOK, SpawnOrder
<1>4. forkFails' \in 0 .. MaxForkFails
  <2>1. forkFails' = forkFails \/ (forkFails < MaxForkFails /\ forkFails' = forkFails + 1)
    BY DEF Boot
  <2>2. MaxForkFails \in Nat /\ forkFails \in 0 .. MaxForkFails
    BY SupervisorAssumption DEF SupInv, TypeOK
  <2> QED
    BY <2>1, <2>2, CounterBound
<1>5. stop' \in BOOLEAN
    BY <1>2 DEF SupInv, TypeOK
<1> QED
    BY <1>1, <1>2, <1>3, <1>4, <1>5, MoveInv

\* The initial spawn.
LEMMA SpawnNextInv == SupInv /\ SpawnNext => SupInv'
<1> SUFFICES ASSUME SupInv, SpawnNext PROVE SupInv'
    OBVIOUS
<1> DEFINE s == SERVICES[next + 1]
<1> USE DEF SpawnNext
<1>1. /\ next \in 0 .. Len(SERVICES) - 1 /\ next' \in 0 .. Len(SERVICES)
      /\ s \in Svc /\ s \notin Given /\ Given' = Given \cup {s}
  <2>1. Len(SERVICES) \in Nat /\ next \in 0 .. Len(SERVICES) /\ next < Len(SERVICES) /\ next' = next + 1
    BY ServicesFacts DEF SupInv, TypeOK
  <2>2. next \in 0 .. Len(SERVICES) - 1 /\ next' \in 0 .. Len(SERVICES)
    BY <2>1
  <2> QED
    BY <2>1, <2>2, ServicesFacts DEF Given
<1> HIDE DEF s
<1>2. s \notin lost /\ \A p \in Pid : <<p, s>> \notin table
    BY <1>1 DEF SupInv, Partition
<1>3. /\ table \in SUBSET (Pid \X Svc) /\ Free \in SUBSET Pid /\ TypeOK
      /\ st \in [Pid -> {"free", "run", "zombie"}]
      /\ \A p \in Free : st[p] = "free"
      /\ Spawn(s, table, Free, st)
    BY DEF SupInv, TypeOK, Free, s
<1>4. SpawnPost(s, table)
  <2>1. SpawnPre(s, table, Free, st)
    BY <1>1, <1>2, <1>3 DEF SpawnPre, SupInv, TableExact
  <2> QED
    BY <1>3, <2>1, SpawnExact
<1>5. FwInv' /\ SpawnOrder' /\ Given \subseteq Svc
  <2>1. FwInv'
    BY DEF SupInv, FwInv, FwTypeOK, FwOrder, SeenErrorReported, fwVars
  <2>2. Given \subseteq Svc
    BY <1>1, ServicesFacts DEF Given, Svc
  <2> QED
    BY <2>1, <2>2 DEF SpawnOrder
<1>6. TypeOK'
    BY <1>1, <1>4, <1>5 DEF SupInv, TypeOK, FwInv, SpawnPost
<1>7. Partition'
  <2>1. \A u \in Svc : (\E p \in Pid : <<p, u>> \in table') => u \in Given'
    BY <1>1, <1>4 DEF SupInv, Partition, SpawnPost
  <2>2. lost' \subseteq Given'
    BY <1>1, <1>4 DEF SupInv, Partition, SpawnPost
  <2>3. \A u \in Given' : (\E p \in Pid : <<p, u>> \in table') <=> u \notin lost'
    BY <1>1, <1>4, <1>5 DEF SupInv, Partition, SpawnPost
  <2> QED
    BY <2>1, <2>2, <2>3 DEF Partition
<1> QED
    BY <1>4, <1>5, <1>6, <1>7 DEF SupInv, SpawnPost

\* A wait that returns: the dead service is respawned or lost, an orphan reaped.
LEMMA ReapInv == SupInv /\ Reap => SupInv'
<1> SUFFICES ASSUME SupInv, Reap PROVE SupInv'
    OBVIOUS
<1> USE DEF Reap
<1>1. FwInv' /\ SpawnOrder' /\ Given' = Given /\ Given \subseteq Svc
  <2>1. FwInv'
    BY DEF SupInv, FwInv, FwTypeOK, FwOrder, SeenErrorReported, fwVars
  <2>2. SpawnOrder'
    BY DEF SupInv, SpawnOrder
  <2>3. Given' = Given /\ Given \subseteq Svc
    BY ServicesFacts DEF SupInv, TypeOK, Given, Svc
  <2> QED
    BY <2>1, <2>2, <2>3
<1> PICK p \in Pid :
       /\ st[p] = "zombie"
       /\ \/ \E s \in Svc : <<p, s>> \in table /\ Respawn(p, s)
          \/ (\A s \in Svc : <<p, s>> \notin table) /\ ReapOnly(p)
    OBVIOUS
<1>2. Reaped(p) \in [Pid -> {"free", "run", "zombie"}] /\ st \in [Pid -> {"free", "run", "zombie"}]
    BY DEF Reaped, SupInv, TypeOK
<1>3. ASSUME NEW s \in Svc, <<p, s>> \in table, Respawn(p, s)
      PROVE  SupInv'
  <2> DEFINE t == table \ {<<p, s>>}
  <2>1. /\ t \in SUBSET (Pid \X Svc) /\ Free \cup {p} \in SUBSET Pid /\ TypeOK
        /\ \A q \in Free \cup {p} : Reaped(p)[q] = "free"
        /\ Spawn(s, t, Free \cup {p}, Reaped(p))
    BY <1>2, <1>3 DEF SupInv, TypeOK, Free, Reaped, Respawn
  <2>2. /\ \A q \in Pid, u \in Svc : <<q, u>> \in table <=> (st[q] # "free" /\ prog[q] = u)
        /\ \A q, r \in Pid, u \in Svc : <<q, u>> \in table /\ <<r, u>> \in table => q = r
    BY DEF SupInv, TableExact
  <2>3. s \notin lost /\ s \in Given
    BY <1>1, <1>3 DEF SupInv, Partition
  <2>4. \A q \in Pid : <<q, s>> \notin t
    BY <1>3, <2>2
  <2>5. ASSUME NEW q \in Pid, NEW u \in Svc
        PROVE  <<q, u>> \in t <=> (Reaped(p)[q] # "free" /\ prog[q] = u)
    <3>1. CASE q = p
        BY <1>2, <1>3, <2>2, <3>1 DEF Reaped
    <3>2. CASE q # p
        BY <1>2, <1>3, <2>2, <3>2 DEF Reaped
    <3> QED
        BY <3>1, <3>2
  <2>6. \A q, r \in Pid, u \in Svc : <<q, u>> \in t /\ <<r, u>> \in t => q = r
    BY <2>2
  <2>7. \A u \in Svc \ {s} : (\E q \in Pid : <<q, u>> \in t) <=> (\E q \in Pid : <<q, u>> \in table)
    OBVIOUS
  <2> HIDE DEF t
  <2>8. SpawnPost(s, t)
    <3>1. SpawnPre(s, t, Free \cup {p}, Reaped(p))
        BY <1>2, <1>3, <2>1, <2>3, <2>4, <2>5, <2>6 DEF SpawnPre
    <3> QED
        BY <2>1, <3>1, SpawnExact
  <2>9. Partition'
    <3>1. \A u \in Svc : (\E q \in Pid : <<q, u>> \in table') => u \in Given'
        BY <1>1, <2>3, <2>7, <2>8 DEF SupInv, Partition, SpawnPost
    <3>2. lost' \subseteq Given'
        BY <1>1, <2>3, <2>8 DEF SupInv, Partition, SpawnPost
    <3>3. \A u \in Given' : (\E q \in Pid : <<q, u>> \in table') <=> u \notin lost'
        BY <1>1, <2>3, <2>7, <2>8 DEF SupInv, Partition, SpawnPost
    <3> QED
        BY <3>1, <3>2, <3>3 DEF Partition
  <2>10. TypeOK'
    BY <1>1, <2>3, <2>8 DEF SupInv, TypeOK, FwInv, SpawnPost
  <2> QED
    BY <1>1, <2>8, <2>9, <2>10 DEF SupInv, SpawnPost
<1>4. ASSUME \A s \in Svc : <<p, s>> \notin table, ReapOnly(p)
      PROVE  SupInv'
  <2>1. TypeOK'
    BY <1>1, <1>2, <1>4 DEF SupInv, TypeOK, FwInv, ReapOnly
  <2>2. TableExact'
    BY <1>2, <1>4 DEF SupInv, TableExact, ReapOnly, Reaped
  <2>3. Partition'
    BY <1>1, <1>4 DEF SupInv, Partition, SpawnPost, ReapOnly
  <2> QED
    BY <1>1, <2>1, <2>2, <2>3 DEF SupInv
<1> QED
    BY <1>3, <1>4

\* The steps that change what the processes do, and no entry of the table:
\* exits, orphans, and the shutdown that sends SIGTERM to everybody.
LEMMA KernelInv == SupInv /\ (Exit \/ Reparent \/ Halt) => SupInv'
<1> SUFFICES ASSUME SupInv, Exit \/ Reparent \/ Halt PROVE SupInv'
    OBVIOUS
<1>1. UNCHANGED <<stop, next, table, lost, fwVars, forkFails>>
    BY DEF Exit, Reparent, Halt, bounds
<1>2. FwInv' /\ Partition'
    BY <1>1 DEF SupInv, FwInv, FwTypeOK, FwOrder, SeenErrorReported, fwVars, Partition, Given
<1>3. SpawnOrder'
    BY <1>1 DEF SupInv, SpawnOrder, Exit, Reparent, Halt
<1>4. /\ exits' \in 0 .. MaxExits /\ orphans' \in 0 .. MaxOrphans
      /\ pc' \in {"start", "network", "dhcp client", "fw", "fw wait", "wg", "spawn",
                  "top", "wait", "halt", "down"}
  <2>1. /\ exits' = exits \/ (exits < MaxExits /\ exits' = exits + 1)
        /\ orphans' = orphans \/ (orphans < MaxOrphans /\ orphans' = orphans + 1)
        /\ pc' = pc \/ pc' = "down"
    BY DEF Exit, Reparent, Halt, bounds
  <2>2. /\ MaxExits \in Nat /\ exits \in 0 .. MaxExits
        /\ MaxOrphans \in Nat /\ orphans \in 0 .. MaxOrphans
    BY SupervisorAssumption DEF SupInv, TypeOK
  <2>3. pc' \in {"start", "network", "dhcp client", "fw", "fw wait", "wg", "spawn",
                "top", "wait", "halt", "down"}
    BY <2>1 DEF SupInv, TypeOK
  <2> QED
    BY <2>1, <2>2, <2>3, CounterBound
<1>5. st' \in [Pid -> {"free", "run", "zombie"}] /\ prog' \in [Pid -> Svc \cup {Orphan}]
    BY DEF SupInv, TypeOK, Exit, Reparent, Halt, Free
<1>6. TableExact'
  <2>1. CASE Exit
    <3>1. PICK p \in Pid : st[p] = "run" /\ st' = [st EXCEPT ![p] = "zombie"]
        BY <2>1 DEF Exit
    <3>2. prog' = prog /\ st \in [Pid -> {"free", "run", "zombie"}]
        BY <2>1 DEF Exit, SupInv, TypeOK
    <3>3. \A q \in Pid : st'[q] # "free" <=> st[q] # "free"
        BY <3>1, <3>2
    <3> QED
        BY <1>1, <3>2, <3>3 DEF SupInv, TableExact
  <2>2. CASE Halt
    BY <1>1, <2>2 DEF Halt, SupInv, TypeOK, TableExact
  <2>3. CASE Reparent
    <3>1. PICK p \in Pid : /\ st[p] = "free"
                           /\ st' = [st EXCEPT ![p] = "run"] /\ prog' = [prog EXCEPT ![p] = Orphan]
        BY <2>3 DEF Reparent, Free
    <3>2. st \in [Pid -> {"free", "run", "zombie"}] /\ prog \in [Pid -> Svc \cup {Orphan}]
        BY DEF SupInv, TypeOK
    <3>3. \A q \in Pid : q # p => st'[q] = st[q] /\ prog'[q] = prog[q]
        BY <3>1, <3>2
    <3>4. prog'[p] = Orphan /\ Orphan \notin Svc
        BY <3>1, <3>2, SupervisorAssumption
    <3> QED
        BY <1>1, <3>1, <3>3, <3>4 DEF SupInv, TableExact
  <2> QED
    BY <2>1, <2>2, <2>3
<1>7. TypeOK'
    BY <1>1, <1>2, <1>4, <1>5 DEF SupInv, TypeOK, FwInv, SpawnPost
<1> QED
    BY <1>2, <1>3, <1>6, <1>7 DEF SupInv

\* The loop's own steps, and the signal.
LEMMA LoopInv == SupInv /\ (SpawnDone \/ CheckStop \/ WaitFails \/ Sigterm) => SupInv'
<1> SUFFICES ASSUME SupInv, SpawnDone \/ CheckStop \/ WaitFails \/ Sigterm PROVE SupInv'
    OBVIOUS
<1> USE DEF SpawnDone, CheckStop, WaitFails, Sigterm, Goto, kernel, bounds
<1>1. FwInv'
    BY DEF SupInv, FwInv, FwTypeOK, FwOrder, SeenErrorReported, fwVars
<1>2. SpawnOrder' /\ stop' \in BOOLEAN
    BY DEF SupInv, SpawnOrder, TypeOK
<1>3. pc' \in {"start", "network", "dhcp client", "fw", "fw wait", "wg", "spawn",
               "top", "wait", "halt", "down"}
    BY DEF SupInv, TypeOK
<1>4. UNCHANGED <<next, table, lost, st, prog, exits, orphans, forkFails>>
    OBVIOUS
<1>5. forkFails' \in 0 .. MaxForkFails
    BY <1>4 DEF SupInv, TypeOK
<1> QED
    BY <1>1, <1>2, <1>3, <1>4, <1>5, MoveInv

\* Every step keeps the invariant.
LEMMA SupNext == SupInv /\ [Next]_vars => SupInv'
<1> SUFFICES ASSUME SupInv, [Next]_vars PROVE SupInv'
    OBVIOUS
<1>1. CASE Next
    BY <1>1, BootInv, SpawnNextInv, ReapInv, KernelInv, LoopInv DEF Next, Supervise
<1>2. CASE UNCHANGED vars
  <2> USE <1>2 DEF vars, kernel, bounds, fwVars
  <2>1. FwInv' /\ SpawnOrder'
    BY DEF SupInv, FwInv, FwTypeOK, FwOrder, SeenErrorReported, SpawnOrder
  <2>2. /\ UNCHANGED <<next, table, lost, st, prog, exits, orphans>>
        /\ stop' \in BOOLEAN /\ forkFails' \in 0 .. MaxForkFails
        /\ pc' \in {"start", "network", "dhcp client", "fw", "fw wait", "wg", "spawn",
                    "top", "wait", "halt", "down"}
    BY DEF SupInv, TypeOK
  <2> QED
    BY <2>1, <2>2, MoveInv
<1> QED
    BY <1>1, <1>2

LEMMA SupInvariance == Spec => []SupInv
BY SupInit, SupNext, PTL DEF Spec

(* The table of `supervise`, the processes and the applet are well formed  *)
(* at all times (init.rs: supervise, run_oneshot; fw.rs: program).         *)
THEOREM SupervisorTypes == Spec => []TypeOK
BY SupInvariance, PTL DEF SupInv

(* PID 1's table is exactly the set of its service processes, for any      *)
(* number of services, pids, exits, failed forks and orphans: no death is  *)
(* taken for another's and no service runs twice (supervise, spawn).       *)
THEOREM SupervisorTable == Spec => []TableExact
BY SupInvariance, PTL DEF SupInv

(* In the loop, the services that are in the table are exactly those that  *)
(* no failed fork has taken out of it (supervise: spawn returns None).     *)
THEOREM SupervisorMissing == Spec => []MissingOnlyIfForkFailed
<1>1. SupInv => MissingOnlyIfForkFailed
    BY DEF SupInv, SpawnOrder, Partition, Given, Svc, MissingOnlyIfForkFailed
<1> QED
    BY <1>1, SupInvariance, PTL

(* `fw` exits 0 only after DrainLimit good answers, and reports every      *)
(* error among the answers it looks at, for every number of forwards       *)
(* (program).                                                              *)
THEOREM FwReports == Spec => []SeenErrorReported
BY SupInvariance, PTL DEF SupInv, FwInv

=============================================================================
