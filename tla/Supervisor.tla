----------------------------- MODULE Supervisor -----------------------------
(***************************************************************************)
(* PID 1 (src/src/init.rs): the boot sequence with its one-shot children,  *)
(* then the supervise loop over the service applets, and the SIGTERM that  *)
(* asks for a reboot.                                                      *)
(*                                                                         *)
(* The kernel is modelled as far as init uses it: processes that exit stay *)
(* zombies until waited for, a pid is free for reuse once its process has  *)
(* been reaped, fork may fail, and orphans are reparented to PID 1.        *)
(* libc::signal installs handlers with SA_RESTART, so a SIGTERM that       *)
(* arrives during waitpid runs the handler and the wait goes on.           *)
(***************************************************************************)
EXTENDS FwProgram, Sequences, FiniteSets

CONSTANTS
    SERVICES,      \* the applets to keep alive, in order
    Pid,           \* process ids
    MaxExits,      \* bound on the exits of supervised processes and orphans
    MaxForkFails,  \* bound on the failures of fork
    MaxOrphans     \* bound on the orphans reparented to PID 1

Svc    == {SERVICES[i] : i \in 1 .. Len(SERVICES)}
Orphan == "orphan"

\* No applet is listed twice.
ASSUME SupervisorAssumption ==
    /\ SERVICES \in Seq(STRING) /\ Orphan \notin Svc
    /\ \A i, j \in 1 .. Len(SERVICES) : SERVICES[i] = SERVICES[j] => i = j
    /\ {MaxExits, MaxForkFails, MaxOrphans} \subseteq Nat
    /\ Cardinality(Pid) >= Len(SERVICES) + MaxOrphans

VARIABLES
    pc,       \* where PID 1 is
    stop,     \* STOP
    next,     \* how many of SERVICES have been given to the initial spawn
    table,    \* `pids`: the <<pid, service>> pairs
    st,       \* process state: "free", "run" or "zombie"
    prog,     \* what the process runs: a service, or Orphan
    exits, forkFails, orphans,   \* bound counters
    lost      \* history: services that a failed fork took out of the table

kernel  == <<st, prog>>
bounds  == <<exits, forkFails, orphans>>
vars    == <<pc, stop, next, table, kernel, bounds, lost, fwVars>>

Init ==
    /\ pc = "start" /\ stop = FALSE /\ next = 0 /\ table = {}
    /\ st = [p \in Pid |-> "free"] /\ prog = [p \in Pid |-> Orphan]
    /\ exits = 0 /\ forkFails = 0 /\ orphans = 0
    /\ lost = {}
    /\ FwInit

-----------------------------------------------------------------------------
(* run: handler, mounts, network, one-shots.                               *)

Goto(from, to) ==
    /\ pc = from /\ pc' = to
    /\ UNCHANGED <<stop, next, table, kernel, lost, exits, orphans>>

\* The handler is installed and the file systems are mounted; a mount that
\* fails is reported and skipped.
Start == Goto("start", "network") /\ UNCHANGED <<forkFails, fwVars>>

\* bring_up_network: lo and LAN; then WAN, either set directly (static, or an
\* unknown proto that is reported) or by the one-shot `dhcp client`.
NetworkDirect == Goto("network", "fw") /\ UNCHANGED <<forkFails, fwVars>>
NetworkDhcp   == Goto("network", "dhcp client") /\ UNCHANGED <<forkFails, fwVars>>

\* run_oneshot for an applet that exits by itself: fork, exec, waitpid(pid).
OneshotDone(from, to) == Goto(from, to) /\ UNCHANGED <<forkFails, fwVars>>

DhcpClient == OneshotDone("dhcp client", "fw")

\* run_oneshot(["fw"]): the applet's own steps, then waitpid returns.
FwStart == Goto("fw", "fw wait") /\ UNCHANGED <<forkFails, fwVars>>

FwStep ==
    /\ pc = "fw wait" /\ FwRun
    /\ UNCHANGED <<pc, stop, next, table, kernel, bounds, lost>>

FwRecvFails ==
    /\ pc = "fw wait" /\ RecvFails
    /\ UNCHANGED <<pc, stop, next, table, kernel, bounds, lost>>

\* The status is ignored, and the applet's memory is gone.
FwDone ==
    /\ fwpc = "exited" /\ Goto("fw wait", "wg")
    /\ fwpc' = "idle" /\ acks' = 0 /\ errAt' = 0 /\ iter' = 0 /\ rc' = 0
    /\ UNCHANGED forkFails

\* run_oneshot(["wg", "up"]), or the configuration leaves it out.
Wg == OneshotDone("wg", "spawn")

\* fork fails in run_oneshot: the applet is reported and skipped.
OneshotForkFails ==
    /\ forkFails < MaxForkFails /\ forkFails' = forkFails + 1
    /\ \/ Goto("network", "fw") \/ Goto("fw", "wg") \/ Goto("wg", "spawn")
    /\ UNCHANGED fwVars

-----------------------------------------------------------------------------
(* spawn and supervise.                                                    *)

\* spawn(s) when the pids in `free` can be had: the child runs under a pid the
\* kernel picks and joins the table `t`, or fork fails and the service does not.
Spawn(s, t, free, states) ==
    \/ \E p \in free :
          /\ st' = [states EXCEPT ![p] = "run"]
          /\ prog' = [prog EXCEPT ![p] = s]
          /\ table' = t \cup {<<p, s>>}
          /\ UNCHANGED <<forkFails, lost>>
    \/ /\ forkFails < MaxForkFails /\ forkFails' = forkFails + 1
       /\ st' = states /\ prog' = prog
       /\ table' = t
       /\ lost' = lost \cup {s}

Free == {p \in Pid : st[p] = "free"}

SpawnNext ==
    /\ pc = "spawn" /\ next < Len(SERVICES)
    /\ Spawn(SERVICES[next + 1], table, Free, st)
    /\ next' = next + 1
    /\ UNCHANGED <<pc, stop, exits, orphans, fwVars>>

SpawnDone == next = Len(SERVICES) /\ Goto("spawn", "top") /\ UNCHANGED <<forkFails, fwVars>>

\* Mutant: STOP is not looked at.
CheckNothing ==
    /\ pc = "top" /\ pc' = "wait"
    /\ UNCHANGED <<stop, next, table, kernel, bounds, lost, fwVars>>

\* The top of the loop: STOP ends it, otherwise waitpid(-1).
CheckStop ==
    /\ pc = "top"
    /\ pc' = IF stop THEN "halt" ELSE "wait"
    /\ UNCHANGED <<stop, next, table, kernel, bounds, lost, fwVars>>

Reaped(p) == [st EXCEPT ![p] = "free"]

\* The dead process p ran no service of the table: nothing but the wait.
ReapOnly(p) ==
    /\ st' = Reaped(p)
    /\ UNCHANGED <<prog, table, forkFails, lost>>

\* Mutant: the entry of the dead process stays in the table.
RespawnKeepsEntry(p, s) == Spawn(s, table, Free \cup {p}, Reaped(p))

\* Mutant: the service is forgotten instead of respawned.
RespawnNot(p, s) ==
    /\ st' = Reaped(p) /\ table' = table \ {<<p, s>>}
    /\ UNCHANGED <<prog, forkFails, lost>>

\* Mutant: no respawn once STOP is set, although the loop may still go round.
RespawnUnlessStop(p, s) ==
    \/ stop /\ RespawnNot(p, s)
    \/ ~stop /\ Spawn(s, table \ {<<p, s>>}, Free \cup {p}, Reaped(p))

\* p served s: out of the table, and a new process for s.
Respawn(p, s) == Spawn(s, table \ {<<p, s>>}, Free \cup {p}, Reaped(p))

\* waitpid returns a zombie.  A service in the table is respawned; any other
\* child (an orphan) is only reaped.
Reap ==
    /\ pc = "wait" /\ pc' = "top"
    /\ \E p \in Pid :
          /\ st[p] = "zombie"
          /\ \/ \E s \in Svc : <<p, s>> \in table /\ Respawn(p, s)
             \/ (\A s \in Svc : <<p, s>> \notin table) /\ ReapOnly(p)
    /\ UNCHANGED <<stop, next, exits, orphans, fwVars>>

\* waitpid fails with ECHILD: there is no child left to wait for.
WaitFails ==
    /\ \A p \in Pid : st[p] = "free"
    /\ Goto("wait", "top") /\ UNCHANGED <<forkFails, fwVars>>

\* kill(-1, SIGTERM), then reboot.
Halt ==
    /\ pc = "halt" /\ pc' = "down"
    /\ st' = [p \in Pid |-> IF st[p] = "run" THEN "zombie" ELSE st[p]]
    /\ UNCHANGED <<stop, next, table, prog, bounds, lost, fwVars>>

-----------------------------------------------------------------------------
(* The rest of the system.                                                 *)

\* A service or an orphan exits: a crash, a panic (abort), or `return 1`.
Exit ==
    /\ pc # "down" /\ exits < MaxExits /\ exits' = exits + 1
    /\ \E p \in Pid : st[p] = "run" /\ st' = [st EXCEPT ![p] = "zombie"]
    /\ UNCHANGED <<pc, stop, next, table, prog, forkFails, orphans, lost, fwVars>>

\* A process whose parent exited becomes a child of PID 1.
Reparent ==
    /\ pc \in {"spawn", "top", "wait"} /\ orphans < MaxOrphans /\ orphans' = orphans + 1
    /\ \E p \in Free : /\ st' = [st EXCEPT ![p] = "run"]
                       /\ prog' = [prog EXCEPT ![p] = Orphan]
    /\ UNCHANGED <<pc, stop, next, table, exits, forkFails, lost, fwVars>>

\* Somebody (httpd on POST /ui/reboot) sends SIGTERM to PID 1: on_term.
Sigterm ==
    /\ pc \notin {"start", "down"} /\ ~stop
    /\ stop' = TRUE
    /\ UNCHANGED <<pc, next, table, kernel, bounds, lost, fwVars>>

-----------------------------------------------------------------------------
Boot == \/ Start \/ NetworkDirect \/ NetworkDhcp \/ DhcpClient
        \/ FwStart \/ FwStep \/ FwDone \/ Wg
Supervise == SpawnNext \/ SpawnDone \/ CheckStop \/ Reap \/ WaitFails \/ Halt

Next == Boot \/ OneshotForkFails \/ FwRecvFails \/ Supervise \/ Exit \/ Reparent \/ Sigterm

\* PID 1 and its one-shots run whenever they can; nothing has to fail, exit
\* or be signalled.
Spec == Init /\ [][Next]_vars /\ WF_vars(Boot) /\ WF_vars(Supervise)

-----------------------------------------------------------------------------
Running(s) == \E p \in Pid : st[p] = "run" /\ prog[p] = s

(* What PID 1, the kernel and the fw applet hold is well formed: the table *)
(* of `supervise` names pids and entries of SERVICES only.                 *)
TypeOK ==
    /\ pc \in {"start", "network", "dhcp client", "fw", "fw wait", "wg", "spawn",
               "top", "wait", "halt", "down"}
    /\ stop \in BOOLEAN /\ next \in 0 .. Len(SERVICES)
    /\ table \subseteq Pid \X Svc
    /\ st \in [Pid -> {"free", "run", "zombie"}]
    /\ prog \in [Pid -> Svc \cup {Orphan}]
    /\ exits \in 0 .. MaxExits /\ forkFails \in 0 .. MaxForkFails /\ orphans \in 0 .. MaxOrphans
    /\ lost \subseteq Svc
    /\ FwTypeOK

(* The table of `supervise` is exactly the set of service processes the    *)
(* kernel still knows, although pids are reused and orphans come and go.   *)
(* A death is therefore never taken for the death of another process, and  *)
(* no service ever runs twice.                                             *)
TableExact ==
    /\ \A p \in Pid, s \in Svc :
          <<p, s>> \in table <=> (st[p] # "free" /\ prog[p] = s)
    /\ \A p, q \in Pid, s \in Svc : <<p, s>> \in table /\ <<q, s>> \in table => p = q

(* A service is missing from the table only after a failed fork.           *)
MissingOnlyIfForkFailed ==
    pc \in {"top", "wait", "halt"} =>
        \A s \in Svc : (\E p \in Pid : <<p, s>> \in table) <=> s \notin lost

(* A service that exits runs again, unless fork failed for it or the       *)
(* system goes down.                                                       *)
Respawned ==
    \A s \in Svc : (\E p \in Pid : <<p, s>> \in table /\ st[p] = "zombie")
                       ~> (Running(s) \/ s \in lost \/ pc = "down")

(* With STOP set, the exit of any child wakes the wait and the system goes *)
(* down.                                                                   *)
StopSeenAtNextExit ==
    (stop /\ pc = "wait" /\ \E p \in Pid : st[p] = "zombie") ~> (pc = "down")

(* The boot gets past the one-shot `fw` whenever the kernel has an answer  *)
(* for every iteration of the applet's drain loop, or an error that ends   *)
(* it: run_oneshot waits for the applet without a timeout.                 *)
BootPastFw ==
    (fwpc = "drain" /\ (iter + acks >= DrainLimit \/ errAt # 0)) ~> (pc = "spawn")

(* A requested reboot happens: "Rebooting... this page will stop           *)
(* responding for a moment" (httpd.rs), "Graceful-ish shutdown: tell       *)
(* everyone to go, then reboot" (init.rs).                                 *)
StopReboots == (stop /\ pc = "wait") ~> (pc = "down")

(* "brings up the network from /etc/lwrt/config, then supervises the       *)
(* long-running service applets": the loop is reached.                     *)
BootCompletes == <>(pc \in {"top", "wait", "halt"})
=============================================================================
