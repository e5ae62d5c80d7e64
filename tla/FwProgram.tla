----------------------------- MODULE FwProgram ------------------------------
(***************************************************************************)
(* The `fw` applet (src/src/fw.rs): build one nf_tables batch, send it to  *)
(* the kernel, and drain the acknowledgements.                             *)
(*                                                                         *)
(* nl::open makes a blocking socket without a receive timeout, so          *)
(* nl::recv_ack returns only when the kernel has queued another answer.    *)
(***************************************************************************)
EXTENDS Integers

CONSTANTS
    Forwards,   \* the numbers of port forwards a configuration may hold
    DrainLimit  \* the bound of the loop in `program` (32 in the code)

ASSUME FwAssumption == Forwards \subseteq Nat /\ DrainLimit \in Nat \ {0}

VARIABLES
    fwpc,    \* "idle", "opened", "drain" or "exited"
    acks,    \* answers of the kernel not yet received
    errAt,   \* position of the first error among the answers, 0 if none
    iter,    \* iterations of the drain loop
    rc       \* exit status

fwVars == <<fwpc, acks, errAt, iter, rc>>

FwInit == fwpc = "idle" /\ acks = 0 /\ errAt = 0 /\ iter = 0 /\ rc = 0

\* build_ruleset: the messages of the batch that carry NLM_F_ACK, namely one table,
\* four chains, four input rules, two forward rules and one per port forward,
\* one DNAT rule per port forward and, unless disabled, one masquerade rule.
BatchAcks(n, masq) == 1 + 4 + 4 + (2 + n) + n + (IF masq THEN 1 ELSE 0)

\* nl::open fails: no NETLINK_NETFILTER in this kernel.
OpenFails ==
    /\ fwpc = "idle"
    /\ fwpc' = "exited" /\ rc' = 1
    /\ UNCHANGED <<acks, errAt, iter>>

Open ==
    /\ fwpc = "idle"
    /\ fwpc' = "opened"
    /\ UNCHANGED <<acks, errAt, iter, rc>>

\* nl::send.  The kernel handles the batch before sendto returns: it answers every
\* message that asked for it, with an error for those it rejects (and then
\* commits nothing), or it rejects the batch as a whole with one error.
Send ==
    /\ fwpc = "opened"
    /\ \/ \E n \in Forwards, masq \in BOOLEAN :
             acks' = BatchAcks(n, masq) /\ errAt' \in 0 .. BatchAcks(n, masq)
       \/ acks' = 1 /\ errAt' = 1
    /\ fwpc' = "drain"
    /\ UNCHANGED <<iter, rc>>

SendFails ==
    /\ fwpc = "opened"
    /\ fwpc' = "exited" /\ rc' = 1
    /\ UNCHANGED <<acks, errAt, iter>>

\* Mutant: the loop runs once more than its bound.
RecvAckOneMore ==
    /\ fwpc = "drain" /\ iter <= DrainLimit
    /\ acks > 0 /\ iter + 1 # errAt
    /\ acks' = acks - 1 /\ iter' = iter + 1
    /\ UNCHANGED <<fwpc, errAt, rc>>

\* recv_ack returns Ok: the answer at position iter + 1 is no error.
RecvAck ==
    /\ fwpc = "drain" /\ iter < DrainLimit
    /\ acks > 0 /\ iter + 1 # errAt
    /\ acks' = acks - 1 /\ iter' = iter + 1
    /\ UNCHANGED <<fwpc, errAt, rc>>

\* Mutant: the error ends the loop and is not returned.
RecvErrorDropped ==
    /\ fwpc = "drain" /\ iter < DrainLimit
    /\ acks > 0 /\ iter + 1 = errAt
    /\ acks' = acks - 1 /\ iter' = iter + 1
    /\ fwpc' = "exited" /\ rc' = 0
    /\ UNCHANGED errAt

\* Mutant: the loop goes on after an error, waiting for more answers.
RecvErrorContinues ==
    /\ fwpc = "drain" /\ iter < DrainLimit
    /\ acks > 0 /\ iter + 1 = errAt
    /\ acks' = acks - 1 /\ iter' = iter + 1
    /\ rc' = 1
    /\ UNCHANGED <<fwpc, errAt>>

\* recv_ack returns the error of a rejected message: leave the loop with it.
RecvError ==
    /\ fwpc = "drain" /\ iter < DrainLimit
    /\ acks > 0 /\ iter + 1 = errAt
    /\ acks' = acks - 1 /\ iter' = iter + 1
    /\ fwpc' = "exited" /\ rc' = 1
    /\ UNCHANGED errAt

\* recv itself fails (an overrun of the socket's buffer): the same.
RecvFails ==
    /\ fwpc = "drain" /\ iter < DrainLimit
    /\ fwpc' = "exited" /\ rc' = 1
    /\ UNCHANGED <<acks, errAt, iter>>

\* The loop ran DrainLimit times.
DrainEnds ==
    /\ fwpc = "drain" /\ iter = DrainLimit
    /\ fwpc' = "exited" /\ rc' = 0
    /\ UNCHANGED <<acks, errAt, iter>>

\* The applet runs whenever it can; recv does not have to fail.
FwRun  == OpenFails \/ Open \/ Send \/ SendFails \/ RecvAck \/ RecvError \/ DrainEnds
FwNext == FwRun \/ RecvFails

FwSpec == FwInit /\ [][FwNext]_fwVars /\ WF_fwVars(FwRun)

-----------------------------------------------------------------------------
(* The loop of `program` never runs more often than its bound.            *)
FwTypeOK ==
    /\ fwpc \in {"idle", "opened", "drain", "exited"}
    /\ acks \in Nat /\ errAt \in Nat
    /\ iter \in 0 .. DrainLimit /\ rc \in {0, 1}

(* An error among the answers the loop gets to see is reported, and a run  *)
(* that reports success has seen DrainLimit good answers (`program`).      *)
SeenErrorReported ==
    fwpc = "exited" =>
        /\ errAt \in 1 .. DrainLimit => rc = 1
        /\ rc = 0 => iter = DrainLimit /\ errAt \notin 1 .. iter
=============================================================================
