------------------------------- MODULE MCDhcp -------------------------------
(***************************************************************************)
(* The instance of DhcpClient for TLC: a pool that wraps around the end of *)
(* the address space, and one that is too small for the clients.  The host *)
(* name that the other machines send has a second line.                    *)
(***************************************************************************)
EXTENDS DhcpClient

MCPools == {[start |-> 3, count |-> 2], [start |-> 1, count |-> 1], [start |-> 1, count |-> 2]}
MCReads == [h \in {1} |-> [word |-> 1, more |-> <<[ip |-> 0, word |-> 1]>>]]
=============================================================================
