------------------------------- MODULE MCDns --------------------------------
(***************************************************************************)
(* The instance of Dns for TLC: a client whose address a restart of the    *)
(* server may move, and which sends one of two host names.  The first is   *)
(* the word asked for; the second is an empty line and then one that gives *)
(* this word an address which may not be leased.                           *)
(***************************************************************************)
EXTENDS Dns

MCPools == {[start |-> 0, count |-> 1], [start |-> 1, count |-> 1]}
MCReads == [h \in {1, 2} |->
              IF h = 1 THEN [word |-> 1, more |-> <<>>]
              ELSE [word |-> Blank, more |-> <<[ip |-> 1, word |-> 1]>>]]
=============================================================================
