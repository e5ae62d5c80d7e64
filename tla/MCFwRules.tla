------------------------------ MODULE MCFwRules ------------------------------
(***************************************************************************)
(* The instance of FwRules for TLC: no forwards; two forwards of one port  *)
(* with a malformed entry between them; the same port sent elsewhere, one  *)
(* sent to the router itself and one to a host outside.                    *)
(***************************************************************************)
EXTENDS FwRules

To(host, port) == [proto |-> "tcp", dport |-> 1, dest |-> host, destPort |-> port]

MCConfigs ==
    { [masq |-> TRUE, forward |-> <<>>],
      [masq |-> TRUE, forward |-> <<To("a", 2), Bad, To("b", 2)>>],
      [masq |-> FALSE, forward |-> <<[To("r", 1) EXCEPT !.proto = "udp"], To("b", 1),
                                     [To("f", 1) EXCEPT !.proto = "udp", !.dport = 2]>>] }
=============================================================================
