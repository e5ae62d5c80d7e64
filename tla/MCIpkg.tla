------------------------------- MODULE MCIpkg -------------------------------
EXTENDS Ipkg

\* "a" has two builds, the newer drops a file; "b" shares a path with it.
MCOf == [b \in {"a1", "a2", "b1"} |-> IF b = "b1" THEN "b" ELSE "a"]

MCMembers ==
    [b \in {"a1", "a2", "b1"} |->
        CASE b = "a1" -> <<"./x", "/usr/xs">> [] b = "a2" -> <<"/x">> [] b = "b1" -> <<"./usr/xs", "/usr/x">>]

\* ./x is b's file /usr/x for a remove that is run in /usr; /usr/xs may be cut to its name.
MCNames     == {"./x", "/x", "./usr/xs", "/usr/xs", "/usr/x"}
MCSanitized == [n \in MCNames |-> CASE n \in {"./x", "/x"} -> "x" [] n = "/usr/x" -> "y" [] OTHER -> "s"]
MCCuts      == [n \in MCNames |-> IF n = "/usr/xs" THEN {"/usr/x"} ELSE {}]
MCResolved  ==
    [n \in MCNames |-> [d \in {"/", "/usr"} |->
        IF d = "/usr" /\ n = "./x" THEN "y" ELSE IF d = "/usr" /\ n = "./usr/xs" THEN Elsewhere
        ELSE MCSanitized[n]]]
=============================================================================
