------------------------------- MODULE Leases --------------------------------
(***************************************************************************)
(* What a DHCP server promises, without saying how: an address of the pool *)
(* is leased to at most one client, a client keeps the address it was told *)
(* and is turned away only when the whole pool is leased to others.  The   *)
(* server keeps nothing on disk, so a restart may forget everything, and   *)
(* then forgets all of it.                                                 *)
(***************************************************************************)
CONSTANTS Client, Address, NoAddress

VARIABLES
    pool,     \* addresses that may be leased
    lease,    \* client -> its address, or NoAddress
    told,     \* the <<client, address>> pairs replied since the last restart
    refused   \* clients turned away since the last restart

vars == <<pool, lease, told, refused>>

Nothing == lease = [c \in Client |-> NoAddress] /\ told = {} /\ refused = {}

Init == pool \subseteq Address /\ Nothing

Leased(a) == \E c \in Client : lease[c] = a

\* Client c is told that its address is a, which it has or gets now.
Promise(c, a) ==
    /\ lease[c] = a \/ (lease[c] = NoAddress /\ a \in pool /\ ~Leased(a))
    /\ a # NoAddress
    /\ lease' = [lease EXCEPT ![c] = a]
    /\ told' = told \cup {<<c, a>>}
    /\ UNCHANGED <<pool, refused>>

Refuse(c) ==
    /\ lease[c] = NoAddress /\ \A a \in pool : Leased(a)
    /\ refused' = refused \cup {c}
    /\ UNCHANGED <<pool, lease, told>>

Forget ==
    /\ pool' \subseteq Address
    /\ lease' = [c \in Client |-> NoAddress] /\ told' = {} /\ refused' = {}

Next ==
    \/ \E c \in Client : Refuse(c)
    \/ \E c \in Client, a \in Address : Promise(c, a)
    \/ Forget

Spec == Init /\ [][Next]_vars

-----------------------------------------------------------------------------
(* Two replies name the same client exactly when they name the same        *)
(* address: nobody is told an address that another was told, and nobody is *)
(* told two.  A client that was turned away has no lease, and cannot get   *)
(* one, as the whole pool is leased to others.                             *)
PromisesKept ==
    /\ \A t, u \in told : t[1] = u[1] <=> t[2] = u[2]
    /\ \A c \in refused : lease[c] = NoAddress /\ \A a \in pool : Leased(a)
=============================================================================
