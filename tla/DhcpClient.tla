----------------------------- MODULE DhcpClient -----------------------------
(***************************************************************************)
(* `dhcp client` of src/src/dhcp.rs, one run for each of some hardware     *)
(* addresses, against the server of DhcpServer over UDP broadcast; the     *)
(* other hardware addresses belong to machines that send anything.         *)
(*                                                                         *)
(* The network may lose, repeat, delay and reorder packets: a packet once  *)
(* sent stays available, and nobody is obliged to receive it.  A client    *)
(* tells replies apart by its transaction id alone, which stands for the   *)
(* client here.                                                            *)
(***************************************************************************)
EXTENDS DhcpServer

CONSTANT Clients   \* the hardware addresses of `dhcp client`

ASSUME ClientAssumption == Clients \subseteq Mac

VARIABLES
    net,    \* requests sent so far
    phase,  \* "start", "selecting", "requesting", "configured" or "failed"
    offer,  \* yiaddr of the OFFER the client took
    conf,   \* address given to net::configure
    acked   \* history: yiaddr of the ACK the client took

cliVars == <<net, phase, offer, conf, acked>>
vars    == <<srvVars, cliVars>>

Init ==
    /\ SrvInit
    /\ net = {}
    /\ phase = [m \in Clients |-> "start"]
    /\ offer = [m \in Clients |-> None]
    /\ conf = [m \in Clients |-> None]
    /\ acked = [m \in Clients |-> None]

Broadcast(type, m, ip) == net' = net \cup {[type |-> type, mac |-> m, ip |-> ip]}

\* The socket is bound and DISCOVER sent, without a requested address.
SendDiscover(m) ==
    /\ phase[m] = "start" /\ phase' = [phase EXCEPT ![m] = "selecting"]
    /\ Broadcast("DISCOVER", m, None)
    /\ UNCHANGED <<srvVars, offer, conf, acked>>

\* Mutant: any OFFER will do.
TakeAnyOffer(m) ==
    /\ phase[m] = "selecting" /\ phase' = [phase EXCEPT ![m] = "requesting"]
    /\ \E r \in replies :
          /\ r.type = "OFFER"
          /\ offer' = [offer EXCEPT ![m] = r.ip]
          /\ Broadcast("REQUEST", m, r.ip)
    /\ UNCHANGED <<srvVars, conf, acked>>

\* The first OFFER with our xid; REQUEST what it offers.
TakeOffer(m) ==
    /\ phase[m] = "selecting" /\ phase' = [phase EXCEPT ![m] = "requesting"]
    /\ \E r \in replies :
          /\ r.type = "OFFER" /\ r.mac = m
          /\ offer' = [offer EXCEPT ![m] = r.ip]
          /\ Broadcast("REQUEST", m, r.ip)
    /\ UNCHANGED <<srvVars, conf, acked>>

\* The first ACK with our xid (parse_ack skips everything else, a NAK too).
\* The interface gets the address of the OFFER; net::configure may fail.
TakeAck(m) ==
    /\ phase[m] = "requesting"
    /\ \E r \in replies :
          /\ r.type = "ACK" /\ r.mac = m
          /\ acked' = [acked EXCEPT ![m] = r.ip]
    /\ \/ /\ phase' = [phase EXCEPT ![m] = "configured"]
          /\ conf' = [conf EXCEPT ![m] = offer[m]]
       \/ phase' = [phase EXCEPT ![m] = "failed"] /\ UNCHANGED conf
    /\ UNCHANGED <<srvVars, net, offer>>

\* bind or send fails, or five seconds pass without a packet: exit status 1.
GiveUp(m) ==
    /\ phase[m] \in {"start", "selecting", "requesting"}
    /\ phase' = [phase EXCEPT ![m] = "failed"]
    /\ UNCHANGED <<srvVars, net, offer, conf, acked>>

\* The server receives a request from the network.  The client sends no host name.
Receive(p) ==
    /\ \/ p.type = "DISCOVER" /\ Discover(p.mac, p.ip, None)
       \/ p.type = "REQUEST" /\ (RequestAck(p.mac, p.ip, None) \/ RequestNak(p.mac, p.ip))
    /\ UNCHANGED cliVars

Next ==
    \/ SrvStep /\ UNCHANGED cliVars
    \/ \E p \in net : Receive(p)
    \/ \E m \in Mac \ Clients, req \in Addr \cup {None}, host \in Host \cup {None} :
           Handle(m, req, host) /\ UNCHANGED cliVars
    \/ \E m \in Clients : SendDiscover(m) \/ TakeOffer(m) \/ TakeAck(m) \/ GiveUp(m)

Spec == Init /\ [][Next]_vars

-----------------------------------------------------------------------------
Configured(m) == phase[m] = "configured"

(* Server and clients hold well-formed data: every address offered,        *)
(* acknowledged or configured has the width of an address.                 *)
TypeOK ==
    /\ SrvTypeOK
    /\ net \subseteq [type : {"DISCOVER", "REQUEST"}, mac : Mac, ip : Addr \cup {None}]
    /\ phase \in [Clients -> {"start", "selecting", "requesting", "configured", "failed"}]
    /\ {offer, conf, acked} \subseteq [Clients -> Addr \cup {None}]

(* While the server keeps running, the address on the interface is the one *)
(* it acknowledged, although the client configures what the OFFER said and *)
(* does not look at the address in the ACK.  (After a restart between the  *)
(* two the addresses may differ.)                                          *)
ConfiguredIsAcked == epoch = 0 => \A m \in Clients : Configured(m) => conf[m] = acked[m]

(* Two clients of one server never bring up the same address, whatever is  *)
(* lost, repeated or delayed, while the server keeps running.              *)
NoSharedAddress ==
    epoch = 0 => \A m, n \in Clients : Configured(m) /\ Configured(n) /\ m # n => conf[m] # conf[n]

=============================================================================
