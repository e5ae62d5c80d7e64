------------------------------- MODULE MCUbus -------------------------------
(***************************************************************************)
(* The instance of Ubus for TLC: the request lines it draws from.          *)
(***************************************************************************)
EXTENDS Ubus

MCPath     == {"", "system", "net"}
MCMethod   == {"board", "up"}
MCBuiltins == {<<"system", "board">>}

Call(p, m) == [op |-> "call", path |-> p, method |-> m]
Add(p, ms) == [op |-> "add", path |-> p, methods |-> ms]
Reply(r)   == [op |-> "reply", id |-> r]

\* Every kind of line, a reply nobody asked for and the error paths included.
AllRequests ==
    {Add("net", {"up"}), Add("", {"up"}), Call("net", "up"), Call("system", "board"), Reply(1)}
      \cup [op : {"list", "send", "listen", "unknown", "badjson", "badutf8", "blank"}]
=============================================================================
