-------------------------------- MODULE Ubus --------------------------------
(***************************************************************************)
(* The message broker of src/src/ubus.rs.                                  *)
(*                                                                         *)
(* The broker runs one handler thread per connection; every thread works   *)
(* on one `Bus` behind one mutex.  A thread reads a line, takes the lock,  *)
(* changes the Bus, and writes the resulting frames to the sockets WHILE   *)
(* IT HOLDS THE LOCK, so a client that does not read stops every thread    *)
(* once its socket buffer is full.                                         *)
(*                                                                         *)
(* A handler is therefore one Handle* step (take the lock, change the Bus, *)
(* fix the frames to be written) and then one Write* step per frame; the   *)
(* last one unlocks.  Clients are the environment: they send lines, read   *)
(* frames, answer the invocations they read, and close, in any order.      *)
(***************************************************************************)
EXTENDS Integers, Sequences, FiniteSets

CONSTANTS
    MaxConn,   \* bound on the connections ever accepted
    MaxReq,    \* bound on the calls ever routed to a provider
    MaxLine,   \* bound on the lines clients send of their own accord
    LineCap,   \* lines a client-to-broker socket buffer holds
    FrameCap,  \* frames a broker-to-client socket buffer holds
    Path,      \* object paths
    Method,    \* method names
    NoPath,    \* the empty path
    Builtins,  \* the <<path, method>> pairs of builtin_call
    Requests   \* the lines a client may send of its own accord

Conn  == 1 .. MaxConn
ReqId == 1 .. MaxReq
None  == 0                 \* no connection; also the id `as_u64` falls back to

\* One line of JSON from a client.  What the broker does not look at is left out.
Line ==
    [op : {"list", "send", "listen", "unknown", "badjson", "badutf8", "blank"}]
      \cup [op : {"call"}, path : Path, method : Method]
      \cup [op : {"add"}, path : Path, methods : SUBSET Method]
      \cup [op : {"reply"}, id : Nat]

ASSUME BoundsAssumption ==
    /\ {MaxConn, MaxReq, MaxLine} \subseteq Nat
    /\ MaxLine <= MaxReq       \* so that the bound on calls never stops a thread
    /\ {LineCap, FrameCap} \subseteq Nat \ {0}

ASSUME RequestsAssumption ==
    /\ NoPath \in Path
    /\ Builtins \subseteq Path \X Method
    /\ Requests \subseteq Line

\* One frame from the broker.  `id` is the call an "invoke" or a "result"
\* belongs to and the number of an "event"; the other kinds carry 0.
Answers == {"objects", "status", "err1", "err2", "result"}
Frame   == [kind : Answers \cup {"invoke", "event"}, id : Nat]
Object  == [path : Path, methods : SUBSET Method, owner : Conn]

VARIABLES
    \* struct Bus
    objects,    \* registered objects
    conns,      \* the connections with a write handle
    listeners,  \* the connections subscribed to events
    pending,    \* in-flight call id -> its caller, None when absent
    nextConn,   \* the last connection id given out
    nextReq,    \* the last call id given out
    \* Mutex<Bus>
    lock,       \* the connection whose thread holds the mutex, or None
    fan,        \* the listeners that thread has still to write the event to
    last,       \* the frame it writes last, and to whom
    \* sockets and clients
    up,         \* the client's end: "none", "open" or "closed"
    lines,      \* client-to-broker socket buffer
    inbox,      \* broker-to-client socket buffer
    todo,       \* invocations a client has read and not yet answered
    sent,       \* lines sent so far
    \* history
    owed,       \* answers the broker owes each connection
    caller,     \* call id -> the connection that made the call
    provider,   \* call id -> the connection the call was routed to
    events,     \* events broadcast so far
    got         \* number of the last event put into each inbox

bus     == <<objects, conns, listeners, pending, nextConn, nextReq>>
mutex   == <<lock, fan, last>>
clients == <<up, todo, sent>>
history == <<owed, caller, provider, events, got>>
vars    == <<bus, mutex, clients, lines, inbox, history>>

Init ==
    /\ objects = {} /\ conns = {} /\ listeners = {}
    /\ pending = [r \in ReqId |-> None]
    /\ nextConn = 0 /\ nextReq = 0
    /\ lock = None /\ fan = {} /\ last = [to |-> None, kind |-> "status", id |-> 0]
    /\ up = [c \in Conn |-> "none"]
    /\ lines = [c \in Conn |-> <<>>]
    /\ inbox = [c \in Conn |-> <<>>]
    /\ todo = [c \in Conn |-> {}]
    /\ sent = 0
    /\ owed = [c \in Conn |-> 0]
    /\ caller = [r \in ReqId |-> None]
    /\ provider = [r \in ReqId |-> None]
    /\ events = 0
    /\ got = [c \in Conn |-> 0]

-----------------------------------------------------------------------------
(* The clients (not part of the broker).                                   *)

\* A client writes a line of its own accord, once there is room for it.
ClientSend(c) ==
    /\ up[c] = "open" /\ Len(lines[c]) < LineCap /\ sent < MaxLine
    /\ \E l \in Requests : lines' = [lines EXCEPT ![c] = Append(@, l)]
    /\ sent' = sent + 1
    /\ UNCHANGED <<bus, mutex, up, inbox, todo, history>>

\* A provider answers an invocation it has read.
ClientReply(c) ==
    /\ up[c] = "open" /\ Len(lines[c]) < LineCap
    /\ \E r \in todo[c] :
          /\ lines' = [lines EXCEPT ![c] = Append(@, [op |-> "reply", id |-> r])]
          /\ todo' = [todo EXCEPT ![c] = @ \ {r}]
    /\ UNCHANGED <<bus, mutex, up, inbox, sent, history>>

\* A client reads one frame.
ClientRead(c) ==
    /\ up[c] = "open" /\ inbox[c] # <<>>
    /\ inbox' = [inbox EXCEPT ![c] = Tail(@)]
    /\ todo' = IF Head(inbox[c]).kind = "invoke"
               THEN [todo EXCEPT ![c] = @ \cup {Head(inbox[c]).id}]
               ELSE todo
    /\ UNCHANGED <<bus, mutex, up, lines, sent, history>>

\* A client closes its end (or dies).  Lines already written stay readable.
ClientClose(c) ==
    /\ up[c] = "open"
    /\ up' = [up EXCEPT ![c] = "closed"]
    /\ inbox' = [inbox EXCEPT ![c] = <<>>]
    /\ todo' = [todo EXCEPT ![c] = {}]
    /\ UNCHANGED <<bus, mutex, lines, sent, history>>

-----------------------------------------------------------------------------
(* Bus::send_to and the critical section.                                  *)

\* Mutant: the write to a peer that is gone waits like any other.
DeliverWaits(t, frame) ==
    IF t \in conns
    THEN /\ Len(inbox[t]) < FrameCap
         /\ inbox' = [inbox EXCEPT ![t] = Append(@, frame)]
    ELSE UNCHANGED inbox

\* write_all to t's socket: it waits for room, it fails at once (and the error
\* is dropped) when the peer is gone, and it does nothing for an unknown id.
Deliver(t, frame) ==
    IF t \in conns /\ up[t] = "open"
    THEN /\ Len(inbox[t]) < FrameCap
         /\ inbox' = [inbox EXCEPT ![t] = Append(@, frame)]
    ELSE UNCHANGED inbox

\* The thread of c takes the next line off its socket and then the mutex.
Take(c, op) ==
    /\ lock = None /\ c \in conns
    /\ lines[c] # <<>> /\ Head(lines[c]).op = op
    /\ lines' = [lines EXCEPT ![c] = Tail(@)]
    /\ UNCHANGED <<clients, inbox, conns, nextConn>>

\* The thread of c keeps the mutex to write an event to `targets`, then the
\* frame <<kind, id>> to `to`.
Hold(c, targets, to, kind, id) ==
    /\ lock' = c
    /\ fan' = targets
    /\ last' = [to |-> to, kind |-> kind, id |-> id]

Answer(c, kind) == Hold(c, {}, c, kind, 0)

Owes(c) == owed' = [owed EXCEPT ![c] = @ + 1]

WriteEvent(t) ==
    /\ lock # None /\ t \in fan
    /\ Deliver(t, [kind |-> "event", id |-> events])
    /\ fan' = fan \ {t}
    /\ got' = [got EXCEPT ![t] = events]
    /\ UNCHANGED <<bus, lock, last, clients, lines, owed, caller, provider, events>>

\* The last frame is written and the guard goes out of scope: unlock.
WriteLast ==
    /\ lock # None /\ fan = {}
    /\ Deliver(last.to, [kind |-> last.kind, id |-> last.id])
    /\ lock' = None
    /\ owed' = IF last.kind \in Answers THEN [owed EXCEPT ![last.to] = @ - 1] ELSE owed
    /\ UNCHANGED <<bus, fan, last, clients, lines, caller, provider, events, got>>

-----------------------------------------------------------------------------
(* handle_conn: registration and clean-up of a connection.                 *)

\* Mutant: the write handle is stored before the id is incremented.
AcceptStaleId ==
    /\ lock = None /\ nextConn < MaxConn
    /\ nextConn' = nextConn + 1
    /\ conns' = conns \cup {nextConn}
    /\ up' = [up EXCEPT ![nextConn + 1] = "open"]
    /\ UNCHANGED <<objects, listeners, pending, nextReq, mutex, todo, sent, lines, inbox, history>>

Accept ==
    /\ lock = None /\ nextConn < MaxConn
    /\ nextConn' = nextConn + 1
    /\ conns' = conns \cup {nextConn + 1}
    /\ up' = [up EXCEPT ![nextConn + 1] = "open"]
    /\ UNCHANGED <<objects, listeners, pending, nextReq, mutex, todo, sent, lines, inbox, history>>

\* A blank line is skipped.
SkipBlank(c) ==
    /\ lock # c /\ c \in conns
    /\ lines[c] # <<>> /\ Head(lines[c]).op = "blank"
    /\ lines' = [lines EXCEPT ![c] = Tail(@)]
    /\ UNCHANGED <<bus, mutex, clients, inbox, history>>

\* Mutant: the objects of the connection stay registered.
CleanUpKeepsObjects(c) ==
    /\ conns' = conns \ {c}
    /\ listeners' = listeners \ {c}
    /\ UNCHANGED objects

\* End of file after the last buffered line, or a line that is not UTF-8, ends
\* the loop; the clean-up is one critical section.  With the write handle the
\* socket goes, so that a client that is still there is cut off.
CleanUp(c) ==
    /\ conns' = conns \ {c}
    /\ listeners' = listeners \ {c}
    /\ objects' = {o \in objects : o.owner # c}

Drop(c) ==
    /\ lock = None /\ c \in conns
    /\ \/ lines[c] = <<>> /\ up[c] = "closed"
       \/ lines[c] # <<>> /\ Head(lines[c]).op = "badutf8"
    /\ CleanUp(c)
    /\ up' = [up EXCEPT ![c] = "closed"]
    /\ inbox' = [inbox EXCEPT ![c] = <<>>]
    /\ todo' = [todo EXCEPT ![c] = {}]
    /\ UNCHANGED <<pending, nextConn, nextReq, mutex, sent, lines, history>>

-----------------------------------------------------------------------------
(* handle_request, one action per `op`.                                    *)

HandleList(c) ==
    /\ Take(c, "list")
    /\ Answer(c, "objects") /\ Owes(c)
    /\ UNCHANGED <<objects, listeners, pending, nextReq, caller, provider, events, got>>

\* objects.iter().find(..): the order of the Vec cannot matter, because
\* no two objects share a path (RegistryConsistent).
Serves(o, path, method) == o.path = path /\ method \in o.methods

HandleCallBuiltin(c) ==
    /\ Take(c, "call")
    /\ <<Head(lines[c]).path, Head(lines[c]).method>> \in Builtins
    /\ Answer(c, "result") /\ Owes(c)
    /\ UNCHANGED <<objects, listeners, pending, nextReq, caller, provider, events, got>>

\* Mutant: the id is the number of calls in flight plus one.
RouteReusesId(c, o) ==
    LET r == Cardinality({q \in ReqId : pending[q] # None}) + 1 IN
      /\ nextReq' = nextReq + 1
      /\ pending' = [pending EXCEPT ![r] = c]
      /\ Hold(c, {}, o.owner, "invoke", r)
      /\ caller' = [caller EXCEPT ![r] = c]
      /\ provider' = [provider EXCEPT ![r] = o.owner]

\* Mutant: the invocation carries the counter as it was before the increment.
RouteStaleId(c, o) ==
    /\ nextReq' = nextReq + 1
    /\ pending' = [pending EXCEPT ![nextReq + 1] = c]
    /\ Hold(c, {}, o.owner, "invoke", nextReq)
    /\ caller' = [caller EXCEPT ![nextReq + 1] = c]
    /\ provider' = [provider EXCEPT ![nextReq + 1] = o.owner]

\* A fresh id, remembered with its caller, goes to the owner of the object.
Route(c, o) ==
    /\ nextReq' = nextReq + 1
    /\ pending' = [pending EXCEPT ![nextReq + 1] = c]
    /\ Hold(c, {}, o.owner, "invoke", nextReq + 1)
    /\ caller' = [caller EXCEPT ![nextReq + 1] = c]
    /\ provider' = [provider EXCEPT ![nextReq + 1] = o.owner]

HandleCallRouted(c) ==
    /\ Take(c, "call")
    /\ <<Head(lines[c]).path, Head(lines[c]).method>> \notin Builtins
    /\ nextReq < MaxReq       \* the bound
    /\ \E o \in objects :
          Serves(o, Head(lines[c]).path, Head(lines[c]).method) /\ Route(c, o)
    /\ Owes(c)
    /\ UNCHANGED <<objects, listeners, events, got>>

HandleCallNotFound(c) ==
    /\ Take(c, "call")
    /\ <<Head(lines[c]).path, Head(lines[c]).method>> \notin Builtins
    /\ \A o \in objects : ~Serves(o, Head(lines[c]).path, Head(lines[c]).method)
    /\ Answer(c, "err2") /\ Owes(c)
    /\ UNCHANGED <<objects, listeners, pending, nextReq, caller, provider, events, got>>

\* Mutant: the entry is looked up and not removed.
HandleReplyKeeps(c) ==
    /\ Take(c, "reply")
    /\ LET r == Head(lines[c]).id IN
         IF r \in ReqId /\ pending[r] # None
         THEN Hold(c, {}, pending[r], "result", r)
         ELSE UNCHANGED mutex
    /\ UNCHANGED <<objects, listeners, pending, nextReq, history>>

\* Whoever replies, the caller recorded for the id gets the result; a reply to
\* an id that is not (or no longer) pending is ignored.
HandleReply(c) ==
    /\ Take(c, "reply")
    /\ LET r == Head(lines[c]).id IN
         IF r \in ReqId /\ pending[r] # None
         THEN /\ pending' = [pending EXCEPT ![r] = None]
              /\ Hold(c, {}, pending[r], "result", r)
         ELSE UNCHANGED <<pending, mutex>>
    /\ UNCHANGED <<objects, listeners, nextReq, history>>

HandleAdd(c) ==
    /\ Take(c, "add")
    /\ LET l == Head(lines[c]) IN
         IF l.path = NoPath
         THEN Answer(c, "err1") /\ UNCHANGED objects
         ELSE /\ objects' = {o \in objects : o.path # l.path}
                              \cup {[path |-> l.path, methods |-> l.methods, owner |-> c]}
              /\ Answer(c, "status")
    /\ Owes(c)
    /\ UNCHANGED <<listeners, pending, nextReq, caller, provider, events, got>>

\* Mutant: the sender is left out of the broadcast.
HandleSendSkipsSelf(c) ==
    /\ Take(c, "send")
    /\ events' = events + 1
    /\ Hold(c, listeners \ {c}, c, "status", 0) /\ Owes(c)
    /\ UNCHANGED <<objects, listeners, pending, nextReq, caller, provider, got>>

HandleSend(c) ==
    /\ Take(c, "send")
    /\ events' = events + 1
    /\ Hold(c, listeners, c, "status", 0) /\ Owes(c)
    /\ UNCHANGED <<objects, listeners, pending, nextReq, caller, provider, got>>

HandleListen(c) ==
    /\ Take(c, "listen")
    /\ listeners' = listeners \cup {c}
    /\ got' = [got EXCEPT ![c] = IF c \in listeners THEN @ ELSE events]
    /\ Answer(c, "status") /\ Owes(c)
    /\ UNCHANGED <<objects, pending, nextReq, caller, provider, events>>

\* An unknown op, or a line that is not JSON: the same status to the same client.
HandleOther(c) ==
    /\ Take(c, "unknown") \/ Take(c, "badjson")
    /\ Answer(c, "err1") /\ Owes(c)
    /\ UNCHANGED <<objects, listeners, pending, nextReq, caller, provider, events, got>>

-----------------------------------------------------------------------------
Handle(c) ==
    \/ HandleList(c)
    \/ HandleCallBuiltin(c) \/ HandleCallRouted(c) \/ HandleCallNotFound(c)
    \/ HandleReply(c) \/ HandleAdd(c)
    \/ HandleSend(c) \/ HandleListen(c) \/ HandleOther(c)

Client(c) == ClientSend(c) \/ ClientReply(c) \/ ClientRead(c) \/ ClientClose(c)

Next ==
    \/ Accept
    \/ WriteLast
    \/ \E c \in Conn : Handle(c) \/ SkipBlank(c) \/ WriteEvent(c) \/ Drop(c) \/ Client(c)

Spec == Init /\ [][Next]_vars

\* Threads that can run do run.  With finitely many lines weak fairness is
\* enough for the mutex: nobody can be overtaken for ever.  Clients keep
\* reading and providers answer what they read; nobody has to send or close.
Fairness ==
    /\ WF_vars(WriteLast)
    /\ \A c \in Conn :
          /\ WF_vars(Handle(c)) /\ WF_vars(SkipBlank(c))
          /\ WF_vars(WriteEvent(c)) /\ WF_vars(Drop(c))
          /\ WF_vars(ClientRead(c)) /\ WF_vars(ClientReply(c))

FairSpec == Spec /\ Fairness
-----------------------------------------------------------------------------
(* Properties.                                                             *)

BusType ==
    /\ objects \subseteq Object
    /\ conns \subseteq Conn /\ listeners \subseteq Conn
    /\ pending \in [ReqId -> Conn \cup {None}]
    /\ nextConn \in 0 .. MaxConn /\ nextReq \in 0 .. MaxReq

MutexType ==
    /\ lock \in Conn \cup {None} /\ fan \subseteq Conn
    /\ last \in [to : Conn \cup {None}, kind : Answers \cup {"invoke"}, id : Nat]

SocketType ==
    /\ up \in [Conn -> {"none", "open", "closed"}]
    /\ lines \in [Conn -> Seq(Line)]
    /\ inbox \in [Conn -> Seq(Frame)]
    /\ todo \in [Conn -> SUBSET Nat]
    /\ sent \in Nat

HistoryType ==
    /\ owed \in [Conn -> Int]
    /\ caller \in [ReqId -> Conn \cup {None}]
    /\ provider \in [ReqId -> Conn \cup {None}]
    /\ events \in Nat
    /\ got \in [Conn -> Nat]

(* The Bus and the sockets hold well-formed data; in particular `pending`, *)
(* the subscriptions and the registry hold only ids the broker gave out.   *)
TypeOK == BusType /\ MutexType /\ SocketType /\ HistoryType

(* Whatever the order of add, close and call: no two objects share a path  *)
(* ("last registration wins", handle_request "add"), and every object and  *)
(* every subscription belongs to a connection that is still registered, so *)
(* no call is ever routed to a connection that handle_conn has cleaned up. *)
RegistryConsistent ==
    /\ \A o1, o2 \in objects : o1.path = o2.path => o1 = o2
    /\ \A o \in objects : o.owner \in conns
    /\ listeners \subseteq conns
    /\ \A c \in Conn : up[c] = "open" => c \in conns

PendingOf(c) == {r \in ReqId : pending[r] = c}

(* The broker gives exactly one answer to every request line but a reply:  *)
(* what it still owes a connection is the answer being written under the   *)
(* lock, if any, plus one per call of that connection in `pending`.  A     *)
(* late, duplicated or made-up reply therefore adds no answer, and no      *)
(* answer is skipped (handle_request; `request` reads exactly one line).   *)
ExactlyOneAnswer ==
    \A c \in Conn :
        owed[c] = Cardinality(PendingOf(c))
                    + (IF lock # None /\ last.to = c /\ last.kind \in Answers THEN 1 ELSE 0)

(* Call ids are never reused, so a result can only reach the connection    *)
(* that made the call and an invocation only the provider it was routed    *)
(* to, and a call with a result in somebody's buffer is no longer pending. *)
CallsRouted ==
    /\ \A r \in ReqId : pending[r] # None => pending[r] = caller[r]
    /\ \A c \in Conn :
        /\ \A r \in todo[c] : provider[r] = c
        /\ \A i \in 1 .. Len(inbox[c]) :
            LET f == inbox[c][i] IN
              /\ f.kind = "invoke" => f.id \in ReqId /\ provider[f.id] = c
              /\ f.kind = "result" /\ f.id # 0 =>
                    f.id \in ReqId /\ caller[f.id] = c /\ pending[f.id] = None

(* Broadcast is totally ordered: the fan-out happens under the lock, so a  *)
(* subscriber misses no event sent after it subscribed, and events sit in  *)
(* every buffer in the order in which they were sent.                      *)
EventsInOrder ==
    \A c \in Conn :
        /\ c \in listeners => got[c] = (IF c \in fan THEN events - 1 ELSE events)
        /\ \A i, j \in 1 .. Len(inbox[c]) :
              i < j /\ inbox[c][i].kind = "event" /\ inbox[c][j].kind = "event"
                => inbox[c][i].id < inbox[c][j].id

\* The strengthenings that make the three invariants above inductive: an id
\* above the counter is unused, the frame about to be written is routed
\* right, and only the thread that holds the lock has an event to fan out.
Fresh ==
    \A r \in ReqId : r > nextReq => pending[r] = None /\ caller[r] = None /\ provider[r] = None

LastRouted ==
    lock # None =>
        /\ last.kind = "invoke" => last.id \in ReqId /\ provider[last.id] = last.to
        /\ last.kind = "result" /\ last.id # 0 =>
              last.id \in ReqId /\ caller[last.id] = last.to /\ pending[last.id] = None

EventsBounded ==
    /\ fan \subseteq listeners
    /\ lock = None => fan = {}
    /\ \A c \in Conn :
        /\ got[c] <= events
        /\ \A i \in 1 .. Len(inbox[c]) : inbox[c][i].kind = "event" => inbox[c][i].id <= got[c]

CallsInv  == Fresh /\ LastRouted /\ CallsRouted
EventsInv == EventsBounded /\ EventsInOrder

(* A critical section ends although frames are written inside it, provided *)
(* every client keeps reading (send_to under the lock).                    *)
LockReleased == (lock # None) ~> (lock = None)

(* A routed call is answered unless its caller or its provider goes away:  *)
(* the only thing that leaves a caller waiting is the death of a provider. *)
EveryCallSettles ==
    \A r \in ReqId :
        (pending[r] # None) ~>
            \/ pending[r] = None
            \/ up[caller[r]] = "closed"
            \/ up[provider[r]] = "closed"
=============================================================================
