----------------------------- MODULE UbusProofs -----------------------------
(***************************************************************************)
(* Proofs about the broker, for every number of connections, calls, lines, *)
(* paths and methods and every socket buffer size.                         *)
(***************************************************************************)
EXTENDS Ubus, FiniteSetTheorems, TLAPS

\* The fields of a line, by its op.
LEMMA LineFields ==
    ASSUME NEW l \in Line
    PROVE  /\ l.op = "call" => l.path \in Path /\ l.method \in Method
           /\ l.op = "add" => l.path \in Path /\ l.methods \in SUBSET Method
           /\ l.op = "reply" => l.id \in Nat
BY DEF Line

\* Taking the first element of a buffer leaves a buffer.
LEMMA HeadTail ==
    ASSUME NEW S, NEW s \in Seq(S), s # <<>>
    PROVE  Head(s) \in S /\ Tail(s) \in Seq(S)
OBVIOUS

-----------------------------------------------------------------------------
(* Types.                                                                  *)

LEMMA InitType == Init => TypeOK
<1> SUFFICES ASSUME Init PROVE TypeOK
  OBVIOUS
<1> USE DEF Init, None
<1>1. BusType
  BY BoundsAssumption DEF BusType
<1>2. MutexType
  BY DEF MutexType, Answers
<1>3. SocketType
  BY DEF SocketType
<1>4. HistoryType
  BY DEF HistoryType
<1> QED  BY <1>1, <1>2, <1>3, <1>4 DEF TypeOK

LEMMA TakeType ==
    ASSUME TypeOK, NEW c \in Conn, NEW op, Take(c, op)
    PROVE  /\ Head(lines[c]) \in Line /\ Head(lines[c]).op = op
           /\ SocketType'
           /\ lock = None /\ c \in conns
           /\ UNCHANGED <<up, todo, sent, inbox, conns, nextConn>>
<1>1. lines[c] \in Seq(Line) /\ lines[c] # <<>>
  BY DEF TypeOK, SocketType, Take
<1>2. Head(lines[c]) \in Line /\ Tail(lines[c]) \in Seq(Line)
  BY <1>1, HeadTail
<1>3. UNCHANGED <<up, todo, sent, inbox, conns, nextConn>>
  BY DEF Take, clients
<1>4. lines' = [lines EXCEPT ![c] = Tail(lines[c])]
  BY DEF Take
<1>5. SocketType'
  BY <1>2, <1>3, <1>4 DEF TypeOK, SocketType
<1> QED  BY <1>2, <1>3, <1>5 DEF Take

\* Deliver keeps the buffers typed.
LEMMA DeliverType ==
    ASSUME TypeOK, NEW t \in Conn \cup {None}, NEW f \in Frame, Deliver(t, f)
    PROVE  inbox' \in [Conn -> Seq(Frame)]
<1>1. inbox \in [Conn -> Seq(Frame)] /\ conns \subseteq Conn
  BY DEF TypeOK, SocketType, BusType
<1>2. CASE t \in conns /\ up[t] = "open"
  <2>1. inbox' = [inbox EXCEPT ![t] = Append(inbox[t], f)] /\ t \in Conn
    BY <1>1, <1>2 DEF Deliver
  <2> QED  BY <1>1, <2>1
<1>3. CASE ~(t \in conns /\ up[t] = "open")
  BY <1>1, <1>3 DEF Deliver
<1> QED  BY <1>2, <1>3

\* An answer of the thread of c leaves the mutex and the debts typed.
LEMMA HoldType ==
    ASSUME TypeOK, NEW c \in Conn, NEW to \in Conn \cup {None},
           NEW targets \in SUBSET Conn, NEW kind \in Answers \cup {"invoke"}, NEW id \in Nat,
           Hold(c, targets, to, kind, id)
    PROVE  MutexType'
BY DEF Hold, MutexType

LEMMA AnswerType ==
    ASSUME TypeOK, NEW c \in Conn, NEW kind \in Answers, Answer(c, kind)
    PROVE  MutexType'
BY HoldType DEF Answer

LEMMA OwesType ==
    ASSUME TypeOK, NEW c \in Conn, Owes(c), UNCHANGED <<caller, provider>>,
           events' \in Nat, got' \in [Conn -> Nat]
    PROVE  HistoryType'
<1>1. owed \in [Conn -> Int] /\ owed' = [owed EXCEPT ![c] = owed[c] + 1]
  BY DEF TypeOK, HistoryType, Owes
<1>2. owed' \in [Conn -> Int]
  BY <1>1
<1> QED  BY <1>2 DEF TypeOK, HistoryType

\* The broker's data structures keep their types: in particular every id it
\* stores is an id it gave out.
LEMMA StepType == TypeOK /\ [Next]_vars => TypeOK'
<1> SUFFICES ASSUME TypeOK, [Next]_vars PROVE TypeOK'
  OBVIOUS
<1>0. BusType /\ MutexType /\ SocketType /\ HistoryType
  BY DEF TypeOK
<1>a. Answers = {"objects", "status", "err1", "err2", "result"}
  BY DEF Answers
<1>b. events \in Nat /\ got \in [Conn -> Nat]
  BY <1>0 DEF HistoryType
<1>1. CASE Accept
  <2>1. nextConn + 1 \in Conn
    BY <1>0, <1>1, BoundsAssumption DEF Accept, BusType, Conn
  <2>2. BusType'
    BY <1>0, <1>1, <2>1, BoundsAssumption DEF Accept, BusType, Conn
  <2>3. SocketType'
    BY <1>0, <1>1, <2>1 DEF Accept, SocketType
  <2>4. UNCHANGED mutex /\ UNCHANGED history
    BY <1>1 DEF Accept
  <2>5. MutexType' /\ HistoryType'
    BY <1>0, <2>4 DEF mutex, history, MutexType, HistoryType
  <2> QED  BY <2>2, <2>3, <2>5 DEF TypeOK
<1>2. CASE WriteLast
  <2>1. last \in [to : Conn \cup {None}, kind : Answers \cup {"invoke"}, id : Nat]
    BY <1>0 DEF MutexType
  <2>2. [kind |-> last.kind, id |-> last.id] \in Frame
    BY <2>1 DEF Frame
  <2>3. inbox' \in [Conn -> Seq(Frame)]
    BY <1>2, <2>1, <2>2, DeliverType DEF WriteLast
  <2>4. owed' \in [Conn -> Int]
    <3>1. owed \in [Conn -> Int]
      BY <1>0 DEF HistoryType
    <3>2. CASE last.kind \in Answers /\ last.to \in Conn
      <4>1. owed' = [owed EXCEPT ![last.to] = owed[last.to] - 1]
        BY <1>2, <3>2 DEF WriteLast
      <4> QED  BY <3>1, <3>2, <4>1
    <3>3. CASE ~(last.kind \in Answers /\ last.to \in Conn)
      <4>1. owed' = owed
        BY <1>2, <3>1, <3>3 DEF WriteLast
      <4> QED  BY <3>1, <4>1
    <3> QED  BY <3>2, <3>3
  <2>5. BusType'
    BY <1>0, <1>2 DEF WriteLast, bus, BusType
  <2>6. MutexType'
    BY <1>0, <1>2 DEF WriteLast, MutexType
  <2>7. SocketType'
    BY <1>0, <1>2, <2>3 DEF WriteLast, clients, SocketType
  <2>8. HistoryType'
    BY <1>0, <1>2, <2>4 DEF WriteLast, HistoryType
  <2> QED  BY <2>5, <2>6, <2>7, <2>8 DEF TypeOK
<1>3. ASSUME NEW c \in Conn, Handle(c) PROVE TypeOK'
  <2>0. ASSUME NEW op, Take(c, op), UNCHANGED <<objects, listeners, pending, nextReq>>
        PROVE  BusType' /\ SocketType'
    BY <1>0, <2>0, TakeType DEF BusType
  <2>1. CASE HandleList(c)
    <3>1. MutexType'
      BY <1>a, <2>1, AnswerType DEF HandleList
    <3>2. HistoryType'
      BY <1>b, <2>1, OwesType DEF HandleList
    <3> QED  BY <2>0, <2>1, <3>1, <3>2 DEF HandleList, TypeOK
  <2>2. CASE HandleCallBuiltin(c)
    <3>1. MutexType'
      BY <1>a, <2>2, AnswerType DEF HandleCallBuiltin
    <3>2. HistoryType'
      BY <1>b, <2>2, OwesType DEF HandleCallBuiltin
    <3> QED  BY <2>0, <2>2, <3>1, <3>2 DEF HandleCallBuiltin, TypeOK
  <2>3. CASE HandleCallRouted(c)
    <3>1. PICK o \in objects :
            /\ nextReq' = nextReq + 1
            /\ pending' = [pending EXCEPT ![nextReq + 1] = c]
            /\ Hold(c, {}, o.owner, "invoke", nextReq + 1)
            /\ caller' = [caller EXCEPT ![nextReq + 1] = c]
            /\ provider' = [provider EXCEPT ![nextReq + 1] = o.owner]
      BY <2>3 DEF HandleCallRouted, Route
    <3>2. o.owner \in Conn
      BY <1>0 DEF BusType, Object
    <3>3. nextReq + 1 \in ReqId /\ nextReq' \in 0 .. MaxReq /\ nextReq + 1 \in Nat
      BY <1>0, <2>3, <3>1, BoundsAssumption DEF HandleCallRouted, Route, BusType, ReqId
    <3>4. MutexType'
      BY <3>1, <3>2, <3>3, HoldType
    <3>5. Take(c, "call") /\ Owes(c) /\ UNCHANGED <<objects, listeners, events, got>>
      BY <2>3 DEF HandleCallRouted, Route
    <3>6. BusType' /\ SocketType'
      BY <1>0, <3>1, <3>3, <3>5, TakeType DEF BusType
    <3>7. owed' \in [Conn -> Int]
      BY <1>0, <3>5 DEF Owes, HistoryType
    <3>8. caller' \in [ReqId -> Conn \cup {None}] /\ provider' \in [ReqId -> Conn \cup {None}]
      BY <1>0, <3>1, <3>2, <3>3 DEF HistoryType
    <3> QED  BY <1>b, <3>4, <3>5, <3>6, <3>7, <3>8 DEF TypeOK, HistoryType
  <2>4. CASE HandleCallNotFound(c)
    <3>1. MutexType'
      BY <1>a, <2>4, AnswerType DEF HandleCallNotFound
    <3>2. HistoryType'
      BY <1>b, <2>4, OwesType DEF HandleCallNotFound
    <3> QED  BY <2>0, <2>4, <3>1, <3>2 DEF HandleCallNotFound, TypeOK
  <2>5. CASE HandleReply(c)
    <3> DEFINE r == Head(lines[c]).id
    <3>1. Take(c, "reply") /\ UNCHANGED <<objects, listeners, nextReq>> /\ UNCHANGED history
      BY <2>5 DEF HandleReply
    <3>2. HistoryType'
      BY <1>0, <3>1 DEF history, HistoryType
    <3>3. CASE r \in ReqId /\ pending[r] # None
      <4>1. pending' = [pending EXCEPT ![r] = None] /\ Hold(c, {}, pending[r], "result", r)
        BY <2>5, <3>3 DEF HandleReply
      <4>2. r \in Nat
        BY <3>3, BoundsAssumption DEF ReqId
      <4>3. pending[r] \in Conn \cup {None}
        BY <1>0, <3>3 DEF BusType
      <4>4. MutexType'
        BY <1>a, <4>1, <4>2, <4>3, HoldType
      <4>5. BusType' /\ SocketType'
        BY <1>0, <3>1, <3>3, <4>1, TakeType DEF BusType
      <4> QED  BY <3>2, <4>4, <4>5 DEF TypeOK
    <3>4. CASE ~(r \in ReqId /\ pending[r] # None)
      <4>1. UNCHANGED pending /\ UNCHANGED mutex
        BY <2>5, <3>4 DEF HandleReply
      <4>2. MutexType'
        BY <1>0, <4>1 DEF mutex, MutexType
      <4> QED  BY <2>0, <3>1, <3>2, <4>1, <4>2 DEF TypeOK
    <3> QED  BY <3>3, <3>4
  <2>6. CASE HandleAdd(c)
    <3> DEFINE l == Head(lines[c])
    <3>1. /\ Take(c, "add") /\ Owes(c)
          /\ UNCHANGED <<listeners, pending, nextReq, caller, provider, events, got>>
          /\ Answer(c, "err1") \/ Answer(c, "status")
      BY <2>6 DEF HandleAdd
    <3>2. l.path \in Path /\ l.methods \in SUBSET Method
      BY <3>1, TakeType, LineFields
    <3>3. [path |-> l.path, methods |-> l.methods, owner |-> c] \in Object
      BY <3>2 DEF Object
    <3>4. objects' \subseteq Object
      BY <1>0, <2>6, <3>3 DEF HandleAdd, BusType
    <3>5. BusType' /\ SocketType'
      BY <1>0, <3>1, <3>4, TakeType DEF BusType
    <3>6. MutexType'
      BY <1>a, <3>1, AnswerType
    <3>7. HistoryType'
      BY <1>b, <3>1, OwesType
    <3> QED  BY <3>5, <3>6, <3>7 DEF TypeOK
  <2>7. CASE HandleSend(c)
    <3>1. MutexType'
      BY <1>0, <1>a, <2>7, HoldType DEF HandleSend, BusType
    <3>2. HistoryType'
      BY <1>b, <2>7, OwesType DEF HandleSend
    <3> QED  BY <2>0, <2>7, <3>1, <3>2 DEF HandleSend, TypeOK
  <2>8. CASE HandleListen(c)
    <3>1. MutexType'
      BY <1>a, <2>8, AnswerType DEF HandleListen
    <3>2. got' \in [Conn -> Nat]
      BY <1>b, <2>8 DEF HandleListen
    <3>3. HistoryType'
      BY <1>b, <2>8, <3>2, OwesType DEF HandleListen
    <3>4. BusType' /\ SocketType'
      BY <1>0, <2>8, TakeType DEF HandleListen, BusType
    <3> QED  BY <3>1, <3>3, <3>4 DEF TypeOK
  <2>9. CASE HandleOther(c)
    <3>1. MutexType'
      BY <1>a, <2>9, AnswerType DEF HandleOther
    <3>2. HistoryType'
      BY <1>b, <2>9, OwesType DEF HandleOther
    <3> QED  BY <2>0, <2>9, <3>1, <3>2 DEF HandleOther, TypeOK
  <2> QED  BY <1>3, <2>1, <2>2, <2>3, <2>4, <2>5, <2>6, <2>7, <2>8, <2>9 DEF Handle
<1>4. ASSUME NEW c \in Conn, WriteEvent(c) PROVE TypeOK'
  <2>1. [kind |-> "event", id |-> events] \in Frame
    BY <1>b DEF Frame
  <2>2. inbox' \in [Conn -> Seq(Frame)]
    BY <1>4, <2>1, DeliverType DEF WriteEvent
  <2>3. BusType' /\ MutexType'
    BY <1>0, <1>4 DEF WriteEvent, bus, BusType, MutexType
  <2>4. SocketType'
    BY <1>0, <1>4, <2>2 DEF WriteEvent, clients, SocketType
  <2>5. HistoryType'
    BY <1>0, <1>4 DEF WriteEvent, HistoryType
  <2> QED  BY <2>3, <2>4, <2>5 DEF TypeOK
<1>5. ASSUME NEW c \in Conn, Drop(c) PROVE TypeOK'
  <2>1. BusType'
    BY <1>0, <1>5 DEF Drop, CleanUp, BusType
  <2>2. MutexType' /\ SocketType'
    BY <1>0, <1>5 DEF Drop, mutex, MutexType, SocketType
  <2>3. HistoryType'
    BY <1>0, <1>5 DEF Drop, history, HistoryType
  <2> QED  BY <2>1, <2>2, <2>3 DEF TypeOK
<1>s. ASSUME NEW c \in Conn, SkipBlank(c) PROVE TypeOK'
  <2>1. lines[c] \in Seq(Line) /\ lines[c] # <<>>
    BY <1>0, <1>s DEF SkipBlank, SocketType
  <2>2. Tail(lines[c]) \in Seq(Line)
    BY <2>1, HeadTail
  <2>3. SocketType'
    BY <1>0, <1>s, <2>2 DEF SkipBlank, clients, SocketType
  <2>4. BusType' /\ MutexType'
    BY <1>0, <1>s DEF SkipBlank, bus, mutex, BusType, MutexType
  <2>5. HistoryType'
    BY <1>0, <1>s DEF SkipBlank, history, HistoryType
  <2> QED  BY <2>3, <2>4, <2>5 DEF TypeOK
<1>6. ASSUME NEW c \in Conn, Client(c) PROVE TypeOK'
  <2>0. BusType' /\ MutexType' /\ HistoryType'
    <3>1. UNCHANGED bus /\ UNCHANGED mutex /\ UNCHANGED history
      BY <1>6 DEF Client, ClientSend, ClientReply, ClientRead, ClientClose
    <3>2. BusType'
      BY <1>0, <3>1 DEF bus, BusType
    <3>3. MutexType'
      BY <1>0, <3>1 DEF mutex, MutexType
    <3>4. HistoryType'
      BY <1>0, <3>1 DEF history, HistoryType
    <3> QED  BY <3>2, <3>3, <3>4
  <2>1. CASE ClientSend(c)
    BY <1>0, <2>0, <2>1, RequestsAssumption DEF ClientSend, SocketType, TypeOK
  <2>2. CASE ClientReply(c)
    <3>1. PICK r \in todo[c] :
            /\ lines' = [lines EXCEPT ![c] = Append(lines[c], [op |-> "reply", id |-> r])]
            /\ todo' = [todo EXCEPT ![c] = todo[c] \ {r}]
      BY <2>2 DEF ClientReply
    <3>2. r \in Nat
      BY <1>0 DEF SocketType
    <3>3. [op |-> "reply", id |-> r] \in Line
      BY <3>2 DEF Line
    <3>4. lines' \in [Conn -> Seq(Line)] /\ todo' \in [Conn -> SUBSET Nat]
      BY <1>0, <3>1, <3>3 DEF SocketType
    <3> QED  BY <1>0, <2>0, <2>2, <3>4 DEF ClientReply, SocketType, TypeOK
  <2>3. CASE ClientRead(c)
    <3>1. inbox[c] \in Seq(Frame) /\ inbox[c] # <<>>
      BY <1>0, <2>3 DEF ClientRead, SocketType
    <3>2. Head(inbox[c]) \in Frame /\ Tail(inbox[c]) \in Seq(Frame)
      BY <3>1, HeadTail
    <3> QED  BY <1>0, <2>0, <2>3, <3>2 DEF ClientRead, SocketType, TypeOK, Frame
  <2>4. CASE ClientClose(c)
    BY <1>0, <2>0, <2>4 DEF ClientClose, SocketType, TypeOK
  <2> QED  BY <1>6, <2>1, <2>2, <2>3, <2>4 DEF Client
<1>7. CASE UNCHANGED vars
  <2>1. UNCHANGED bus /\ UNCHANGED mutex /\ UNCHANGED clients /\ UNCHANGED <<lines, inbox>> /\ UNCHANGED history
    BY <1>7 DEF vars
  <2>2. BusType' /\ MutexType' /\ SocketType'
    BY <1>0, <2>1 DEF bus, mutex, clients, BusType, MutexType, SocketType
  <2>3. HistoryType'
    BY <1>0, <2>1 DEF history, HistoryType
  <2> QED  BY <2>2, <2>3 DEF TypeOK
<1> QED  BY <1>1, <1>2, <1>3, <1>4, <1>5, <1>s, <1>6, <1>7 DEF Next

(* Type correctness of the broker, and with it that `pending`, the         *)
(* registry and the subscriptions only hold connection ids given out.      *)
THEOREM TypeCorrect == Spec => []TypeOK
<1>1. Init => TypeOK
  BY InitType
<1>2. TypeOK /\ [Next]_vars => TypeOK'
  BY StepType
<1> QED  BY <1>1, <1>2, PTL DEF Spec

-----------------------------------------------------------------------------
(* The registry.                                                           *)

\* Every step keeps the registry consistent: the three actions that matter are
\* Accept (a fresh id), Drop (the clean-up section) and HandleAdd.
LEMMA StepRegistry ==
    TypeOK /\ RegistryConsistent /\ [Next]_vars => RegistryConsistent'
<1> SUFFICES ASSUME TypeOK, RegistryConsistent, [Next]_vars PROVE RegistryConsistent'
  OBVIOUS
<1>0. up \in [Conn -> {"none", "open", "closed"}] /\ objects \subseteq Object
  BY DEF TypeOK, SocketType, BusType
<1>1. ASSUME UNCHANGED <<objects, conns, listeners, up>> PROVE RegistryConsistent'
  BY <1>1 DEF RegistryConsistent
<1>2. CASE Accept
  BY <1>0, <1>2 DEF Accept, RegistryConsistent
<1>3. CASE WriteLast
  BY <1>1, <1>3 DEF WriteLast, bus, clients
<1>4. ASSUME NEW c \in Conn, Handle(c) PROVE RegistryConsistent'
  <2>0. UNCHANGED <<conns, up>> /\ c \in conns
    BY <1>4 DEF Handle, HandleList, HandleCallBuiltin, HandleCallRouted, Route, HandleCallNotFound,
                HandleReply, HandleAdd, HandleSend, HandleListen, HandleOther, Take, clients
  <2>1. CASE HandleAdd(c)
    <3> DEFINE l == Head(lines[c])
    <3>1. UNCHANGED listeners
      BY <2>1 DEF HandleAdd
    <3>2. CASE l.path = NoPath
      BY <1>1, <2>0, <2>1, <3>1, <3>2 DEF HandleAdd
    <3>3. CASE l.path # NoPath
      <4>1. objects' = {o \in objects : o.path # l.path}
                          \cup {[path |-> l.path, methods |-> l.methods, owner |-> c]}
        BY <2>1, <3>3 DEF HandleAdd
      <4> QED  BY <2>0, <3>1, <4>1 DEF RegistryConsistent
    <3> QED  BY <3>2, <3>3
  <2>2. CASE HandleListen(c)
    BY <2>0, <2>2 DEF HandleListen, RegistryConsistent
  <2>3. CASE ~HandleAdd(c) /\ ~HandleListen(c)
    BY <1>1, <1>4, <2>0, <2>3 DEF Handle, HandleList, HandleCallBuiltin, HandleCallRouted, Route,
          HandleCallNotFound, HandleReply, HandleSend, HandleOther
  <2> QED  BY <2>1, <2>2, <2>3
<1>5. ASSUME NEW c \in Conn, WriteEvent(c) PROVE RegistryConsistent'
  BY <1>1, <1>5 DEF WriteEvent, bus, clients
<1>6. ASSUME NEW c \in Conn, Drop(c) PROVE RegistryConsistent'
  BY <1>0, <1>6 DEF Drop, CleanUp, RegistryConsistent
<1>s. ASSUME NEW c \in Conn, SkipBlank(c) PROVE RegistryConsistent'
  BY <1>1, <1>s DEF SkipBlank, bus, clients
<1>7. ASSUME NEW c \in Conn, Client(c) PROVE RegistryConsistent'
  BY <1>0, <1>1, <1>7 DEF Client, ClientSend, ClientReply, ClientRead, ClientClose, bus, RegistryConsistent
<1>8. CASE UNCHANGED vars
  BY <1>1, <1>8 DEF vars, bus, clients
<1> QED  BY <1>2, <1>3, <1>4, <1>5, <1>6, <1>s, <1>7, <1>8 DEF Next

(* No two objects share a path, and every object and subscription belongs  *)
(* to a registered connection, whatever the interleaving of the threads.   *)
THEOREM RegistrySafe == Spec => []RegistryConsistent
<1>1. Init => RegistryConsistent
  BY DEF Init, RegistryConsistent
<1>2. TypeOK /\ RegistryConsistent /\ [Next]_vars => RegistryConsistent'
  BY StepRegistry
<1> QED  BY <1>1, <1>2, TypeCorrect, PTL DEF Spec
-----------------------------------------------------------------------------
(* Calls: ids are fresh, results and invocations go where they belong.     *)

LEMMA InitCalls == Init => CallsInv
<1> SUFFICES ASSUME Init PROVE CallsInv
  OBVIOUS
<1>1. Fresh
  BY DEF Init, Fresh
<1>2. LastRouted
  BY DEF Init, LastRouted
<1>3. CallsRouted
  BY DEF Init, CallsRouted, None
<1> QED  BY <1>1, <1>2, <1>3 DEF CallsInv

\* What CallsRouted asks of one frame in the buffer of c.
FrameRouted(f, c) ==
    /\ f.kind = "invoke" => f.id \in ReqId /\ provider[f.id] = c
    /\ f.kind = "result" /\ f.id # 0 =>
          f.id \in ReqId /\ caller[f.id] = c /\ pending[f.id] = None

\* Writing a frame that is routed right keeps CallsRouted.
LEMMA DeliverRouted ==
    ASSUME TypeOK, CallsRouted, NEW t \in Conn \cup {None}, NEW f \in Frame,
           Deliver(t, f), FrameRouted(f, t),
           UNCHANGED <<pending, caller, provider, todo>>
    PROVE  CallsRouted'
<1>1. inbox \in [Conn -> Seq(Frame)] /\ conns \subseteq Conn
  BY DEF TypeOK, SocketType, BusType
<1>2. CASE t \in conns /\ up[t] = "open"
  <2>1. inbox' = [inbox EXCEPT ![t] = Append(inbox[t], f)] /\ t \in Conn
    BY <1>1, <1>2 DEF Deliver
  <2>2. ASSUME NEW c \in Conn, NEW i \in 1 .. Len(inbox'[c])
        PROVE  FrameRouted(inbox'[c][i], c)
    <3>1. CASE c = t /\ i = Len(inbox[c]) + 1
      BY <1>1, <2>1, <3>1
    <3>2. CASE ~(c = t /\ i = Len(inbox[c]) + 1)
      <4>1. i \in 1 .. Len(inbox[c]) /\ inbox'[c][i] = inbox[c][i]
        BY <1>1, <2>1, <2>2, <3>2
      <4> QED  BY <4>1 DEF CallsRouted, FrameRouted
    <3> QED  BY <3>1, <3>2
  <2> QED  BY <2>2 DEF CallsRouted, FrameRouted
<1>3. CASE ~(t \in conns /\ up[t] = "open")
  BY <1>3 DEF Deliver, CallsRouted
<1> QED  BY <1>2, <1>3

LEMMA StepCalls == TypeOK /\ CallsInv /\ [Next]_vars => CallsInv'
<1> SUFFICES ASSUME TypeOK, CallsInv, [Next]_vars PROVE CallsInv'
  OBVIOUS
<1>0. /\ inbox \in [Conn -> Seq(Frame)] /\ todo \in [Conn -> SUBSET Nat]
      /\ pending \in [ReqId -> Conn \cup {None}]
      /\ caller \in [ReqId -> Conn \cup {None}] /\ provider \in [ReqId -> Conn \cup {None}]
      /\ nextReq \in 0 .. MaxReq /\ events \in Nat
      /\ last \in [to : Conn \cup {None}, kind : Answers \cup {"invoke"}, id : Nat]
      /\ ReqId \subseteq Nat /\ None \notin Conn
  BY BoundsAssumption DEF TypeOK, SocketType, BusType, MutexType, HistoryType, ReqId, None, Conn
<1>1. Fresh /\ LastRouted /\ CallsRouted
  BY DEF CallsInv
<1>2. ASSUME UNCHANGED <<pending, caller, provider, nextReq, inbox, todo>>, LastRouted'
      PROVE  CallsInv'
  BY <1>1, <1>2 DEF CallsInv, Fresh, CallsRouted
<1>3. CASE Accept
  BY <1>1, <1>2, <1>3 DEF Accept, mutex, history, LastRouted
<1>4. CASE WriteLast
  <2>1. /\ Deliver(last.to, [kind |-> last.kind, id |-> last.id])
        /\ UNCHANGED <<pending, caller, provider, todo, nextReq>>
        /\ lock # None /\ lock' = None
    BY <1>4 DEF WriteLast, bus, clients
  <2>2. [kind |-> last.kind, id |-> last.id] \in Frame
    BY <1>0 DEF Frame
  <2>3. FrameRouted([kind |-> last.kind, id |-> last.id], last.to)
    BY <1>1, <2>1 DEF FrameRouted, LastRouted
  <2>4. CallsRouted'
    BY <1>0, <1>1, <2>1, <2>2, <2>3, DeliverRouted
  <2> QED  BY <1>1, <2>1, <2>4 DEF CallsInv, Fresh, LastRouted
<1>5. ASSUME NEW c \in Conn, Handle(c) PROVE CallsInv'
  <2>1. UNCHANGED <<inbox, todo>> /\ lock = None
    BY <1>5 DEF Handle, HandleList, HandleCallBuiltin, HandleCallRouted, Route, HandleCallNotFound,
                HandleReply, HandleAdd, HandleSend, HandleListen, HandleOther, Take, clients
  <2>2. ASSUME NEW kind \in Answers, Hold(c, fan', c, kind, 0) PROVE LastRouted'
    BY <2>2 DEF Hold, LastRouted, Answers
  <2>3. CASE HandleCallRouted(c)
    <3> DEFINE n == nextReq + 1
    <3>1. PICK o \in objects :
            /\ nextReq' = n
            /\ pending' = [pending EXCEPT ![n] = c]
            /\ Hold(c, {}, o.owner, "invoke", n)
            /\ caller' = [caller EXCEPT ![n] = c]
            /\ provider' = [provider EXCEPT ![n] = o.owner]
      BY <2>3 DEF HandleCallRouted, Route
    <3>2. n \in ReqId /\ n \in Nat
      BY <1>0, <2>3, BoundsAssumption DEF HandleCallRouted, Route, ReqId
    <3>3. pending[n] = None /\ caller[n] = None /\ provider[n] = None
      BY <1>0, <1>1, <3>2 DEF Fresh
    <3>4. Fresh'
      BY <1>0, <1>1, <3>1, <3>2 DEF Fresh
    <3>5. LastRouted'
      BY <1>0, <3>1, <3>2 DEF Hold, LastRouted
    <3>6. CallsRouted'
      <4>1. \A r \in ReqId : pending'[r] # None => pending'[r] = caller'[r]
        BY <1>0, <1>1, <3>1, <3>2 DEF CallsRouted
      <4>2. ASSUME NEW d \in Conn PROVE \A r \in todo'[d] : provider'[r] = d
        <5>1. ASSUME NEW r \in todo[d] PROVE r # n /\ provider[r] = d
          BY <1>0, <1>1, <3>3 DEF CallsRouted
        <5> QED  BY <1>0, <2>1, <3>1, <5>1
      <4>3. ASSUME NEW d \in Conn, NEW i \in 1 .. Len(inbox'[d])
            PROVE  FrameRouted(inbox[d][i], d)'
        <5>1. i \in 1 .. Len(inbox[d])
          BY <2>1, <4>3
        <5>2. FrameRouted(inbox[d][i], d)
          BY <1>1, <5>1 DEF CallsRouted, FrameRouted
        <5> QED  BY <1>0, <2>1, <3>1, <3>2, <3>3, <5>2 DEF FrameRouted
      <4> QED  BY <2>1, <4>1, <4>2, <4>3 DEF CallsRouted, FrameRouted
    <3> QED  BY <3>4, <3>5, <3>6 DEF CallsInv
  <2>4. CASE HandleReply(c)
    <3> DEFINE r == Head(lines[c]).id
    <3>1. UNCHANGED <<nextReq, caller, provider>>
      BY <2>4 DEF HandleReply, history
    <3>2. CASE r \in ReqId /\ pending[r] # None
      <4>1. pending' = [pending EXCEPT ![r] = None] /\ Hold(c, {}, pending[r], "result", r)
        BY <2>4, <3>2 DEF HandleReply
      <4>2. LastRouted'
        <5>1. last'.kind = "result" /\ last'.id = r /\ last'.to = pending[r]
          BY <4>1 DEF Hold
        <5>2. pending'[r] = None
          BY <1>0, <3>2, <4>1
        <5>3. caller'[r] = pending[r]
          BY <1>1, <3>1, <3>2 DEF CallsRouted
        <5> QED  BY <3>2, <5>1, <5>2, <5>3 DEF LastRouted
      <4>3. Fresh'
        BY <1>0, <1>1, <3>1, <3>2, <4>1 DEF Fresh
      <4>4. \A q \in ReqId : pending'[q] = pending[q] \/ pending'[q] = None
        BY <1>0, <4>1
      <4>5. CallsRouted'
        <5>1. \A q \in ReqId : pending'[q] # None => pending'[q] = caller'[q]
          BY <1>1, <3>1, <4>4 DEF CallsRouted
        <5>2. ASSUME NEW d \in Conn PROVE \A q \in todo'[d] : provider'[q] = d
          BY <1>1, <2>1, <3>1 DEF CallsRouted
        <5>3. ASSUME NEW d \in Conn, NEW i \in 1 .. Len(inbox'[d])
              PROVE  FrameRouted(inbox[d][i], d)'
          <6>1. FrameRouted(inbox[d][i], d)
            BY <1>1, <2>1, <5>3 DEF CallsRouted, FrameRouted
          <6> QED  BY <2>1, <3>1, <4>4, <6>1 DEF FrameRouted
        <5> QED  BY <5>1, <5>2, <5>3 DEF CallsRouted, FrameRouted
      <4> QED  BY <4>2, <4>3, <4>5 DEF CallsInv
    <3>3. CASE ~(r \in ReqId /\ pending[r] # None)
      <4>1. UNCHANGED pending /\ UNCHANGED mutex
        BY <2>4, <3>3 DEF HandleReply
      <4> QED  BY <1>1, <1>2, <2>1, <3>1, <4>1 DEF LastRouted, mutex
    <3> QED  BY <3>2, <3>3
  <2>5. CASE ~HandleCallRouted(c) /\ ~HandleReply(c)
    <3>1. /\ UNCHANGED <<pending, caller, provider, nextReq>>
          /\ \E kind \in Answers : Hold(c, fan', c, kind, 0)
      BY <1>5, <2>5 DEF Handle, HandleList, HandleCallBuiltin, HandleCallNotFound,
           HandleAdd, HandleSend, HandleListen, HandleOther, Answer, Hold, Answers
    <3> QED  BY <1>2, <2>1, <2>2, <3>1
  <2> QED  BY <2>3, <2>4, <2>5
<1>6. ASSUME NEW c \in Conn, WriteEvent(c) PROVE CallsInv'
  <2>1. /\ Deliver(c, [kind |-> "event", id |-> events])
        /\ UNCHANGED <<pending, caller, provider, todo, nextReq, lock, last>>
    BY <1>6 DEF WriteEvent, bus, clients
  <2>2. [kind |-> "event", id |-> events] \in Frame
    BY <1>0 DEF Frame
  <2>3. FrameRouted([kind |-> "event", id |-> events], c)
    BY DEF FrameRouted
  <2>4. CallsRouted'
    BY <1>0, <1>1, <2>1, <2>2, <2>3, DeliverRouted
  <2> QED  BY <1>1, <2>1, <2>4 DEF CallsInv, Fresh, LastRouted
<1>7. ASSUME NEW c \in Conn, Drop(c) PROVE CallsInv'
  <2>1. /\ UNCHANGED <<pending, caller, provider, nextReq, lock, last>>
        /\ inbox' = [inbox EXCEPT ![c] = <<>>] /\ todo' = [todo EXCEPT ![c] = {}]
    BY <1>7 DEF Drop, mutex, history
  <2>2. Fresh' /\ LastRouted'
    BY <1>1, <2>1 DEF Fresh, LastRouted
  <2> QED  BY <1>0, <1>1, <2>1, <2>2 DEF CallsInv, CallsRouted
<1>s. ASSUME NEW c \in Conn, SkipBlank(c) PROVE CallsInv'
  BY <1>1, <1>2, <1>s DEF SkipBlank, bus, mutex, clients, history, LastRouted
<1>8. ASSUME NEW c \in Conn, Client(c) PROVE CallsInv'
  <2>1. UNCHANGED <<pending, caller, provider, nextReq, lock, last>>
    BY <1>8 DEF Client, ClientSend, ClientReply, ClientRead, ClientClose, bus, mutex, history
  <2>2. Fresh' /\ LastRouted'
    BY <1>1, <2>1 DEF Fresh, LastRouted
  <2>3. CASE ClientSend(c)
    BY <1>1, <2>1, <2>2, <2>3 DEF ClientSend, CallsInv, CallsRouted
  <2>4. CASE ClientReply(c)
    BY <1>0, <1>1, <2>1, <2>2, <2>4 DEF ClientReply, CallsInv, CallsRouted
  <2>5. CASE ClientRead(c)
    <3>1. inbox[c] \in Seq(Frame) /\ inbox[c] # <<>>
      BY <1>0, <2>5 DEF ClientRead
    <3>2. inbox' = [inbox EXCEPT ![c] = Tail(inbox[c])]
      BY <2>5 DEF ClientRead
    <3>3. Head(inbox[c]) = inbox[c][1] /\ 1 \in 1 .. Len(inbox[c])
      BY <3>1
    <3>4. ASSUME NEW d \in Conn PROVE \A r \in todo'[d] : provider[r] = d
      BY <1>0, <1>1, <2>5, <3>3 DEF ClientRead, CallsRouted
    <3>5. ASSUME NEW d \in Conn, NEW i \in 1 .. Len(inbox'[d])
          PROVE  FrameRouted(inbox'[d][i], d)
      <4>1. CASE d = c
        <5>1. i + 1 \in 1 .. Len(inbox[c]) /\ inbox'[d][i] = inbox[c][i + 1]
          BY <1>0, <3>1, <3>2, <3>5, <4>1
        <5> QED  BY <1>1, <4>1, <5>1 DEF CallsRouted, FrameRouted
      <4>2. CASE d # c
        <5>1. inbox'[d] = inbox[d]
          BY <1>0, <3>2, <4>2
        <5> QED  BY <1>1, <3>5, <5>1 DEF CallsRouted, FrameRouted
      <4> QED  BY <4>1, <4>2
    <3> QED  BY <1>1, <2>1, <2>2, <3>4, <3>5 DEF CallsInv, CallsRouted, FrameRouted
  <2>6. CASE ClientClose(c)
    BY <1>0, <1>1, <2>1, <2>2, <2>6 DEF ClientClose, CallsInv, CallsRouted
  <2> QED  BY <1>8, <2>3, <2>4, <2>5, <2>6 DEF Client
<1>9. CASE UNCHANGED vars
  BY <1>1, <1>2, <1>9 DEF vars, bus, mutex, clients, history, LastRouted
<1> QED  BY <1>3, <1>4, <1>5, <1>6, <1>7, <1>s, <1>8, <1>9 DEF Next

(* A result reaches only the connection that made the call and an          *)
(* invocation only the provider the call was routed to.                    *)
THEOREM CallsSafe == Spec => []CallsRouted
<1>1. Init => CallsInv
  BY InitCalls
<1>2. TypeOK /\ CallsInv /\ [Next]_vars => CallsInv'
  BY StepCalls
<1>3. CallsInv => CallsRouted
  BY DEF CallsInv
<1> QED  BY <1>1, <1>2, <1>3, TypeCorrect, PTL DEF Spec
-----------------------------------------------------------------------------
(* Debts: exactly one answer per request.                                  *)

\* What is being answered under the lock.
Writing(c) == IF lock # None /\ last.to = c /\ last.kind \in Answers THEN 1 ELSE 0

LEMMA PendingFinite ==
    ASSUME NEW c PROVE IsFiniteSet(PendingOf(c)) /\ Cardinality(PendingOf(c)) \in Nat
<1>1. IsFiniteSet(ReqId)
  BY FS_Interval, BoundsAssumption DEF ReqId
<1>2. PendingOf(c) \subseteq ReqId
  BY DEF PendingOf
<1>3. IsFiniteSet(PendingOf(c))
  BY <1>1, <1>2, FS_Subset
<1> QED  BY <1>3, FS_CardinalityType

\* A step that leaves `pending` alone and moves the debts and the frame under
\* the lock together.
LEMMA SamePending ==
    ASSUME TypeOK, ExactlyOneAnswer, UNCHANGED pending,
           \A c \in Conn : owed'[c] - Writing(c)' = owed[c] - Writing(c),
           owed' \in [Conn -> Int]
    PROVE  ExactlyOneAnswer'
<1> SUFFICES ASSUME NEW c \in Conn
             PROVE  owed'[c] = Cardinality(PendingOf(c)') + Writing(c)'
  BY DEF ExactlyOneAnswer, Writing
<1>1. owed[c] = Cardinality(PendingOf(c)) + Writing(c)
  BY DEF ExactlyOneAnswer, Writing
<1>2. PendingOf(c)' = PendingOf(c)
  BY DEF PendingOf
<1>3. Cardinality(PendingOf(c)) \in Nat /\ Writing(c) \in Int /\ Writing(c)' \in Int
  BY PendingFinite DEF Writing
<1>4. owed[c] \in Int /\ owed'[c] \in Int
  BY DEF TypeOK, HistoryType
<1>5. owed'[c] - Writing(c)' = owed[c] - Writing(c)
  OBVIOUS
<1> QED  BY <1>1, <1>2, <1>3, <1>4, <1>5

LEMMA StepAnswers ==
    TypeOK /\ TypeOK' /\ CallsInv /\ ExactlyOneAnswer /\ [Next]_vars => ExactlyOneAnswer'
<1> SUFFICES ASSUME TypeOK, TypeOK', CallsInv, ExactlyOneAnswer, [Next]_vars
             PROVE  ExactlyOneAnswer'
  OBVIOUS
<1>0. /\ owed \in [Conn -> Int] /\ owed' \in [Conn -> Int]
      /\ pending \in [ReqId -> Conn \cup {None}] /\ None \notin Conn
      /\ "invoke" \notin Answers /\ "result" \in Answers
  BY BoundsAssumption DEF TypeOK, HistoryType, BusType, None, Conn, Answers
<1>1. ASSUME UNCHANGED <<pending, owed, lock, last>> PROVE ExactlyOneAnswer'
  <2>1. \A c \in Conn : owed'[c] - Writing(c)' = owed[c] - Writing(c)
    BY <1>1 DEF Writing
  <2> QED  BY <1>0, <1>1, <2>1, SamePending
<1>2. CASE Accept
  BY <1>1, <1>2 DEF Accept, mutex, history
<1>3. CASE WriteLast
  <2>1. lock # None /\ lock' = None /\ UNCHANGED <<pending, last>>
    BY <1>3 DEF WriteLast, bus
  <2>2. ASSUME NEW c \in Conn PROVE owed'[c] - Writing(c)' = owed[c] - Writing(c)
    <3>1. CASE last.kind \in Answers /\ last.to = c
      <4>1. owed' = [owed EXCEPT ![c] = owed[c] - 1]
        BY <1>3, <3>1 DEF WriteLast
      <4>2. owed'[c] = owed[c] - 1 /\ Writing(c) = 1 /\ Writing(c)' = 0
        BY <1>0, <2>1, <3>1, <4>1 DEF Writing
      <4> QED  BY <1>0, <4>2
    <3>2. CASE ~(last.kind \in Answers /\ last.to = c)
      <4>1. owed'[c] = owed[c] /\ Writing(c) = 0 /\ Writing(c)' = 0
        BY <1>0, <1>3, <2>1, <3>2 DEF WriteLast, Writing
      <4> QED  BY <4>1
    <3> QED  BY <3>1, <3>2
  <2> QED  BY <1>0, <2>1, <2>2, SamePending
<1>4. ASSUME NEW c \in Conn, Handle(c) PROVE ExactlyOneAnswer'
  <2>1. lock = None
    BY <1>4 DEF Handle, HandleList, HandleCallBuiltin, HandleCallRouted, Route, HandleCallNotFound,
                HandleReply, HandleAdd, HandleSend, HandleListen, HandleOther, Take
  <2>2. \A d \in Conn : Writing(d) = 0
    BY <2>1 DEF Writing
  <2>3. CASE HandleCallRouted(c)
    <3> DEFINE n == nextReq + 1
    <3>1. PICK o \in objects :
            /\ pending' = [pending EXCEPT ![n] = c]
            /\ Hold(c, {}, o.owner, "invoke", n)
      BY <2>3 DEF HandleCallRouted, Route
    <3>2. owed' = [owed EXCEPT ![c] = owed[c] + 1]
      BY <2>3 DEF HandleCallRouted, Route, Owes
    <3>3. n \in ReqId /\ pending[n] = None
      BY <2>3, BoundsAssumption DEF HandleCallRouted, Route, ReqId, TypeOK, BusType, CallsInv, Fresh
    <3>4. \A d \in Conn : Writing(d)' = 0
      BY <1>0, <3>1 DEF Hold, Writing
    <3>5. PendingOf(c)' = PendingOf(c) \cup {n} /\ n \notin PendingOf(c)
      BY <1>0, <3>1, <3>3 DEF PendingOf
    <3>6. Cardinality(PendingOf(c)') = Cardinality(PendingOf(c)) + 1
      BY <3>5, PendingFinite, FS_AddElement
    <3>7. \A d \in Conn \ {c} : PendingOf(d)' = PendingOf(d)
      BY <1>0, <3>1, <3>3 DEF PendingOf
    <3>8. ASSUME NEW d \in Conn
          PROVE  owed'[d] = Cardinality(PendingOf(d)') + Writing(d)'
      <4>1. owed[d] = Cardinality(PendingOf(d)) + Writing(d)
        BY DEF ExactlyOneAnswer, Writing
      <4>2. Cardinality(PendingOf(d)) \in Nat
        BY PendingFinite
      <4>3. CASE d = c
        BY <1>0, <2>2, <3>2, <3>4, <3>6, <4>1, <4>2, <4>3
      <4>4. CASE d # c
        BY <1>0, <2>2, <3>2, <3>4, <3>7, <4>1, <4>2, <4>4
      <4> QED  BY <4>3, <4>4
    <3> QED  BY <3>8 DEF ExactlyOneAnswer, Writing
  <2>4. CASE HandleReply(c)
    <3> DEFINE r == Head(lines[c]).id
    <3>1. UNCHANGED owed
      BY <2>4 DEF HandleReply, history
    <3>2. CASE r \in ReqId /\ pending[r] # None
      <4>1. PICK b \in Conn : b = pending[r]
        BY <1>0, <3>2
      <4>2. pending' = [pending EXCEPT ![r] = None] /\ Hold(c, {}, b, "result", r)
        BY <2>4, <3>2, <4>1 DEF HandleReply
      <4>3. lock' # None /\ last'.to = b /\ last'.kind \in Answers
        BY <1>0, <4>2 DEF Hold
      <4>4. PendingOf(b)' = PendingOf(b) \ {r} /\ r \in PendingOf(b)
        <5>1. r \in PendingOf(b)
          BY <3>2, <4>1 DEF PendingOf
        <5>2. \A q \in ReqId : pending'[q] = IF q = r THEN None ELSE pending[q]
          BY <1>0, <4>2
        <5>3. b # None
          BY <1>0, <4>1
        <5> QED  BY <3>2, <5>1, <5>2, <5>3 DEF PendingOf
      <4>5. Cardinality(PendingOf(b)') = Cardinality(PendingOf(b)) - 1
        <5>1. IsFiniteSet(PendingOf(b))
          BY PendingFinite
        <5> QED  BY <4>4, <5>1, FS_RemoveElement, Zenon
      <4>6. \A d \in Conn \ {b} : PendingOf(d)' = PendingOf(d)
        BY <1>0, <3>2, <4>1, <4>2 DEF PendingOf
      <4>7. ASSUME NEW d \in Conn
            PROVE  owed'[d] = Cardinality(PendingOf(d)') + Writing(d)'
        <5>1. owed[d] = Cardinality(PendingOf(d)) + Writing(d)
          BY DEF ExactlyOneAnswer, Writing
        <5>2. Cardinality(PendingOf(d)) \in Nat
          BY PendingFinite
        <5>3. CASE d = b
          <6>1. Writing(d)' = 1
            BY <4>3, <5>3 DEF Writing
          <6> QED  BY <1>0, <2>2, <3>1, <4>5, <5>1, <5>2, <5>3, <6>1
        <5>4. CASE d # b
          <6>1. Writing(d)' = 0
            BY <4>3, <5>4 DEF Writing
          <6> QED  BY <1>0, <2>2, <3>1, <4>6, <5>1, <5>2, <5>4, <6>1
        <5> QED  BY <5>3, <5>4
      <4> QED  BY <4>7 DEF ExactlyOneAnswer, Writing
    <3>3. CASE ~(r \in ReqId /\ pending[r] # None)
      BY <1>1, <2>4, <3>1, <3>3 DEF HandleReply, mutex
    <3> QED  BY <3>2, <3>3
  <2>5. CASE ~HandleCallRouted(c) /\ ~HandleReply(c)
    <3>1. /\ UNCHANGED pending /\ Owes(c)
          /\ lock' = c /\ last'.to = c /\ last'.kind \in Answers
      BY <1>4, <2>5 DEF Handle, HandleList, HandleCallBuiltin, HandleCallNotFound,
           HandleAdd, HandleSend, HandleListen, HandleOther, Answer, Hold, Answers
    <3>2. ASSUME NEW d \in Conn PROVE owed'[d] - Writing(d)' = owed[d] - Writing(d)
      <4>1. Writing(d)' = IF d = c THEN 1 ELSE 0
        BY <1>0, <3>1 DEF Writing
      <4>2. owed'[d] = IF d = c THEN owed[d] + 1 ELSE owed[d]
        BY <1>0, <3>1 DEF Owes
      <4> QED  BY <1>0, <2>2, <4>1, <4>2
    <3> QED  BY <1>0, <3>1, <3>2, SamePending
  <2> QED  BY <2>3, <2>4, <2>5
<1>5. ASSUME NEW c \in Conn, WriteEvent(c) PROVE ExactlyOneAnswer'
  BY <1>1, <1>5 DEF WriteEvent, bus
<1>6. ASSUME NEW c \in Conn, Drop(c) PROVE ExactlyOneAnswer'
  BY <1>1, <1>6 DEF Drop, mutex, history
<1>s. ASSUME NEW c \in Conn, SkipBlank(c) PROVE ExactlyOneAnswer'
  BY <1>1, <1>s DEF SkipBlank, bus, mutex, history
<1>7. ASSUME NEW c \in Conn, Client(c) PROVE ExactlyOneAnswer'
  BY <1>1, <1>7 DEF Client, ClientSend, ClientReply, ClientRead, ClientClose, bus, mutex, history
<1>8. CASE UNCHANGED vars
  BY <1>1, <1>8 DEF vars, bus, mutex, history
<1> QED  BY <1>2, <1>3, <1>4, <1>5, <1>6, <1>s, <1>7, <1>8 DEF Next

(* The broker answers every request exactly once: it never owes more or    *)
(* fewer answers than the calls in flight and the one it is writing.       *)
THEOREM AnswersSafe == Spec => []ExactlyOneAnswer
<1>1. Init => ExactlyOneAnswer
  <2> SUFFICES ASSUME Init, NEW c \in Conn PROVE owed[c] = Cardinality(PendingOf(c)) + Writing(c)
    BY DEF ExactlyOneAnswer, Writing
  <2>1. PendingOf(c) = {}
    BY BoundsAssumption DEF Init, PendingOf, None, Conn
  <2>2. Cardinality(PendingOf(c)) = 0
    BY <2>1, FS_EmptySet
  <2> QED  BY <2>2 DEF Init, Writing
<1>2. TypeOK /\ TypeOK' /\ CallsInv /\ ExactlyOneAnswer /\ [Next]_vars => ExactlyOneAnswer'
  BY StepAnswers
<1>3. Init => CallsInv
  BY InitCalls
<1>4. TypeOK /\ CallsInv /\ [Next]_vars => CallsInv'
  BY StepCalls
<1> QED  BY <1>1, <1>2, <1>3, <1>4, TypeCorrect, PTL DEF Spec

-----------------------------------------------------------------------------
(* Events.                                                                 *)

\* Ordered(s): events sit in s in the order of their numbers.
Ordered(s) ==
    \A i, j \in 1 .. Len(s) :
        i < j /\ s[i].kind = "event" /\ s[j].kind = "event" => s[i].id < s[j].id

\* Bounded(s, n): no event in s is later than n.
Bounded(s, n) == \A i \in 1 .. Len(s) : s[i].kind = "event" => s[i].id <= n

LEMMA AppendOther ==
    ASSUME NEW s \in Seq(Frame), NEW f \in Frame, f.kind # "event", NEW n \in Nat,
           Ordered(s), Bounded(s, n)
    PROVE  Ordered(Append(s, f)) /\ Bounded(Append(s, f), n)
<1> DEFINE t == Append(s, f)
<1>1. /\ Len(t) = Len(s) + 1 /\ t[Len(s) + 1] = f /\ Len(s) \in Nat
      /\ \A i \in 1 .. Len(s) : t[i] = s[i]
  OBVIOUS
<1> HIDE DEF t
<1>2. Ordered(t)
  BY <1>1 DEF Ordered
<1>3. Bounded(t, n)
  BY <1>1 DEF Bounded
<1> QED  BY <1>2, <1>3 DEF t

LEMMA AppendEvent ==
    ASSUME NEW s \in Seq(Frame), NEW f \in Frame, NEW n \in Nat, f.id = n + 1,
           Ordered(s), Bounded(s, n)
    PROVE  Ordered(Append(s, f)) /\ Bounded(Append(s, f), n + 1)
<1> DEFINE t == Append(s, f)
<1>1. /\ Len(t) = Len(s) + 1 /\ t[Len(s) + 1] = f /\ Len(s) \in Nat
      /\ \A i \in 1 .. Len(s) : t[i] = s[i] /\ s[i].id \in Nat
  <2>1. ASSUME NEW i \in 1 .. Len(s) PROVE s[i].id \in Nat
    <3>1. s[i] \in Frame
      OBVIOUS
    <3> QED  BY <3>1 DEF Frame
  <2>2. /\ Len(t) = Len(s) + 1 /\ t[Len(s) + 1] = f /\ Len(s) \in Nat
        /\ \A i \in 1 .. Len(s) : t[i] = s[i]
    OBVIOUS
  <2> QED  BY <2>1, <2>2
<1> HIDE DEF t
<1>2. ASSUME NEW i \in 1 .. Len(t), NEW j \in 1 .. Len(t), i < j,
             t[i].kind = "event", t[j].kind = "event"
      PROVE  t[i].id < t[j].id
  <2>1. i \in 1 .. Len(s) /\ t[i] = s[i]
    BY <1>1, <1>2
  <2>2. s[i].id <= n /\ s[i].id \in Nat
    BY <1>1, <1>2, <2>1 DEF Bounded
  <2>3. CASE j = Len(s) + 1
    BY <1>1, <2>1, <2>2, <2>3
  <2>4. CASE j # Len(s) + 1
    <3>1. j \in 1 .. Len(s) /\ t[j] = s[j]
      BY <1>1, <2>4
    <3> QED  BY <1>2, <2>1, <3>1 DEF Ordered
  <2> QED  BY <2>3, <2>4
<1>3. ASSUME NEW i \in 1 .. Len(t), t[i].kind = "event" PROVE t[i].id <= n + 1
  <2>1. CASE i = Len(s) + 1
    BY <1>1, <2>1
  <2>2. CASE i # Len(s) + 1
    <3>1. i \in 1 .. Len(s) /\ t[i] = s[i]
      BY <1>1, <2>2
    <3>2. s[i].id <= n /\ s[i].id \in Nat
      BY <1>1, <1>3, <3>1 DEF Bounded
    <3> QED  BY <3>1, <3>2
  <2> QED  BY <2>1, <2>2
<1>4. Ordered(t) /\ Bounded(t, n + 1)
  BY <1>2, <1>3 DEF Ordered, Bounded
<1> QED  BY <1>4 DEF t

LEMMA TailOrdered ==
    ASSUME NEW s \in Seq(Frame), s # <<>>, NEW n \in Nat, Ordered(s), Bounded(s, n)
    PROVE  Ordered(Tail(s)) /\ Bounded(Tail(s), n)
<1> DEFINE t == Tail(s)
<1>1. /\ Len(t) = Len(s) - 1 /\ Len(s) \in Nat
      /\ \A i \in 1 .. Len(t) : t[i] = s[i + 1]
  OBVIOUS
<1> HIDE DEF t
<1>2. ASSUME NEW i \in 1 .. Len(t), NEW j \in 1 .. Len(t), i < j,
             t[i].kind = "event", t[j].kind = "event"
      PROVE  t[i].id < t[j].id
  <2>1. /\ i + 1 \in 1 .. Len(s) /\ j + 1 \in 1 .. Len(s) /\ i + 1 < j + 1
        /\ t[i] = s[i + 1] /\ t[j] = s[j + 1]
    BY <1>1, <1>2
  <2> QED  BY <1>2, <2>1 DEF Ordered
<1>3. Bounded(t, n)
  BY <1>1 DEF Bounded
<1>4. Ordered(t)
  BY <1>2 DEF Ordered
<1> QED  BY <1>3, <1>4 DEF t
\* EventsInv, connection by connection.
BufferInv == \A c \in Conn : Ordered(inbox[c]) /\ Bounded(inbox[c], got[c])

HeardInv ==
    /\ fan \subseteq listeners
    /\ lock = None => fan = {}
    /\ \A c \in Conn : got[c] <= events
    /\ \A c \in Conn : c \in listeners => got[c] = IF c \in fan THEN events - 1 ELSE events

LEMMA EventsParts == EventsInv <=> HeardInv /\ BufferInv
BY DEF EventsInv, EventsBounded, EventsInOrder, HeardInv, BufferInv, Ordered, Bounded

LEMMA StepHeard == TypeOK /\ HeardInv /\ [Next]_vars => HeardInv'
<1> SUFFICES ASSUME TypeOK, HeardInv, [Next]_vars PROVE HeardInv'
  OBVIOUS
<1>0. got \in [Conn -> Nat] /\ events \in Nat /\ listeners \subseteq Conn /\ None \notin Conn
  BY BoundsAssumption DEF TypeOK, HistoryType, BusType, None, Conn
<1>1. ASSUME UNCHANGED <<fan, listeners, lock, got, events>> PROVE HeardInv'
  BY <1>1 DEF HeardInv
<1>2. CASE Accept
  BY <1>1, <1>2 DEF Accept, mutex, history
<1>3. CASE WriteLast
  BY <1>3 DEF WriteLast, bus, HeardInv
<1>4. ASSUME NEW c \in Conn, Handle(c) PROVE HeardInv'
  <2>1. lock = None
    BY <1>4 DEF Handle, HandleList, HandleCallBuiltin, HandleCallRouted, Route, HandleCallNotFound,
                HandleReply, HandleAdd, HandleSend, HandleListen, HandleOther, Take
  <2>2. fan = {} /\ \A d \in Conn : d \in listeners => got[d] = events
    BY <2>1 DEF HeardInv
  <2>3. CASE HandleSend(c)
    <3>1. /\ events' = events + 1 /\ fan' = listeners /\ lock' = c
          /\ UNCHANGED <<listeners, got>>
      BY <2>3 DEF HandleSend, Hold
    <3> QED  BY <1>0, <2>2, <3>1 DEF HeardInv
  <2>4. CASE HandleListen(c)
    <3>1. /\ listeners' = listeners \cup {c} /\ fan' = {} /\ UNCHANGED events
          /\ got' = [got EXCEPT ![c] = IF c \in listeners THEN got[c] ELSE events]
      BY <2>4 DEF HandleListen, Answer, Hold
    <3> QED  BY <1>0, <2>2, <3>1 DEF HeardInv
  <2>5. CASE HandleReply(c)
    <3>1. UNCHANGED <<listeners, got, events>> /\ fan' = {}
      BY <2>2, <2>5 DEF HandleReply, Hold, mutex, history
    <3> QED  BY <2>2, <3>1 DEF HeardInv
  <2>6. CASE ~HandleSend(c) /\ ~HandleListen(c) /\ ~HandleReply(c)
    <3>1. UNCHANGED <<listeners, got, events>> /\ fan' = {}
      BY <1>4, <2>6 DEF Handle, HandleList, HandleCallBuiltin, HandleCallRouted, Route,
           HandleCallNotFound, HandleAdd, HandleOther, Answer, Hold
    <3> QED  BY <2>2, <3>1 DEF HeardInv
  <2> QED  BY <2>3, <2>4, <2>5, <2>6
<1>5. ASSUME NEW c \in Conn, WriteEvent(c) PROVE HeardInv'
  <2>1. /\ c \in fan /\ fan' = fan \ {c} /\ got' = [got EXCEPT ![c] = events]
        /\ UNCHANGED <<listeners, lock, events>> /\ lock # None
    BY <1>5 DEF WriteEvent, bus
  <2> QED  BY <1>0, <2>1 DEF HeardInv
<1>6. ASSUME NEW c \in Conn, Drop(c) PROVE HeardInv'
  BY <1>6 DEF Drop, CleanUp, mutex, history, HeardInv
<1>s. ASSUME NEW c \in Conn, SkipBlank(c) PROVE HeardInv'
  BY <1>1, <1>s DEF SkipBlank, bus, mutex, history
<1>7. ASSUME NEW c \in Conn, Client(c) PROVE HeardInv'
  BY <1>1, <1>7 DEF Client, ClientSend, ClientReply, ClientRead, ClientClose, bus, mutex, history
<1>8. CASE UNCHANGED vars
  BY <1>1, <1>8 DEF vars, bus, mutex, history
<1> QED  BY <1>2, <1>3, <1>4, <1>5, <1>6, <1>s, <1>7, <1>8 DEF Next

LEMMA StepBuffer == TypeOK /\ HeardInv /\ BufferInv /\ [Next]_vars => BufferInv'
<1> SUFFICES ASSUME TypeOK, HeardInv, BufferInv, [Next]_vars PROVE BufferInv'
  OBVIOUS
<1>0. /\ got \in [Conn -> Nat] /\ events \in Nat /\ inbox \in [Conn -> Seq(Frame)]
      /\ conns \subseteq Conn
      /\ last \in [to : Conn \cup {None}, kind : Answers \cup {"invoke"}, id : Nat]
  BY DEF TypeOK, HistoryType, SocketType, BusType, MutexType
<1>1. ASSUME UNCHANGED <<inbox, got>> PROVE BufferInv'
  BY <1>1 DEF BufferInv
<1>2. CASE Accept
  BY <1>1, <1>2 DEF Accept, history
<1>3. CASE WriteLast
  <2> DEFINE f == [kind |-> last.kind, id |-> last.id]
  <2>1. f \in Frame /\ f.kind # "event"
    BY <1>0 DEF Frame, Answers
  <2>2. UNCHANGED got /\ Deliver(last.to, f)
    BY <1>3 DEF WriteLast
  <2>3. CASE last.to \in conns /\ up[last.to] = "open"
    <3>1. inbox' = [inbox EXCEPT ![last.to] = Append(inbox[last.to], f)] /\ last.to \in Conn
      BY <1>0, <2>2, <2>3 DEF Deliver
    <3>2. Ordered(Append(inbox[last.to], f)) /\ Bounded(Append(inbox[last.to], f), got[last.to])
      BY <1>0, <2>1, <3>1, AppendOther DEF BufferInv
    <3> QED  BY <1>0, <2>2, <3>1, <3>2 DEF BufferInv
  <2>4. CASE ~(last.to \in conns /\ up[last.to] = "open")
    BY <1>1, <2>2, <2>4 DEF Deliver
  <2> QED  BY <2>3, <2>4
<1>4. ASSUME NEW c \in Conn, Handle(c) PROVE BufferInv'
  <2>1. UNCHANGED inbox
    BY <1>4 DEF Handle, HandleList, HandleCallBuiltin, HandleCallRouted, Route, HandleCallNotFound,
                HandleReply, HandleAdd, HandleSend, HandleListen, HandleOther, Take
  <2>2. CASE HandleListen(c)
    <3>1. got' = [got EXCEPT ![c] = IF c \in listeners THEN got[c] ELSE events]
      BY <2>2 DEF HandleListen
    <3>2. \A d \in Conn : got'[d] \in Nat /\ got[d] <= got'[d]
      BY <1>0, <3>1 DEF HeardInv
    <3>3. ASSUME NEW d \in Conn PROVE Ordered(inbox[d]) /\ Bounded(inbox[d], got'[d])
      <4>1. ASSUME NEW i \in 1 .. Len(inbox[d]), inbox[d][i].kind = "event"
            PROVE  inbox[d][i].id <= got'[d]
        <5>1. inbox[d][i] \in Frame
          BY <1>0
        <5>2. inbox[d][i].id \in Nat
          BY <5>1 DEF Frame
        <5>3. inbox[d][i].id <= got[d]
          BY <4>1 DEF BufferInv, Bounded
        <5> QED  BY <1>0, <3>2, <5>2, <5>3
      <4> QED  BY <4>1 DEF BufferInv, Bounded
    <3> QED  BY <2>1, <3>3 DEF BufferInv
  <2>3. CASE ~HandleListen(c)
    BY <1>1, <1>4, <2>1, <2>3 DEF Handle, HandleList, HandleCallBuiltin, HandleCallRouted, Route,
          HandleCallNotFound, HandleReply, HandleAdd, HandleSend, HandleOther, history
  <2> QED  BY <2>2, <2>3
<1>5. ASSUME NEW c \in Conn, WriteEvent(c) PROVE BufferInv'
  <2> DEFINE f == [kind |-> "event", id |-> events]
  <2>1. /\ c \in fan /\ got' = [got EXCEPT ![c] = events] /\ Deliver(c, f)
    BY <1>5 DEF WriteEvent
  <2>2. got[c] = events - 1 /\ f \in Frame /\ f.id = got[c] + 1
    BY <1>0, <2>1 DEF HeardInv, Frame
  <2>3. CASE c \in conns /\ up[c] = "open"
    <3>1. inbox' = [inbox EXCEPT ![c] = Append(inbox[c], f)]
      BY <2>1, <2>3 DEF Deliver
    <3>2. Ordered(Append(inbox[c], f)) /\ Bounded(Append(inbox[c], f), got[c] + 1)
      BY <1>0, <2>2, AppendEvent DEF BufferInv
    <3> QED  BY <1>0, <2>1, <2>2, <3>1, <3>2 DEF BufferInv
  <2>4. CASE ~(c \in conns /\ up[c] = "open")
    <3>1. UNCHANGED inbox
      BY <2>1, <2>4 DEF Deliver
    <3>2. ASSUME NEW i \in 1 .. Len(inbox[c]), inbox[c][i].kind = "event"
          PROVE  inbox[c][i].id <= events
      <4>1. inbox[c][i] \in Frame
        BY <1>0
      <4>2. inbox[c][i].id \in Nat
        BY <4>1 DEF Frame
      <4>3. inbox[c][i].id <= got[c]
        BY <3>2 DEF BufferInv, Bounded
      <4> QED  BY <1>0, <2>2, <4>2, <4>3
    <3>3. Bounded(inbox[c], events)
      BY <3>2 DEF Bounded
    <3> QED  BY <1>0, <2>1, <3>1, <3>3 DEF BufferInv
  <2> QED  BY <2>3, <2>4
<1>6. ASSUME NEW c \in Conn, Drop(c) PROVE BufferInv'
  <2>1. inbox' = [inbox EXCEPT ![c] = <<>>] /\ UNCHANGED got
    BY <1>6 DEF Drop, history
  <2>2. Ordered(<<>>) /\ Bounded(<<>>, got[c])
    BY DEF Ordered, Bounded
  <2> QED  BY <1>0, <2>1, <2>2 DEF BufferInv
<1>s. ASSUME NEW c \in Conn, SkipBlank(c) PROVE BufferInv'
  BY <1>1, <1>s DEF SkipBlank, history
<1>7. ASSUME NEW c \in Conn, Client(c) PROVE BufferInv'
  <2>0. UNCHANGED got
    BY <1>7 DEF Client, ClientSend, ClientReply, ClientRead, ClientClose, history
  <2>1. CASE ClientSend(c) \/ ClientReply(c)
    BY <1>1, <2>0, <2>1 DEF ClientSend, ClientReply
  <2>2. CASE ClientRead(c)
    <3>1. inbox' = [inbox EXCEPT ![c] = Tail(inbox[c])] /\ inbox[c] # <<>>
      BY <2>2 DEF ClientRead
    <3>2. Ordered(Tail(inbox[c])) /\ Bounded(Tail(inbox[c]), got[c])
      BY <1>0, <3>1, TailOrdered DEF BufferInv
    <3> QED  BY <1>0, <2>0, <3>1, <3>2 DEF BufferInv
  <2>3. CASE ClientClose(c)
    <3>1. inbox' = [inbox EXCEPT ![c] = <<>>]
      BY <2>3 DEF ClientClose
    <3>2. Ordered(<<>>) /\ Bounded(<<>>, got[c])
      BY DEF Ordered, Bounded
    <3> QED  BY <1>0, <2>0, <3>1, <3>2 DEF BufferInv
  <2> QED  BY <1>7, <2>1, <2>2, <2>3 DEF Client
<1>8. CASE UNCHANGED vars
  BY <1>1, <1>8 DEF vars, history
<1> QED  BY <1>2, <1>3, <1>4, <1>5, <1>6, <1>s, <1>7, <1>8 DEF Next

(* Broadcast is totally ordered and gap-free for every subscriber.         *)
THEOREM EventsSafe == Spec => []EventsInOrder
<1>1. Init => HeardInv /\ BufferInv
  BY DEF Init, HeardInv, BufferInv, Ordered, Bounded
<1>2. TypeOK /\ HeardInv /\ [Next]_vars => HeardInv'
  BY StepHeard
<1>3. TypeOK /\ HeardInv /\ BufferInv /\ [Next]_vars => BufferInv'
  BY StepBuffer
<1>4. HeardInv /\ BufferInv => EventsInOrder
  BY EventsParts DEF EventsInv
<1> QED  BY <1>1, <1>2, <1>3, <1>4, TypeCorrect, PTL DEF Spec
=============================================================================
