---------------------------- MODULE HttpdProofs -----------------------------
(***************************************************************************)
(* Proofs about Httpd and ConfigFile, for any number of connections,       *)
(* requests, saves and restarts, any file and any form.                    *)
(*                                                                         *)
(* Sessions.  The session table forgets: a login collects what is too old, *)
(* a restart drops it all.  So what a thread was let through for can only  *)
(* be said of the history of logins; the inductive invariant says that the *)
(* table is always a part of it, at the same times.                        *)
(*                                                                         *)
(* The file.  What apply_settings computes is proved first, loop by loop.  *)
(* Every loop is a recursive function with an invariant: for the lines it  *)
(* is Reading, for flush_section Flushed, for new sections Creating, all   *)
(* about Sound, which relates what is written to what was read.  Then the  *)
(* inductive invariant FileInv: who has the text in hand, and of which     *)
(* file it was computed.                                                   *)
(*                                                                         *)
(* The passwords.  That a thread asked for the configured password, and    *)
(* not for the one of a file another thread is writing, needs both:        *)
(* LoginInv says it of the loads FileInv vouches for.                      *)
(***************************************************************************)
EXTENDS Httpd, NaturalsInduction, WellFoundedInduction, SequenceTheorems, TLAPS

Places == {"idle", "load", "route", "authed", "write", "writing"}
Parts  == {"pc", "req", "cfg", "text", "at"}

\* A thread's state is a record with these fields, whatever the texts in it are.
ThreadShape(t, clock) ==
    /\ t = [x \in Parts |-> t[x]]
    /\ t.pc \in Places /\ t.req.token \in Token \cup {NoToken} /\ t.at \in 0 .. clock

Clocks   == now \in 0 .. MaxTime /\ count \in 0 .. MaxRequests
Threads  == conn = [c \in Conn |-> conn[c]] /\ \A c \in Conn : ThreadShape(conn[c], now)
Given    == \A l \in logins : l.token \in Token /\ l.at \in 0 .. now
Table    == /\ sessions \subseteq [token : Token, at : 0 .. now]
            /\ \A s \in sessions : \E l \in logins : l.token = s.token /\ l.at = s.at
OneEach  == \A s, t \in sessions : s.token = t.token => s = t

SessionInv == Clocks /\ Given /\ Table /\ OneEach /\ SessionsBounded

LetThrough(t, given) ==
    (t.pc \in {"authed", "write", "writing"}) /\ AuthRequired(t.cfg) =>
        /\ \E l \in given : l.token = t.req.token /\ t.at - l.at < SESSION_TTL
        /\ t.pc \in {"write", "writing"} => t.req.csrf = t.req.token

AuthInv == \A c \in Conn : LetThrough(conn[c], logins)

IInv == SessionInv /\ Threads /\ AuthInv

LEMMA Bounds == SESSION_TTL \in Nat /\ SESSION_TTL > 0 /\ MaxTime \in Nat /\ MaxRequests \in Nat
BY HttpdAssumption

-----------------------------------------------------------------------------
LEMMA IdleThread ==
    ASSUME NEW clock \in Nat, NEW given
    PROVE  ThreadShape(Idle, clock) /\ LetThrough(Idle, given)
<1>1. /\ Idle.pc = "idle" /\ Idle.req = NoReq /\ Idle.cfg = NoCfg /\ Idle.text = <<>> /\ Idle.at = 0
      /\ NoReq.token = NoToken
  BY DEF Idle, NoReq
<1>2. Idle = [x \in Parts |-> Idle[x]]
  BY DEF Idle, Parts
<1> QED
  BY <1>1, <1>2 DEF ThreadShape, LetThrough, Places

LEMMA InitIInv == Init => IInv
<1> SUFFICES ASSUME Init PROVE IInv
  OBVIOUS
<1>1. SessionInv
  BY Bounds DEF Init, SessionInv, Clocks, Given, Table, OneEach, SessionsBounded
<1>2. \A c \in Conn : conn[c] = Idle
  BY DEF Init
<1>3. ThreadShape(Idle, 0)
  BY IdleThread
<1>4. Threads
  BY <1>2, <1>3 DEF Threads, Init
<1>5. AuthInv
  BY <1>2 DEF AuthInv, LetThrough, Idle
<1> QED
  BY <1>1, <1>4, <1>5 DEF IInv

-----------------------------------------------------------------------------
(* One thread moves, the others do not.                                    *)

OnlyMoves(c) == conn' = [d \in Conn |-> conn'[d]] /\ \A d \in Conn \ {c} : conn'[d] = conn[d]

\* Time goes on and no login is forgotten.
Onward == now' \in Nat /\ now <= now' /\ logins \subseteq logins'

LEMMA ThreadsKept ==
    ASSUME Clocks, Threads, AuthInv, Onward, NEW c \in Conn, OnlyMoves(c),
           ThreadShape(conn'[c], now'), LetThrough(conn'[c], logins')
    PROVE  Threads' /\ AuthInv'
<1>1. ASSUME NEW d \in Conn PROVE ThreadShape(conn'[d], now')
  <2>1. CASE d = c
    BY <2>1
  <2>2. CASE d # c
    <3>1. conn'[d] = conn[d] /\ ThreadShape(conn[d], now)
      BY <2>2 DEF OnlyMoves, Threads
    <3>2. now \in Nat /\ now' \in Nat /\ now <= now'
      BY Bounds DEF Clocks, Onward
    <3> QED
      BY <3>1, <3>2 DEF ThreadShape
  <2> QED
    BY <2>1, <2>2
<1>2. ASSUME NEW d \in Conn PROVE LetThrough(conn'[d], logins')
  <2>1. CASE d = c
    BY <2>1
  <2>2. CASE d # c
    BY <2>2 DEF OnlyMoves, AuthInv, LetThrough, Onward
  <2> QED
    BY <2>1, <2>2
<1> QED
  BY <1>1, <1>2 DEF Threads, AuthInv, OnlyMoves

\* A thread that responds is idle, whatever it was.
LEMMA Responds ==
    ASSUME Clocks, Threads, AuthInv, Onward, NEW c \in Conn, Respond(c)
    PROVE  Threads' /\ AuthInv'
<1>1. OnlyMoves(c) /\ conn'[c] = Idle
  BY DEF OnlyMoves, Respond, Threads
<1>2. ThreadShape(Idle, now') /\ LetThrough(Idle, logins')
  BY IdleThread DEF Onward
<1> QED
  BY <1>1, <1>2, ThreadsKept

\* The fields of what a thread becomes.
IsThread(t, pc, req, cfg, text, at) ==
    /\ t = [x \in Parts |-> t[x]]
    /\ t.pc = pc /\ t.req = req /\ t.cfg = cfg /\ t.text = text /\ t.at = at

LEMMA Fields ==
    ASSUME NEW t, t = [y \in Parts |-> t[y]], NEW pc, NEW x
    PROVE  /\ IsThread([t EXCEPT !.pc = pc], pc, t.req, t.cfg, t.text, t.at)
           /\ IsThread([t EXCEPT !.pc = pc, !.req = x], pc, x, t.cfg, t.text, t.at)
           /\ IsThread([t EXCEPT !.pc = pc, !.cfg = x], pc, t.req, x, t.text, t.at)
           /\ IsThread([t EXCEPT !.pc = pc, !.text = x], pc, t.req, t.cfg, x, t.at)
           /\ IsThread([t EXCEPT !.pc = pc, !.at = x], pc, t.req, t.cfg, t.text, x)
BY DEF IsThread, Parts

\* The step of one thread, field by field.
LEMMA Moves ==
    ASSUME Threads, NEW c \in Conn, NEW pc, NEW x
    PROVE  LET t == conn[c] IN
           /\ conn' = [conn EXCEPT ![c].pc = pc] =>
                 OnlyMoves(c) /\ IsThread(conn'[c], pc, t.req, t.cfg, t.text, t.at)
           /\ conn' = [conn EXCEPT ![c].pc = pc, ![c].cfg = x] =>
                 OnlyMoves(c) /\ IsThread(conn'[c], pc, t.req, x, t.text, t.at)
           /\ conn' = [conn EXCEPT ![c].pc = pc, ![c].text = x] =>
                 OnlyMoves(c) /\ IsThread(conn'[c], pc, t.req, t.cfg, x, t.at)
           /\ conn' = [conn EXCEPT ![c].pc = pc, ![c].at = x] =>
                 OnlyMoves(c) /\ IsThread(conn'[c], pc, t.req, t.cfg, t.text, x)
<1> DEFINE t == conn[c]
<1>1. t = [y \in Parts |-> t[y]]
  BY DEF Threads, ThreadShape
<1>2. /\ conn' = [conn EXCEPT ![c].pc = pc] => OnlyMoves(c) /\ conn'[c] = [t EXCEPT !.pc = pc]
      /\ conn' = [conn EXCEPT ![c].pc = pc, ![c].cfg = x] =>
            OnlyMoves(c) /\ conn'[c] = [t EXCEPT !.pc = pc, !.cfg = x]
      /\ conn' = [conn EXCEPT ![c].pc = pc, ![c].text = x] =>
            OnlyMoves(c) /\ conn'[c] = [t EXCEPT !.pc = pc, !.text = x]
      /\ conn' = [conn EXCEPT ![c].pc = pc, ![c].at = x] =>
            OnlyMoves(c) /\ conn'[c] = [t EXCEPT !.pc = pc, !.at = x]
  BY DEF OnlyMoves, Threads
<1> HIDE DEF t
<1>3. /\ IsThread([t EXCEPT !.pc = pc], pc, t.req, t.cfg, t.text, t.at)
      /\ IsThread([t EXCEPT !.pc = pc, !.cfg = x], pc, t.req, x, t.text, t.at)
      /\ IsThread([t EXCEPT !.pc = pc, !.text = x], pc, t.req, t.cfg, x, t.at)
      /\ IsThread([t EXCEPT !.pc = pc, !.at = x], pc, t.req, t.cfg, t.text, x)
  BY <1>1, Fields
<1> QED
  BY <1>2, <1>3 DEF t

-----------------------------------------------------------------------------
(* The session table.                                                      *)

LEMMA InsertKeeps ==
    ASSUME SessionInv, NEW token \in Token, sessions' = Insert(token), NEW pw, NEW clean,
           logins' = logins \cup {[token |-> token, at |-> now, password |-> pw, clean |-> clean]}, now' = now, count' = count
    PROVE  SessionInv'
<1> DEFINE fresh == [token |-> token, at |-> now]
<1>1. now \in Nat /\ fresh \in [token : Token, at : 0 .. now] /\ fresh.token = token /\ fresh.at = now
  BY Bounds DEF SessionInv, Clocks
<1>2. ASSUME NEW s \in sessions PROVE s.at \in 0 .. now
  BY DEF SessionInv, Table
<1>3. ASSUME NEW s \in sessions'
      PROVE  s = fresh \/ (s \in sessions /\ now - s.at < SESSION_TTL /\ s.token # token)
  BY DEF Insert, Young
<1> HIDE DEF fresh
<1>4. Clocks'
  BY DEF SessionInv, Clocks
<1> DEFINE login == [token |-> token, at |-> now, password |-> pw, clean |-> clean]
<1>l. logins' = logins \cup {login} /\ login.token = token /\ login.at = now
  OBVIOUS
<1> HIDE DEF login
<1>g. Given'
  BY <1>1, <1>l DEF SessionInv, Given
<1>5. Table'
  <2>1. \A s \in sessions' : s \in [token : Token, at : 0 .. now]
    BY <1>1, <1>3 DEF SessionInv, Table
  <2>2. ASSUME NEW s \in sessions' PROVE \E l \in logins' : l.token = s.token /\ l.at = s.at
    BY <1>1, <1>3, <1>l DEF SessionInv, Table
  <2> QED
    BY <2>1, <2>2 DEF Table
<1>6. OneEach'
  BY <1>1, <1>3 DEF SessionInv, OneEach
<1>7. ASSUME NEW s \in sessions', NEW t \in sessions' PROVE s.at - t.at < SESSION_TTL
  BY <1>1, <1>2, <1>3, Bounds DEF SessionInv, SessionsBounded
<1> QED
  BY <1>g, <1>4, <1>5, <1>6, <1>7 DEF SessionInv, SessionsBounded

LEMMA TableKept ==
    ASSUME SessionInv, sessions' \in {sessions, {}}, logins' = logins,
           now' \in 0 .. MaxTime, now <= now', count' \in 0 .. MaxRequests
    PROVE  SessionInv'
<1>1. now \in Nat
  BY Bounds DEF SessionInv, Clocks
<1>2. Clocks'
  BY DEF Clocks
<1>3. Table' /\ Given'
  BY <1>1, Bounds DEF SessionInv, Table, Given, Clocks
<1> QED
  BY <1>2, <1>3 DEF SessionInv, OneEach, SessionsBounded

-----------------------------------------------------------------------------
(* The steps of a thread.                                                  *)

\* A thread that goes on with its request has the shape; it is let through if
\* it is not yet past the check, or has what the check asks for.
LEMMA GoesOn ==
    ASSUME Clocks, Threads, AuthInv, Onward, NEW c \in Conn, OnlyMoves(c),
           NEW pc \in Places, NEW cfg, NEW text, NEW at \in 0 .. now',
           IsThread(conn'[c], pc, conn[c].req, cfg, text, at),
           pc \in {"idle", "load", "route"} \/ LetThrough(conn'[c], logins')
    PROVE  Threads' /\ AuthInv'
<1>1. conn[c].req.token \in Token \cup {NoToken}
  BY DEF Threads, ThreadShape
<1>2. ThreadShape(conn'[c], now')
  BY <1>1 DEF ThreadShape, IsThread
<1>3. LetThrough(conn'[c], logins')
  BY DEF LetThrough, IsThread
<1> QED
  BY <1>2, <1>3, ThreadsKept

LEMMA AcceptKeeps ==
    ASSUME SessionInv, Threads, AuthInv, NEW c \in Conn, NEW kind, NEW token \in Token \cup {NoToken},
           NEW csrf, NEW pw, NEW form, Accept(c, kind, token, csrf, pw, form)
    PROVE  SessionInv' /\ Threads' /\ AuthInv'
<1> DEFINE r == [kind |-> kind, token |-> token, csrf |-> csrf, password |-> pw, form |-> form]
           t == [Idle EXCEPT !.pc = "load", !.req = r]
<1>1. now \in Nat /\ now' = now /\ logins' = logins /\ sessions' = sessions /\ count' = count + 1
      /\ count \in Nat /\ count < MaxRequests
  BY Bounds DEF Accept, SessionInv, Clocks
<1>2. SessionInv'
  <2>1. now' \in 0 .. MaxTime /\ now <= now' /\ count' \in 0 .. MaxRequests
    BY <1>1, Bounds DEF SessionInv, Clocks
  <2> QED
    BY <1>1, <2>1, TableKept
<1>3. OnlyMoves(c) /\ conn'[c] = t
  BY DEF Accept, OnlyMoves, Threads
<1>4. r.token = token
  OBVIOUS
<1> HIDE DEF r
<1>5. IsThread(t, "load", r, NoCfg, <<>>, 0)
  <2>1. Idle = [x \in Parts |-> Idle[x]] /\ Idle.cfg = NoCfg /\ Idle.text = <<>> /\ Idle.at = 0
    BY DEF Idle, Parts
  <2>2. IsThread([Idle EXCEPT !.pc = "load", !.req = r], "load", r, Idle.cfg, Idle.text, Idle.at)
    BY <2>1, Fields
  <2> QED
    BY <2>1, <2>2
<1> HIDE DEF t
<1>6. ThreadShape(t, now') /\ LetThrough(t, logins')
  BY <1>1, <1>4, <1>5 DEF ThreadShape, LetThrough, IsThread, Places
<1>7. Onward
  BY <1>1 DEF Onward
<1> QED
  BY <1>2, <1>3, <1>6, <1>7, ThreadsKept DEF SessionInv

LEMMA RequestKeeps ==
    ASSUME IInv, NEW c \in Conn, Request(c)
    PROVE  IInv'
<1>1. NoToken \in Token \cup {NoToken} /\ \A token \in Known : token \in Token \cup {NoToken}
  BY Bounds DEF IInv, SessionInv, Given, Known, Token, ZeroToken
<1>2. SessionInv /\ Threads /\ AuthInv
  BY DEF IInv
<1>3. ASSUME NEW kind, NEW token \in Token \cup {NoToken}, NEW csrf, NEW pw, NEW form,
             Accept(c, kind, token, csrf, pw, form)
      PROVE  IInv'
  BY <1>2, <1>3, AcceptKeeps DEF IInv
<1>4. CASE Accept(c, "page", NoToken, NoToken, "", {})
  BY <1>1, <1>3, <1>4
<1>5. ASSUME NEW pw \in Password, Accept(c, "login", NoToken, NoToken, pw, {}) PROVE IInv'
  BY <1>1, <1>3, <1>5
<1>6. ASSUME NEW token \in Known, Accept(c, "fragment", token, NoToken, "", {}) PROVE IInv'
  BY <1>1, <1>3, <1>6
<1>7. ASSUME NEW token \in Known, NEW csrf \in {token, NoToken},
             \/ Accept(c, "reboot", token, csrf, "", {})
             \/ \E form \in Forms : Accept(c, "save", token, csrf, "", form)
      PROVE  IInv'
  BY <1>1, <1>3, <1>7
<1> QED
  BY <1>4, <1>5, <1>6, <1>7 DEF Request

\* A step that leaves the sessions and the clock alone.
LEMMA Still ==
    ASSUME IInv, now' = now, count' = count, sessions' = sessions, logins' = logins
    PROVE  Onward /\ SessionInv'
<1>1. now \in Nat /\ now <= now /\ now \in 0 .. MaxTime /\ count \in 0 .. MaxRequests /\ SessionInv
  BY Bounds DEF IInv, SessionInv, Clocks
<1> QED
  BY <1>1, TableKept DEF Onward

LEMMA StepKeeps ==
    ASSUME IInv, NEW c \in Conn, Step(c)
    PROVE  IInv'
<1>0. SessionInv /\ Clocks /\ Threads /\ AuthInv
  BY DEF IInv, SessionInv
<1>q. now \in Nat /\ now \in 0 .. now
  BY <1>0, Bounds DEF Clocks
<1>at. conn[c].at \in 0 .. now /\ conn[c].req.token \in Token \cup {NoToken}
  BY <1>0 DEF Threads, ThreadShape
<1>1. ASSUME Respond(c), now' = now, count' = count, sessions' = sessions, logins' = logins PROVE IInv'
  BY <1>0, <1>1, Still, Responds DEF IInv
<1>2. CASE Load(c)
  <2>1. now' = now /\ count' = count /\ sessions' = sessions /\ logins' = logins
    BY <1>2 DEF Load, quiet
  <2>2. OnlyMoves(c) /\ IsThread(conn'[c], "route", conn[c].req, Loaded, conn[c].text, conn[c].at)
    BY <1>0, <1>2, Moves DEF Load
  <2>3. "route" \in Places
    BY DEF Places
  <2>4. Onward /\ SessionInv' /\ conn[c].at \in 0 .. now'
    BY <2>1, <1>at, Still
  <2> QED
    BY <1>0, <2>2, <2>3, <2>4, GoesOn DEF IInv
<1>3. CASE Page(c) \/ Unauthorized(c) \/ Harmless(c) \/ SaveOpenFails(c)
  BY <1>1, <1>3 DEF Page, Unauthorized, Harmless, SaveOpenFails, quiet
<1>4. CASE Reboot(c) \/ SaveWrite(c) \/ SaveWriteFails(c)
  BY <1>1, <1>4 DEF Reboot, SaveWrite, SaveWriteFails
<1>5. CASE Login(c)
  <2>1. now' = now /\ count' = count /\ Respond(c)
    BY <1>5 DEF Login
  <2>2. CASE UNCHANGED <<sessions, logins>>
    BY <1>1, <2>1, <2>2
  <2>3. CASE \E token \in {ZeroToken, count} :
               /\ sessions' = Insert(token)
               /\ logins' = logins \cup {[token |-> token, at |-> now, password |-> conn[c].req.password,
                                              clean |-> conn[c].cfg.clean]}
    <3>1. PICK token \in {ZeroToken, count} :
               /\ sessions' = Insert(token)
               /\ logins' = logins \cup {[token |-> token, at |-> now, password |-> conn[c].req.password,
                                              clean |-> conn[c].cfg.clean]}
      BY <2>3
    <3>2. token \in Token
      BY <1>0, Bounds DEF Clocks, Token, ZeroToken
    <3>3. SessionInv'
      BY <1>0, <2>1, <3>1, <3>2, InsertKeeps
    <3>4. Onward
      BY <1>q, <2>1, <3>1 DEF Onward
    <3> QED
      BY <1>0, <2>1, <3>3, <3>4, Responds DEF IInv
  <2> QED
    BY <1>5, <2>2, <2>3 DEF Login
<1>6. CASE Authorized(c)
  <2>1. now' = now /\ count' = count /\ sessions' = sessions /\ logins' = logins
    BY <1>6 DEF Authorized, quiet
  <2>2. OnlyMoves(c) /\ IsThread(conn'[c], "authed", conn[c].req, conn[c].cfg, conn[c].text, now)
    BY <1>0, <1>6, Moves DEF Authorized
  <2>3. AuthRequired(conn[c].cfg) => \E l \in logins : l.token = conn[c].req.token /\ now - l.at < SESSION_TTL
    BY <1>0, <1>6 DEF Authorized, IsAuthed, Valid, Young, SessionInv, Table
  <2>4. LetThrough(conn'[c], logins')
    BY <2>1, <2>2, <2>3 DEF LetThrough, IsThread
  <2>5. "authed" \in Places
    BY DEF Places
  <2>6. Onward /\ SessionInv' /\ now \in 0 .. now'
    BY <2>1, <1>q, Still
  <2> QED
    BY <1>0, <2>2, <2>4, <2>5, <2>6, GoesOn DEF IInv
<1>7. CASE SaveRead(c)
  <2> DEFINE new == ApplySettings(Text, Updates(conn[c].req.form))
  <2>1. now' = now /\ count' = count /\ sessions' = sessions /\ logins' = logins
    BY <1>7 DEF SaveRead
  <2>2. OnlyMoves(c) /\ IsThread(conn'[c], "write", conn[c].req, conn[c].cfg, new, conn[c].at)
    <3>1. conn' = [conn EXCEPT ![c].pc = "write", ![c].text = new]
      BY <1>7 DEF SaveRead
    <3> HIDE DEF new
    <3> QED
      BY <1>0, <3>1, Moves
  <2> HIDE DEF new
  <2>3. LetThrough(conn[c], logins)
    BY <1>0 DEF AuthInv
  <2>4. conn[c].pc = "authed" /\ (AuthRequired(conn[c].cfg) => conn[c].req.csrf = conn[c].req.token)
    BY <1>7 DEF SaveRead, SaveAllowed, CsrfOk
  <2>5. LetThrough(conn'[c], logins')
    BY <2>1, <2>2, <2>3, <2>4 DEF LetThrough, IsThread
  <2>6. "write" \in Places
    BY DEF Places
  <2>7. Onward /\ SessionInv' /\ conn[c].at \in 0 .. now'
    BY <2>1, <1>at, Still
  <2> QED
    BY <1>0, <2>2, <2>5, <2>6, <2>7, GoesOn DEF IInv
<1>8. CASE SaveOpen(c)
  <2>1. now' = now /\ count' = count /\ sessions' = sessions /\ logins' = logins
    BY <1>8 DEF SaveOpen
  <2>2. OnlyMoves(c) /\ IsThread(conn'[c], "writing", conn[c].req, conn[c].cfg, conn[c].text, conn[c].at)
    BY <1>0, <1>8, Moves DEF SaveOpen
  <2>3. LetThrough(conn[c], logins) /\ conn[c].pc = "write"
    BY <1>0, <1>8 DEF AuthInv, SaveOpen
  <2>4. LetThrough(conn'[c], logins')
    BY <2>1, <2>2, <2>3 DEF LetThrough, IsThread
  <2>5. "writing" \in Places
    BY DEF Places
  <2>6. Onward /\ SessionInv' /\ conn[c].at \in 0 .. now'
    BY <2>1, <1>at, Still
  <2> QED
    BY <1>0, <2>2, <2>4, <2>5, <2>6, GoesOn DEF IInv
<1> QED
  BY <1>2, <1>3, <1>4, <1>5, <1>6, <1>7, <1>8 DEF Step

LEMMA NextKeeps == IInv /\ [Next]_vars => IInv'
<1> SUFFICES ASSUME IInv, [Next]_vars PROVE IInv'
  OBVIOUS
<1>0. SessionInv /\ Clocks /\ Threads /\ AuthInv /\ now \in Nat
  BY Bounds DEF IInv, SessionInv, Clocks
<1>1. CASE Tick
  <2>1. now' \in 0 .. MaxTime /\ now' \in Nat /\ now <= now' /\ count' \in 0 .. MaxRequests
        /\ sessions' = sessions /\ logins' = logins /\ conn' = conn
    BY <1>0, <1>1, Bounds DEF Tick, Clocks
  <2>2. SessionInv'
    BY <1>0, <2>1, TableKept
  <2>3. \A c \in Conn : ThreadShape(conn[c], now')
    BY <1>0, <2>1 DEF Threads, ThreadShape
  <2> QED
    BY <1>0, <2>1, <2>2, <2>3 DEF IInv, Threads, AuthInv
<1>2. CASE Crash
  <2>1. now' = now /\ now \in 0 .. MaxTime /\ now <= now' /\ count' \in 0 .. MaxRequests
        /\ sessions' = {} /\ logins' = logins /\ conn' = [c \in Conn |-> Idle]
    BY <1>0, <1>2 DEF Crash, Clocks
  <2>2. SessionInv'
    BY <1>0, <2>1, TableKept
  <2>3. ThreadShape(Idle, now') /\ LetThrough(Idle, logins')
    BY <1>0, <2>1, IdleThread
  <2> QED
    BY <2>1, <2>2, <2>3 DEF IInv, Threads, AuthInv
<1>3. ASSUME NEW c \in Conn, Request(c) PROVE IInv'
  BY <1>3, RequestKeeps
<1>4. ASSUME NEW c \in Conn, Step(c) PROVE IInv'
  BY <1>4, StepKeeps
<1>5. CASE UNCHANGED vars
  BY <1>5 DEF vars, IInv, SessionInv, Clocks, Given, Table, OneEach, SessionsBounded, Threads, AuthInv
<1> QED
  BY <1>1, <1>2, <1>3, <1>4, <1>5 DEF Next

LEMMA Invariance == Spec => []IInv
<1>1. Init => IInv
  BY InitIInv
<1>2. IInv /\ [Next]_vars => IInv'
  BY NextKeeps
<1> QED
  BY <1>1, <1>2, PTL DEF Spec

-----------------------------------------------------------------------------
(* Numbers.                                                                *)

LEMMA Smallest ==
    ASSUME NEW S \in SUBSET Nat, S # {}
    PROVE  \E o \in S : \A p \in S : o <= p
<1> DEFINE less == OpToRel(<, Nat)
<1>1. IsWellFoundedOn(less, Nat)
  BY NatLessThanWellFounded
<1>2. less = {ss \in Nat \X Nat : ss[1] < ss[2]}
  BY DEF OpToRel
<1> HIDE DEF less
<1>3. PICK o \in S : \A p \in S : ~(<<p, o>> \in less)
  BY <1>1, WFMin
<1>4. ASSUME NEW p \in S PROVE o <= p
  <2>1. o \in Nat /\ p \in Nat /\ (p < o => <<p, o>> \in less)
    BY <1>2
  <2> QED
    BY <1>3, <2>1
<1> QED
  BY <1>4

\* Induction up to N, on a set instead of a predicate.
LEMMA UpTo ==
    ASSUME NEW N \in Nat, NEW S, 0 \in S, \A n \in 0 .. N : n + 1 \in 0 .. N /\ n \in S => n + 1 \in S
    PROVE  \A n \in 0 .. N : n \in S
<1> DEFINE M == {n \in 0 .. N : n \notin S}
<1> SUFFICES ASSUME M # {} PROVE FALSE
  OBVIOUS
<1>0. M \in SUBSET Nat
  OBVIOUS
<1>1. PICK o \in M : \A p \in M : o <= p
  BY <1>0, Smallest
<1>2. o - 1 \in 0 .. N /\ o - 1 \notin M /\ (o - 1) + 1 = o /\ o \in 0 .. N
  BY <1>1
<1> QED
  BY <1>1, <1>2

LEMMA Largest ==
    ASSUME NEW N \in Nat, NEW S, S \subseteq 0 .. N, S # {}
    PROVE  Max(S) \in S /\ \A x \in S : x <= Max(S)
<1> DEFINE D == {d \in 0 .. N : N - d \in S}
<1>0. \A x \in S : x \in 0 .. N
  OBVIOUS
<1>1. D \in SUBSET Nat /\ \A x \in S : N - x \in D
  <2>1. ASSUME NEW x \in S PROVE N - x \in D
    <3>1. x \in 0 .. N
      BY <1>0
    <3>2. N - x \in 0 .. N /\ N - (N - x) = x
      BY <3>1
    <3> QED
      BY <3>2
  <2> QED
    BY <2>1
<1>2. PICK o \in D : \A p \in D : o <= p
  BY <1>1, Smallest
<1>3. N - o \in S /\ o \in 0 .. N
  BY <1>2
<1> HIDE DEF D
<1>4. \A x \in S : N - o >= x
  <2> TAKE x \in S
  <2>1. x \in 0 .. N /\ o <= N - x
    BY <1>0, <1>1, <1>2
  <2> QED
    BY <1>3, <2>1
<1>5. Max(S) \in S /\ \A x \in S : Max(S) >= x
  BY <1>3, <1>4 DEF Max
<1>6. ASSUME NEW x \in S PROVE x <= Max(S)
  <2>1. x \in 0 .. N /\ Max(S) \in 0 .. N /\ Max(S) >= x
    BY <1>0, <1>5
  <2> QED
    BY <2>1
<1> QED
  BY <1>5, <1>6

LEMMA LargestIs ==
    ASSUME NEW N \in Nat, NEW S, S \subseteq 0 .. N, NEW m \in S, \A x \in S : x <= m
    PROVE  Max(S) = m
<1>1. Max(S) \in S /\ \A x \in S : x <= Max(S)
  BY Largest
<1>2. Max(S) \in 0 .. N /\ m \in 0 .. N
  BY <1>1
<1>3. m <= Max(S) /\ Max(S) <= m
  BY <1>1
<1> QED
  BY <1>2, <1>3

LEMMA Least ==
    ASSUME NEW S \in SUBSET Nat, S # {}
    PROVE  Min(S) \in S
<1>1. PICK o \in S : \A p \in S : o <= p
  BY Smallest
<1> QED
  BY <1>1 DEF Min

-----------------------------------------------------------------------------
(* What one more line makes of a text.                                     *)

LEMMA SeqShape ==
    ASSUME NEW T, NEW t \in Seq(T)
    PROVE  Len(t) \in Nat /\ DOMAIN t = 1 .. Len(t) /\ DOMAIN t \subseteq 0 .. Len(t)
OBVIOUS

LEMMA Appended ==
    ASSUME NEW t \in Seq(Line), NEW l \in Line
    PROVE  /\ Append(t, l) \in Seq(Line) /\ Len(t) \in Nat /\ Len(Append(t, l)) = Len(t) + 1
           /\ DOMAIN t = 1 .. Len(t) /\ DOMAIN Append(t, l) = 1 .. Len(t) + 1
           /\ \A i \in 1 .. Len(t) : Append(t, l)[i] = t[i] /\ t[i] \in Line
           /\ Append(t, l)[Len(t) + 1] = l
OBVIOUS

\* The section of line i depends on the lines before it.
LEMMA SectionSame ==
    ASSUME NEW t \in Seq(Line), NEW l \in Line, NEW i \in 1 .. Len(t) + 1
    PROVE  SectionAt(Append(t, l), i) = SectionAt(t, i)
<1> DEFINE a == Append(t, l)
           B == {j \in ParseHeaders(t) : j < i}
<1>1. /\ Len(t) \in Nat /\ DOMAIN t = 1 .. Len(t) /\ DOMAIN a = 1 .. Len(t) + 1
      /\ \A j \in 1 .. Len(t) : a[j] = t[j]
  BY Appended
<1> HIDE DEF a
<1>2. \A j : j \in 1 .. Len(t) + 1 /\ j < i <=> j \in 1 .. Len(t) /\ j < i
  BY <1>1
<1>3. {j \in ParseHeaders(a) : j < i} = B
  BY <1>1, <1>2 DEF ParseHeaders
<1>4. B # {} => a[Max(B)] = t[Max(B)]
  <2> SUFFICES ASSUME B # {} PROVE a[Max(B)] = t[Max(B)]
    OBVIOUS
  <2>1. B \subseteq 0 .. Len(t)
    BY <1>1 DEF ParseHeaders
  <2>2. Max(B) \in B
    BY <1>1, <2>1, Largest
  <2>3. Max(B) \in 1 .. Len(t)
    BY <1>1, <2>2 DEF ParseHeaders
  <2> QED
    BY <1>1, <2>3
<1> HIDE DEF B
<1>5. SectionAt(a, i) = IF B = {} THEN "" ELSE a[Max(B)].name
  BY <1>3 DEF SectionAt
<1>6. SectionAt(t, i) = IF B = {} THEN "" ELSE t[Max(B)].name
  BY DEF SectionAt, B
<1> DEFINE m == Max(B)
<1>7. SectionAt(a, i) = SectionAt(t, i)
  <2>1. CASE B = {}
    BY <1>5, <1>6, <2>1
  <2>2. CASE B # {}
    <3> HIDE DEF m
    <3>1. a[m] = t[m] /\ SectionAt(a, i) = a[m].name /\ SectionAt(t, i) = t[m].name
      BY <1>4, <1>5, <1>6, <2>2 DEF m
    <3> QED
      BY <3>1
  <2> QED
    BY <2>1, <2>2
<1> QED
  BY <1>7 DEF a

\* The section a line after the text would be in.
EndSec(t) == SectionAt(t, Len(t) + 1)

LEMMA EndEmpty == EndSec(<<>>) = ""
BY DEF EndSec, SectionAt, ParseHeaders

LEMMA EndAppend ==
    ASSUME NEW t \in Seq(Line), NEW l \in Line
    PROVE  EndSec(Append(t, l)) = IF IsHeader(l) THEN l.name ELSE EndSec(t)
<1> DEFINE a == Append(t, l)
           n == Len(t) + 1
           B == {j \in ParseHeaders(a) : j < n + 1}
           C == {j \in ParseHeaders(t) : j < n}
<1>1. /\ Len(t) \in Nat /\ Len(a) = n /\ DOMAIN t = 1 .. Len(t) /\ DOMAIN a = 1 .. n
      /\ \A j \in 1 .. Len(t) : a[j] = t[j]
      /\ a[n] = l
  BY Appended
<1>2. EndSec(a) = IF B = {} THEN "" ELSE a[Max(B)].name
  BY <1>1 DEF EndSec, SectionAt
<1>3. EndSec(t) = IF C = {} THEN "" ELSE t[Max(C)].name
  BY DEF EndSec, SectionAt
<1> HIDE DEF a
<1>4. B \subseteq 0 .. n /\ n \in Nat
  BY <1>1 DEF ParseHeaders
<1>5. CASE IsHeader(l)
  <2>1. n \in B /\ \A x \in B : x <= n
    BY <1>1, <1>4, <1>5 DEF ParseHeaders
  <2>2. Max(B) = n
    BY <1>4, <2>1, LargestIs
  <2> HIDE DEF B, n
  <2>3. EndSec(a) = l.name
    BY <1>1, <1>2, <2>1, <2>2
  <2> QED
    BY <1>5, <2>3 DEF a
<1>6. CASE ~IsHeader(l)
  <2>1. \A j : j \in 1 .. n /\ j < n + 1 /\ j # n <=> j \in 1 .. Len(t) /\ j < n
    BY <1>1
  <2>2. B = C
    BY <1>1, <1>6, <2>1 DEF ParseHeaders
  <2>3. C # {} => Max(C) \in 1 .. Len(t)
    <3> SUFFICES ASSUME C # {} PROVE Max(C) \in 1 .. Len(t)
      OBVIOUS
    <3>1. C \subseteq 0 .. n
      BY <1>4, <2>2
    <3>2. Max(C) \in C
      BY <1>4, <3>1, Largest
    <3> QED
      BY <1>1, <3>2 DEF ParseHeaders
  <2> DEFINE m == Max(C)
  <2> HIDE DEF B, C, n
  <2>4. EndSec(a) = EndSec(t)
    <3>1. CASE C = {}
      BY <1>2, <1>3, <2>2, <3>1
    <3>2. CASE C # {}
      <4> HIDE DEF m
      <4>1. m \in 1 .. Len(t) /\ EndSec(a) = a[m].name /\ EndSec(t) = t[m].name
        BY <1>2, <1>3, <2>2, <2>3, <3>2 DEF m
      <4> QED
        BY <1>1, <4>1
    <3> QED
      BY <3>1, <3>2
  <2> QED
    BY <1>6, <2>4 DEF a
<1> QED
  BY <1>5, <1>6

\* The names of the headers of a text.
Names(t) == {t[i].name : i \in ParseHeaders(t)}

LEMMA NamesAppend ==
    ASSUME NEW t \in Seq(Line), NEW l \in Line
    PROVE  Names(Append(t, l)) = IF IsHeader(l) THEN Names(t) \cup {l.name} ELSE Names(t)
<1> DEFINE a == Append(t, l)
           n == Len(t) + 1
<1>1. /\ Len(t) \in Nat /\ DOMAIN t = 1 .. Len(t) /\ DOMAIN a = 1 .. n
      /\ \A j \in 1 .. Len(t) : a[j] = t[j]
      /\ a[n] = l
  BY Appended
<1>2. 1 .. n = 1 .. Len(t) \cup {n} /\ n \notin 1 .. Len(t)
  BY <1>1
<1> HIDE DEF a, n
<1>3. ParseHeaders(a) = IF IsHeader(l) THEN ParseHeaders(t) \cup {n} ELSE ParseHeaders(t)
  BY <1>1, <1>2 DEF ParseHeaders
<1>4. \A j \in ParseHeaders(t) : a[j] = t[j]
  BY <1>1 DEF ParseHeaders
<1>5. Names(a) = IF IsHeader(l) THEN Names(t) \cup {l.name} ELSE Names(t)
  BY <1>1, <1>3, <1>4 DEF Names
<1> QED
  BY <1>5 DEF a

\* The lines that set key k of section s.
Setting(t, s, k) == {i \in DOMAIN t : t[i].t = "kv" /\ t[i].name = k /\ SectionAt(t, i) = s}

LEMMA SettingAppend ==
    ASSUME NEW t \in Seq(Line), NEW l \in Line, NEW s, NEW k
    PROVE  Setting(Append(t, l), s, k) =
             IF l.t = "kv" /\ l.name = k /\ EndSec(t) = s THEN Setting(t, s, k) \cup {Len(t) + 1}
             ELSE Setting(t, s, k)
<1> DEFINE a == Append(t, l)
           n == Len(t) + 1
<1>1. /\ Len(t) \in Nat /\ DOMAIN t = 1 .. Len(t) /\ DOMAIN a = 1 .. n
      /\ \A j \in 1 .. Len(t) : a[j] = t[j]
      /\ a[n] = l
  BY Appended
<1>2. 1 .. n = 1 .. Len(t) \cup {n} /\ n \notin 1 .. Len(t) /\ n \in 1 .. n
  BY <1>1
<1>3. SectionAt(a, n) = EndSec(t) /\ \A j \in 1 .. Len(t) : SectionAt(a, j) = SectionAt(t, j)
  BY <1>2, SectionSame DEF EndSec
<1> HIDE DEF a, n
<1>4. Setting(a, s, k) =
             IF l.t = "kv" /\ l.name = k /\ EndSec(t) = s THEN Setting(t, s, k) \cup {n}
             ELSE Setting(t, s, k)
  BY <1>1, <1>2, <1>3 DEF Setting
<1> QED
  BY <1>4 DEF a, n

LEMMA KeysSetting ==
    ASSUME NEW t, NEW s, NEW k
    PROVE  [sec |-> s, key |-> k] \in Keys(t) <=> Setting(t, s, k) # {}
<1>1. \A x, y : [sec |-> s, key |-> k] = [sec |-> x, key |-> y] <=> s = x /\ k = y
  OBVIOUS
<1> QED
  BY <1>1 DEF Keys, Setting

LEMMA GetSetting ==
    ASSUME NEW t, NEW s, NEW k
    PROVE  Get(t, s, k) = IF Setting(t, s, k) = {} THEN NoValue ELSE t[Max(Setting(t, s, k))].text
BY DEF Get, Setting

\* The last line for a key wins, so one more line wins.
LEMMA GetAppend ==
    ASSUME NEW t \in Seq(Line), NEW l \in Line, NEW s, NEW k
    PROVE  Get(Append(t, l), s, k) =
             IF l.t = "kv" /\ l.name = k /\ EndSec(t) = s THEN l.text ELSE Get(t, s, k)
<1> DEFINE a == Append(t, l)
           n == Len(t) + 1
           A == Setting(a, s, k)
           T == Setting(t, s, k)
<1>1. /\ Len(t) \in Nat /\ DOMAIN t = 1 .. Len(t) /\ DOMAIN a = 1 .. n
      /\ \A j \in 1 .. Len(t) : a[j] = t[j]
      /\ a[n] = l
  BY Appended
<1>2. A = IF l.t = "kv" /\ l.name = k /\ EndSec(t) = s THEN T \cup {n} ELSE T
  BY SettingAppend
<1>3. T \subseteq 1 .. Len(t)
  BY <1>1 DEF Setting
<1>4. /\ Get(a, s, k) = IF A = {} THEN NoValue ELSE a[Max(A)].text
      /\ Get(t, s, k) = IF T = {} THEN NoValue ELSE t[Max(T)].text
  BY GetSetting
<1> HIDE DEF a, A, T
<1>5. CASE l.t = "kv" /\ l.name = k /\ EndSec(t) = s
  <2>1. A = T \cup {n} /\ n \in A /\ n \in Nat /\ \A x \in A : x <= n /\ x \in 0 .. n
    BY <1>1, <1>2, <1>3, <1>5
  <2>2. Max(A) = n
    BY <2>1, LargestIs
  <2> HIDE DEF n
  <2>3. Get(a, s, k) = l.text
    BY <1>1, <1>4, <2>1, <2>2
  <2> QED
    BY <1>5, <2>3 DEF a
<1>6. CASE ~(l.t = "kv" /\ l.name = k /\ EndSec(t) = s)
  <2> DEFINE m == Max(T)
  <2>0. T \subseteq 0 .. Len(t)
    BY <1>1, <1>3
  <2>1. T # {} => m \in T
    BY <1>1, <2>0, Largest
  <2>2. A = T
    BY <1>2, <1>6
  <2>3. CASE T = {}
    BY <1>4, <1>6, <2>2, <2>3 DEF a
  <2>4. CASE T # {}
    <3> HIDE DEF m
    <3>1. m \in 1 .. Len(t) /\ Get(a, s, k) = a[m].text /\ Get(t, s, k) = t[m].text
      BY <1>3, <1>4, <2>1, <2>2, <2>4 DEF m
    <3>2. Get(a, s, k) = Get(t, s, k)
      BY <1>1, <3>1
    <3> QED
      BY <1>6, <3>2 DEF a
  <2> QED
    BY <2>3, <2>4
<1> QED
  BY <1>5, <1>6

LEMMA KeysAppend ==
    ASSUME NEW t \in Seq(Line), NEW l \in Line, NEW s, NEW k
    PROVE  [sec |-> s, key |-> k] \in Keys(Append(t, l)) <=>
             (l.t = "kv" /\ l.name = k /\ EndSec(t) = s) \/ [sec |-> s, key |-> k] \in Keys(t)
<1> DEFINE a == Append(t, l)
           A == Setting(a, s, k)
           T == Setting(t, s, k)
<1>1. A = IF l.t = "kv" /\ l.name = k /\ EndSec(t) = s THEN T \cup {Len(t) + 1} ELSE T
  BY SettingAppend
<1>2. [sec |-> s, key |-> k] \in Keys(a) <=> A # {}
  BY KeysSetting
<1>3. [sec |-> s, key |-> k] \in Keys(t) <=> T # {}
  BY KeysSetting
<1> HIDE DEF A, T
<1> QED
  BY <1>1, <1>2, <1>3

\* A text stays plain with a header that is new, a line for a key that is new
\* in its section, or a line that is neither.
Fits(t, l) ==
    /\ IsHeader(l) => ~l.tail /\ l.name \notin Names(t)
    /\ l.t = "kv" => [sec |-> EndSec(t), key |-> l.name] \notin Keys(t)

LEMMA PlainAppend ==
    ASSUME NEW t \in Seq(Line), NEW l \in Line, Plain(t), Fits(t, l)
    PROVE  Plain(Append(t, l))
<1> DEFINE a == Append(t, l)
           n == Len(t) + 1
<1>1. /\ Len(t) \in Nat /\ DOMAIN t = 1 .. Len(t) /\ DOMAIN a = 1 .. n
      /\ \A j \in 1 .. Len(t) : a[j] = t[j]
      /\ a[n] = l
  BY Appended
<1>2. 1 .. n = 1 .. Len(t) \cup {n} /\ n \notin 1 .. Len(t) /\ n \in 1 .. n
  BY <1>1
<1>3. SectionAt(a, n) = EndSec(t) /\ \A j \in 1 .. Len(t) : SectionAt(a, j) = SectionAt(t, j)
  BY <1>2, SectionSame DEF EndSec
<1> HIDE DEF a, n
<1>4. IsHeader(l) => ~l.tail /\ \A j \in 1 .. Len(t) : IsHeader(t[j]) => t[j].name # l.name
  BY <1>1 DEF Fits, Names, ParseHeaders
<1>5. l.t = "kv" => \A j \in 1 .. Len(t) : t[j].t = "kv" /\ t[j].name = l.name => SectionAt(t, j) # EndSec(t)
  <2>1. l.t = "kv" => Setting(t, EndSec(t), l.name) = {}
    BY KeysSetting DEF Fits
  <2> QED
    BY <1>1, <2>1 DEF Setting
<1>6. \A i \in 1 .. n : IsHeader(a[i]) => ~a[i].tail
  BY <1>1, <1>2, <1>4 DEF Plain
<1>7. \A i, j \in 1 .. n : IsHeader(a[i]) /\ IsHeader(a[j]) /\ a[i].name = a[j].name => i = j
  BY <1>1, <1>2, <1>4 DEF Plain
<1>8. \A i, j \in 1 .. n : /\ a[i].t = "kv" /\ a[j].t = "kv" /\ a[i].name = a[j].name
                          /\ SectionAt(a, i) = SectionAt(a, j)
                          => i = j
  BY <1>1, <1>2, <1>3, <1>5 DEF Plain
<1>9. Plain(a)
  BY <1>1, <1>6, <1>7, <1>8 DEF Plain
<1> QED
  BY <1>9 DEF a

\* Conversely, every line of a plain text fits what stands before it.
LEMMA PlainFits ==
    ASSUME NEW t \in Seq(Line), NEW l \in Line, Plain(Append(t, l))
    PROVE  Plain(t) /\ Fits(t, l)
<1> DEFINE a == Append(t, l)
           n == Len(t) + 1
<1>1. /\ Len(t) \in Nat /\ DOMAIN t = 1 .. Len(t) /\ DOMAIN a = 1 .. n
      /\ \A j \in 1 .. Len(t) : a[j] = t[j]
      /\ a[n] = l
  BY Appended
<1>2. 1 .. n = 1 .. Len(t) \cup {n} /\ n \notin 1 .. Len(t) /\ n \in 1 .. n
  BY <1>1
<1>3. SectionAt(a, n) = EndSec(t) /\ \A j \in 1 .. Len(t) : SectionAt(a, j) = SectionAt(t, j)
  BY <1>2, SectionSame DEF EndSec
<1>4. Plain(a)
  OBVIOUS
<1> HIDE DEF a, n
<1>5. Plain(t)
  <2>1. \A i \in 1 .. Len(t) : IsHeader(t[i]) => ~t[i].tail
    BY <1>1, <1>2, <1>4 DEF Plain
  <2>2. \A i, j \in 1 .. Len(t) : IsHeader(t[i]) /\ IsHeader(t[j]) /\ t[i].name = t[j].name => i = j
    BY <1>1, <1>2, <1>4 DEF Plain
  <2>3. \A i, j \in 1 .. Len(t) : /\ t[i].t = "kv" /\ t[j].t = "kv" /\ t[i].name = t[j].name
                                 /\ SectionAt(t, i) = SectionAt(t, j)
                                 => i = j
    BY <1>1, <1>2, <1>3, <1>4 DEF Plain
  <2> QED
    BY <1>1, <2>1, <2>2, <2>3 DEF Plain
<1>6. IsHeader(l) => ~l.tail /\ l.name \notin Names(t)
  <2>1. IsHeader(l) => ~l.tail
    BY <1>1, <1>2, <1>4 DEF Plain
  <2>2. ASSUME IsHeader(l), NEW i \in 1 .. Len(t), IsHeader(t[i]), t[i].name = l.name PROVE FALSE
    BY <1>1, <1>2, <1>4, <2>2 DEF Plain
  <2> QED
    BY <1>1, <2>1, <2>2 DEF Names, ParseHeaders
<1>7. l.t = "kv" => [sec |-> EndSec(t), key |-> l.name] \notin Keys(t)
  <2>1. ASSUME l.t = "kv", NEW i \in Setting(t, EndSec(t), l.name) PROVE FALSE
    <3>1. i \in 1 .. Len(t) /\ t[i].t = "kv" /\ t[i].name = l.name /\ SectionAt(t, i) = EndSec(t)
      BY <1>1, <2>1 DEF Setting
    <3> QED
      BY <1>1, <1>2, <1>3, <1>4, <2>1, <3>1 DEF Plain
  <2> QED
    BY <2>1, KeysSetting
<1> QED
  BY <1>5, <1>6, <1>7 DEF Fits

-----------------------------------------------------------------------------
(* The lines that no key of `slots` is set on, with one more line.         *)

KeepLine(t, n, slots, sofar) ==
    IF t[n].t = "kv" /\ [sec |-> SectionAt(t, n), key |-> t[n].name] \in slots THEN sofar ELSE Append(sofar, t[n])

\* f tells what Kept keeps of the first n lines.
IsKept(f, t, slots, n) ==
    f = [i \in 0 .. n |-> IF i = 0 THEN <<>> ELSE KeepLine(t, i, slots, f[i - 1])]

LEMMA KeptExists ==
    ASSUME NEW t, NEW slots, NEW N \in Nat
    PROVE  \E f : IsKept(f, t, slots, N)
<1> DEFINE S == {n \in 0 .. N : \E f : IsKept(f, t, slots, n)}
<1>1. 0 \in S
  <2>1. IsKept([i \in 0 .. 0 |-> <<>>], t, slots, 0)
    BY DEF IsKept
  <2> QED
    BY <2>1
<1>2. ASSUME NEW n \in 0 .. N, n + 1 \in 0 .. N, n \in S PROVE n + 1 \in S
  <2>1. PICK f : IsKept(f, t, slots, n)
    BY <1>2
  <2> DEFINE new == KeepLine(t, n + 1, slots, f[n])
             g == [i \in 0 .. n + 1 |-> IF i = n + 1 THEN new ELSE f[i]]
  <2> HIDE DEF new
  <2>2. ASSUME NEW i \in 0 .. n + 1
        PROVE  g[i] = IF i = 0 THEN <<>> ELSE KeepLine(t, i, slots, g[i - 1])
    <3>1. CASE i = n + 1
      <4>1. g[i] = new /\ g[i - 1] = f[n] /\ i # 0
        BY <3>1
      <4> QED
        BY <3>1, <4>1 DEF new
    <3>2. CASE i # n + 1
      <4>1. i \in 0 .. n
        BY <3>2
      <4>2. g[i] = f[i] /\ (i # 0 => g[i - 1] = f[i - 1])
        BY <4>1
      <4>3. f[i] = IF i = 0 THEN <<>> ELSE KeepLine(t, i, slots, f[i - 1])
        BY <2>1, <4>1 DEF IsKept
      <4> QED
        BY <4>2, <4>3
    <3> QED
      BY <3>1, <3>2
  <2>3. IsKept(g, t, slots, n + 1)
    BY <2>2 DEF IsKept
  <2> QED
    BY <1>2, <2>3
<1> HIDE DEF S
<1>3. N \in S
  BY <1>1, <1>2, UpTo
<1> QED
  BY <1>3 DEF S

LEMMA KeptIs ==
    ASSUME NEW t \in Seq(Line), NEW slots
    PROVE  \E f : IsKept(f, t, slots, Len(t)) /\ Kept(t, slots) = f[Len(t)]
<1>1. \E f : IsKept(f, t, slots, Len(t))
  <2>1. Len(t) \in Nat
    OBVIOUS
  <2> QED
    BY <2>1, KeptExists
<1>2. IsKept(CHOOSE f : IsKept(f, t, slots, Len(t)), t, slots, Len(t))
  BY <1>1
<1>3. Kept(t, slots) = (CHOOSE f : IsKept(f, t, slots, Len(t)))[Len(t)]
  BY DEF Kept, IsKept, KeepLine
<1> QED
  BY <1>2, <1>3

LEMMA KeptAppend ==
    ASSUME NEW t \in Seq(Line), NEW l \in Line, NEW slots
    PROVE  Kept(Append(t, l), slots) =
             IF l.t = "kv" /\ [sec |-> EndSec(t), key |-> l.name] \in slots THEN Kept(t, slots)
             ELSE Append(Kept(t, slots), l)
<1> DEFINE a == Append(t, l)
           n == Len(t)
<1>1. /\ a \in Seq(Line) /\ n \in Nat /\ Len(a) = n + 1
      /\ \A j \in 1 .. n : a[j] = t[j]
      /\ a[n + 1] = l
  BY Appended
<1>s. SectionAt(a, n + 1) = EndSec(t) /\ \A j \in 1 .. n : SectionAt(a, j) = SectionAt(t, j)
  <2>1. n + 1 \in 1 .. n + 1 /\ \A j \in 1 .. n : j \in 1 .. n + 1
    BY <1>1
  <2> QED
    BY <2>1, SectionSame DEF EndSec
<1>2. PICK f : IsKept(f, t, slots, n) /\ Kept(t, slots) = f[n]
  BY KeptIs
<1>3. PICK g : IsKept(g, a, slots, n + 1) /\ Kept(a, slots) = g[n + 1]
  BY <1>1, KeptIs
<1> HIDE DEF a, n
<1> DEFINE S == {i \in 0 .. n : f[i] = g[i]}
<1>4. 0 \in S
  BY <1>1, <1>2, <1>3 DEF IsKept
<1>5. ASSUME NEW i \in 0 .. n, i + 1 \in 0 .. n, i \in S PROVE i + 1 \in S
  <2>1. i + 1 \in 1 .. n /\ i + 1 \in 0 .. n + 1 /\ (i + 1) - 1 = i /\ i + 1 # 0
    BY <1>1, <1>5
  <2>2. f[i + 1] = KeepLine(t, i + 1, slots, f[i]) /\ g[i + 1] = KeepLine(a, i + 1, slots, g[i])
    BY <1>2, <1>3, <1>5, <2>1 DEF IsKept
  <2>3. a[i + 1] = t[i + 1] /\ f[i] = g[i] /\ SectionAt(a, i + 1) = SectionAt(t, i + 1)
    BY <1>1, <1>s, <1>5, <2>1
  <2>4. f[i + 1] = g[i + 1]
    BY <2>2, <2>3 DEF KeepLine
  <2> QED
    BY <1>5, <2>4
<1> HIDE DEF S
<1>6. n \in S
  <2>1. n \in Nat
    BY <1>1
  <2>2. \A i \in 0 .. n : i \in S
    BY <1>4, <1>5, <2>1, UpTo
  <2> QED
    BY <2>1, <2>2
<1>7. n + 1 \in 0 .. n + 1 /\ (n + 1) - 1 = n /\ n + 1 # 0
  BY <1>1
<1>8. g[n + 1] = KeepLine(a, n + 1, slots, g[n])
  BY <1>3, <1>7 DEF IsKept
<1>9. Kept(a, slots) = KeepLine(a, n + 1, slots, Kept(t, slots))
  BY <1>2, <1>3, <1>6, <1>8 DEF S
<1> QED
  BY <1>1, <1>s, <1>9 DEF KeepLine, a

-----------------------------------------------------------------------------
(* apply_settings.  What it has written, `out`, is sound for the lines it  *)
(* has read, `old`, when the updates that are left have no line in it, the *)
(* others have theirs, and all other keys are as in `old`.                 *)

Value  == [text : Word, tail : BOOLEAN]
Update == [sec : Word, key : Word, val : Value \cup {NotSent}]

WellFormed(upd) ==
    /\ upd \in Seq(Update)
    /\ \A n \in DOMAIN upd : upd[n].sec # ""
    /\ \A m, n \in DOMAIN upd : upd[m].sec = upd[n].sec /\ upd[m].key = upd[n].key => m = n

\* The keys of these updates are among the slots.
Covers(slots, upd) == \A n \in Retained(upd) : [sec |-> upd[n].sec, key |-> upd[n].key] \in slots

Has(t, s, k) == [sec |-> s, key |-> k] \in Keys(t)

\* No update is for this key.
Free(upd, s, k) == \A n \in Retained(upd) : ~(upd[n].sec = s /\ upd[n].key = k)

Sound(out, left, old, upd) ==
    /\ out \in Seq(Line) /\ Plain(out) /\ left \subseteq Retained(upd)
    /\ \A n \in left : ~Has(out, upd[n].sec, upd[n].key)
    /\ \A n \in Retained(upd) \ left :
          Has(out, upd[n].sec, upd[n].key) /\ Get(out, upd[n].sec, upd[n].key) = upd[n].val.text
    /\ \A s, k : Free(upd, s, k) =>
          Get(out, s, k) = Get(old, s, k) /\ (Has(out, s, k) <=> Has(old, s, k))

LEMMA HasAppend ==
    ASSUME NEW t \in Seq(Line), NEW l \in Line, NEW s, NEW k
    PROVE  Has(Append(t, l), s, k) <=> (l.t = "kv" /\ l.name = k /\ EndSec(t) = s) \/ Has(t, s, k)
BY KeysAppend DEF Has

LEMMA WrittenLine ==
    ASSUME NEW upd, WellFormed(upd), NEW n \in Retained(upd)
    PROVE  /\ Written(upd[n]) \in Line /\ Written(upd[n]).t = "kv" /\ ~IsHeader(Written(upd[n]))
           /\ Written(upd[n]).name = upd[n].key /\ Written(upd[n]).text = upd[n].val.text
           /\ n \in DOMAIN upd /\ upd[n].sec \in Word /\ upd[n].sec # ""
<1>1. n \in DOMAIN upd /\ upd[n].val # NotSent
  BY DEF Retained
<1>2. upd[n] \in Update
  <2>1. upd \in Seq(Update)
    BY DEF WellFormed
  <2> HIDE DEF Update
  <2> QED
    BY <1>1, <2>1
<1>3. upd[n].key \in Word /\ upd[n].val \in Value
  BY <1>1, <1>2 DEF Update
<1>4. upd[n].val.text \in Word /\ upd[n].val.tail \in BOOLEAN
  BY <1>3 DEF Value
<1>5. upd[n].sec \in Word /\ upd[n].sec # ""
  BY <1>1, <1>2 DEF Update, WellFormed
<1> QED
  BY <1>1, <1>3, <1>4, <1>5 DEF Written, KeyValue, Line, IsHeader

\* A line for an update that is left, in its section.
LEMMA SoundWrites ==
    ASSUME NEW upd, WellFormed(upd), NEW slots, Covers(slots, upd), NEW out, NEW left, NEW old, Sound(out, left, old, upd),
           NEW n \in left, upd[n].sec = EndSec(out)
    PROVE  /\ Sound(Append(out, Written(upd[n])), left \ {n}, old, upd)
           /\ EndSec(Append(out, Written(upd[n]))) = EndSec(out)
           /\ Names(Append(out, Written(upd[n]))) = Names(out)
           /\ Kept(Append(out, Written(upd[n])), slots) = Kept(out, slots)
<1> DEFINE l == Written(upd[n])
           a == Append(out, l)
<1>1. /\ l \in Line /\ l.t = "kv" /\ ~IsHeader(l) /\ l.name = upd[n].key /\ l.text = upd[n].val.text
      /\ n \in Retained(upd) /\ n \in DOMAIN upd
  BY WrittenLine DEF Sound
<1>2. out \in Seq(Line) /\ Plain(out) /\ left \subseteq Retained(upd) /\ ~Has(out, upd[n].sec, upd[n].key)
  BY DEF Sound
<1> HIDE DEF l
<1>3. \A s, k : Has(a, s, k) <=> (s = upd[n].sec /\ k = upd[n].key) \/ Has(out, s, k)
  BY <1>1, <1>2, HasAppend
<1>4. \A s, k : Get(a, s, k) = IF s = upd[n].sec /\ k = upd[n].key THEN upd[n].val.text ELSE Get(out, s, k)
  BY <1>1, <1>2, GetAppend
<1>5. Fits(out, l)
  BY <1>1, <1>2 DEF Fits, Has
<1>6. a \in Seq(Line) /\ Plain(a)
  BY <1>1, <1>2, <1>5, PlainAppend, Appended
<1>7. EndSec(a) = EndSec(out) /\ Names(a) = Names(out) /\ Kept(a, slots) = Kept(out, slots)
  BY <1>1, <1>2, EndAppend, NamesAppend, KeptAppend DEF Covers
<1> HIDE DEF a
<1>8. \A m \in Retained(upd) : upd[m].sec = upd[n].sec /\ upd[m].key = upd[n].key => m = n
  BY <1>1 DEF WellFormed, Retained
<1>9. \A m \in left \ {n} : ~Has(a, upd[m].sec, upd[m].key)
  BY <1>2, <1>3, <1>8 DEF Sound
<1>10. \A m \in Retained(upd) \ (left \ {n}) :
          Has(a, upd[m].sec, upd[m].key) /\ Get(a, upd[m].sec, upd[m].key) = upd[m].val.text
  <2> TAKE m \in Retained(upd) \ (left \ {n})
  <2>1. CASE m = n
    BY <1>3, <1>4, <2>1
  <2>2. CASE m # n
    BY <1>3, <1>4, <1>8, <2>2 DEF Sound
  <2> QED
    BY <2>1, <2>2
<1>11. \A s, k : Free(upd, s, k) => Get(a, s, k) = Get(old, s, k) /\ (Has(a, s, k) <=> Has(old, s, k))
  <2> SUFFICES ASSUME NEW s, NEW k, Free(upd, s, k)
               PROVE  Get(a, s, k) = Get(old, s, k) /\ (Has(a, s, k) <=> Has(old, s, k))
    OBVIOUS
  <2>1. ~(upd[n].sec = s /\ upd[n].key = k)
    BY <1>1 DEF Free
  <2>2. Get(out, s, k) = Get(old, s, k) /\ (Has(out, s, k) <=> Has(old, s, k))
    BY DEF Sound
  <2> QED
    BY <1>3, <1>4, <2>1, <2>2
<1>12. Sound(a, left \ {n}, old, upd)
  BY <1>2, <1>6, <1>9, <1>10, <1>11 DEF Sound
<1> QED
  BY <1>7, <1>12 DEF a, l

\* A line that sets nothing.
LEMMA SoundSkips ==
    ASSUME NEW upd, NEW out, NEW left, NEW old, Sound(out, left, old, upd),
           NEW l \in Line, l.t # "kv", Fits(out, l)
    PROVE  Sound(Append(out, l), left, old, upd)
<1> DEFINE a == Append(out, l)
<1>1. out \in Seq(Line) /\ Plain(out)
  BY DEF Sound
<1>2. \A s, k : (Has(a, s, k) <=> Has(out, s, k)) /\ Get(a, s, k) = Get(out, s, k)
  BY <1>1, HasAppend, GetAppend
<1>3. a \in Seq(Line) /\ Plain(a)
  BY <1>1, PlainAppend, Appended
<1> HIDE DEF a
<1>4. Sound(a, left, old, upd)
  BY <1>2, <1>3 DEF Sound
<1> QED
  BY <1>4 DEF a

\* A line of the file that sets nothing, or the key of an update.
LEMMA SoundReads ==
    ASSUME NEW upd, NEW out, NEW left, NEW old \in Seq(Line), Sound(out, left, old, upd),
           NEW l \in Line, l.t = "kv" => ~Free(upd, EndSec(old), l.name)
    PROVE  Sound(out, left, Append(old, l), upd)
<1> DEFINE b == Append(old, l)
<1>1. \A s, k : /\ Has(b, s, k) <=> (l.t = "kv" /\ l.name = k /\ EndSec(old) = s) \/ Has(old, s, k)
                /\ Get(b, s, k) = IF l.t = "kv" /\ l.name = k /\ EndSec(old) = s THEN l.text ELSE Get(old, s, k)
  BY HasAppend, GetAppend
<1> HIDE DEF b
<1>2. \A s, k : Free(upd, s, k) => Get(old, s, k) = Get(b, s, k) /\ (Has(old, s, k) <=> Has(b, s, k))
  BY <1>1
<1>3. Sound(out, left, b, upd)
  BY <1>2 DEF Sound
<1> QED
  BY <1>3 DEF b

\* A line of the file that is kept and sets the key of no update.
LEMMA SoundCopies ==
    ASSUME NEW upd, NEW out, NEW left, NEW old \in Seq(Line), Sound(out, left, old, upd),
           NEW l \in Line, l.t = "kv", Fits(out, l), EndSec(out) = EndSec(old),
           Free(upd, EndSec(old), l.name)
    PROVE  Sound(Append(out, l), left, Append(old, l), upd)
<1> DEFINE a == Append(out, l)
           b == Append(old, l)
<1>1. out \in Seq(Line) /\ Plain(out) /\ left \subseteq Retained(upd)
  BY DEF Sound
<1>2. \A s, k : /\ Has(b, s, k) <=> (l.name = k /\ EndSec(old) = s) \/ Has(old, s, k)
                /\ Get(b, s, k) = IF l.name = k /\ EndSec(old) = s THEN l.text ELSE Get(old, s, k)
  BY HasAppend, GetAppend
<1>3. \A s, k : /\ Has(a, s, k) <=> (l.name = k /\ EndSec(old) = s) \/ Has(out, s, k)
                /\ Get(a, s, k) = IF l.name = k /\ EndSec(old) = s THEN l.text ELSE Get(out, s, k)
  BY <1>1, HasAppend, GetAppend
<1>4. a \in Seq(Line) /\ Plain(a)
  BY <1>1, PlainAppend, Appended
<1> HIDE DEF a, b
<1>5. \A n \in Retained(upd) : ~(upd[n].sec = EndSec(old) /\ upd[n].key = l.name)
  BY DEF Free
<1>6. \A n \in left : ~Has(a, upd[n].sec, upd[n].key)
  BY <1>1, <1>3, <1>5 DEF Sound
<1>7. \A n \in Retained(upd) \ left :
          Has(a, upd[n].sec, upd[n].key) /\ Get(a, upd[n].sec, upd[n].key) = upd[n].val.text
  BY <1>3, <1>5 DEF Sound
<1>8. \A s, k : Free(upd, s, k) => Get(a, s, k) = Get(b, s, k) /\ (Has(a, s, k) <=> Has(b, s, k))
  BY <1>2, <1>3 DEF Sound
<1>9. Sound(a, left, b, upd)
  BY <1>1, <1>4, <1>6, <1>7, <1>8 DEF Sound
<1> QED
  BY <1>9 DEF a, b

-----------------------------------------------------------------------------
(* flush_section.                                                          *)

EmitOne(st, upd, n, sofar) ==
    IF n \in st.left /\ upd[n].sec = st.section THEN Append(sofar, Written(upd[n])) ELSE sofar

\* f tells what flush_section has written after the first n updates.
IsEmitted(f, st, upd, n) ==
    f = [i \in 0 .. n |-> IF i = 0 THEN st.out ELSE EmitOne(st, upd, i, f[i - 1])]

LEMMA EmittedExists ==
    ASSUME NEW st, NEW upd, NEW N \in Nat
    PROVE  \E f : IsEmitted(f, st, upd, N)
<1> DEFINE S == {n \in 0 .. N : \E f : IsEmitted(f, st, upd, n)}
<1>1. 0 \in S
  <2>1. IsEmitted([i \in 0 .. 0 |-> st.out], st, upd, 0)
    BY DEF IsEmitted
  <2> QED
    BY <2>1
<1>2. ASSUME NEW n \in 0 .. N, n + 1 \in 0 .. N, n \in S PROVE n + 1 \in S
  <2>1. PICK f : IsEmitted(f, st, upd, n)
    BY <1>2
  <2> DEFINE new == EmitOne(st, upd, n + 1, f[n])
             g == [i \in 0 .. n + 1 |-> IF i = n + 1 THEN new ELSE f[i]]
  <2> HIDE DEF new
  <2>2. ASSUME NEW i \in 0 .. n + 1
        PROVE  g[i] = IF i = 0 THEN st.out ELSE EmitOne(st, upd, i, g[i - 1])
    <3>1. CASE i = n + 1
      <4>1. g[i] = new /\ g[i - 1] = f[n] /\ i # 0
        BY <3>1
      <4> QED
        BY <3>1, <4>1 DEF new
    <3>2. CASE i # n + 1
      <4>1. i \in 0 .. n
        BY <3>2
      <4>2. g[i] = f[i] /\ (i # 0 => g[i - 1] = f[i - 1])
        BY <4>1
      <4>3. f[i] = IF i = 0 THEN st.out ELSE EmitOne(st, upd, i, f[i - 1])
        BY <2>1, <4>1 DEF IsEmitted
      <4> QED
        BY <4>2, <4>3
    <3> QED
      BY <3>1, <3>2
  <2>3. IsEmitted(g, st, upd, n + 1)
    BY <2>2 DEF IsEmitted
  <2> QED
    BY <1>2, <2>3
<1> HIDE DEF S
<1>3. N \in S
  BY <1>1, <1>2, UpTo
<1> QED
  BY <1>3 DEF S

LEMMA FlushIs ==
    ASSUME NEW st, NEW upd \in Seq(Update)
    PROVE  \E f : /\ IsEmitted(f, st, upd, Len(upd))
                 /\ FlushSection(st, upd) = [out |-> f[Len(upd)], section |-> st.section,
                                             left |-> {n \in st.left : upd[n].sec # st.section}]
<1>1. \E f : IsEmitted(f, st, upd, Len(upd))
  <2>1. Len(upd) \in Nat
    OBVIOUS
  <2> QED
    BY <2>1, EmittedExists
<1>2. IsEmitted(CHOOSE f : IsEmitted(f, st, upd, Len(upd)), st, upd, Len(upd))
  BY <1>1
<1>3. FlushSection(st, upd) =
        [out |-> (CHOOSE f : IsEmitted(f, st, upd, Len(upd)))[Len(upd)], section |-> st.section,
         left |-> {n \in st.left : upd[n].sec # st.section}]
  BY DEF FlushSection, IsEmitted, EmitOne
<1> QED
  BY <1>2, <1>3

\* What flushing makes of a state whose section is the one `out` ends in.
Flushed(st, new, old, upd, slots) ==
    /\ Sound(new.out, new.left, old, upd)
    /\ new.section = st.section /\ EndSec(new.out) = st.section
    /\ new.left = {n \in st.left : upd[n].sec # st.section}
    /\ Names(new.out) = Names(st.out) /\ Kept(new.out, slots) = Kept(st.out, slots)

LEMMA FlushKeeps ==
    ASSUME NEW upd, WellFormed(upd), NEW slots, Covers(slots, upd), NEW st, NEW old,
           Sound(st.out, st.left, old, upd), EndSec(st.out) = st.section
    PROVE  Flushed(st, FlushSection(st, upd), old, upd, slots)
<1> DEFINE N == Len(upd)
           Rest(n) == {m \in st.left : ~(m \in 1 .. n /\ upd[m].sec = st.section)}
<1>0. upd \in Seq(Update) /\ N \in Nat /\ DOMAIN upd = 1 .. N
  <2>1. upd \in Seq(Update)
    BY DEF WellFormed
  <2> QED
    BY <2>1
<1>1. PICK f : /\ IsEmitted(f, st, upd, N)
               /\ FlushSection(st, upd) = [out |-> f[N], section |-> st.section,
                                           left |-> {n \in st.left : upd[n].sec # st.section}]
  BY <1>0, FlushIs
<1> HIDE DEF N
<1> DEFINE S == {n \in 0 .. N : /\ Sound(f[n], Rest(n), old, upd) /\ EndSec(f[n]) = st.section
                                /\ Names(f[n]) = Names(st.out) /\ Kept(f[n], slots) = Kept(st.out, slots)}
<1>2. 0 \in S
  <2>1. f[0] = st.out /\ 0 \in 0 .. N
    BY <1>0, <1>1 DEF IsEmitted
  <2>2. Rest(0) = st.left
    OBVIOUS
  <2> QED
    BY <2>1, <2>2
<1>3. ASSUME NEW n \in 0 .. N, n + 1 \in 0 .. N, n \in S PROVE n + 1 \in S
  <2>0. /\ Sound(f[n], Rest(n), old, upd) /\ EndSec(f[n]) = st.section
        /\ Names(f[n]) = Names(st.out) /\ Kept(f[n], slots) = Kept(st.out, slots)
    BY <1>3
  <2>1. f[n + 1] = EmitOne(st, upd, n + 1, f[n])
    <3>1. n + 1 # 0 /\ (n + 1) - 1 = n
      BY <1>3
    <3> QED
      BY <1>1, <1>3, <3>1 DEF IsEmitted
  <2>2. \A m : m \in 1 .. n + 1 <=> m \in 1 .. n \/ m = n + 1
    BY <1>3
  <2>3. n + 1 \notin 1 .. n
    BY <1>3
  <2>4. CASE n + 1 \in st.left /\ upd[n + 1].sec = st.section
    <3>1. n + 1 \in Rest(n) /\ Rest(n + 1) = Rest(n) \ {n + 1}
      BY <2>2, <2>3, <2>4
    <3>2. f[n + 1] = Append(f[n], Written(upd[n + 1])) /\ upd[n + 1].sec = EndSec(f[n])
      BY <2>0, <2>1, <2>4 DEF EmitOne
    <3> HIDE DEF Rest
    <3> DEFINE left == Rest(n)
               out == f[n]
               m == n + 1
    <3>a. Sound(out, left, old, upd) /\ m \in left /\ upd[m].sec = EndSec(out)
      BY <2>0, <3>1, <3>2
    <3>b. f[m] = Append(out, Written(upd[m]))
      BY <3>2
    <3> HIDE DEF left, out, m, S
    <3> DEFINE w == Append(out, Written(upd[m]))
    <3>d. /\ Sound(w, left \ {m}, old, upd) /\ EndSec(w) = EndSec(out)
          /\ Names(w) = Names(out) /\ Kept(w, slots) = Kept(out, slots)
      BY <3>a, SoundWrites
    <3>c. /\ Sound(f[m], left \ {m}, old, upd) /\ EndSec(f[m]) = EndSec(out)
          /\ Names(f[m]) = Names(out) /\ Kept(f[m], slots) = Kept(out, slots)
      BY <3>b, <3>d
    <3> USE DEF S
    <3>3. /\ Sound(f[n + 1], Rest(n) \ {n + 1}, old, upd) /\ EndSec(f[n + 1]) = EndSec(f[n])
          /\ Names(f[n + 1]) = Names(f[n]) /\ Kept(f[n + 1], slots) = Kept(f[n], slots)
      BY <3>c DEF left, out, m
    <3> QED
      BY <1>3, <2>0, <3>1, <3>3
  <2>5. CASE ~(n + 1 \in st.left /\ upd[n + 1].sec = st.section)
    <3>1. Rest(n + 1) = Rest(n)
      BY <2>2, <2>5
    <3>2. f[n + 1] = f[n]
      BY <2>1, <2>5 DEF EmitOne
    <3> HIDE DEF Rest
    <3> QED
      BY <1>3, <2>0, <3>1, <3>2
  <2> QED
    BY <2>4, <2>5
<1>4. N \in S
  <2> HIDE DEF S
  <2>1. N \in Nat
    BY <1>0
  <2>2. \A n \in 0 .. N : n \in S
    BY <1>2, <1>3, <2>1, UpTo
  <2> QED
    BY <2>1, <2>2
<1>5. Rest(N) = {n \in st.left : upd[n].sec # st.section}
  <2>1. st.left \subseteq 1 .. N
    BY <1>0 DEF Sound, Retained
  <2> QED
    BY <2>1
<1>6. /\ Sound(f[N], Rest(N), old, upd) /\ EndSec(f[N]) = st.section
      /\ Names(f[N]) = Names(st.out) /\ Kept(f[N], slots) = Kept(st.out, slots)
  BY <1>4
<1> DEFINE F == FlushSection(st, upd)
<1> HIDE DEF Rest, S, F
<1>7. F.out = f[N] /\ F.section = st.section /\ F.left = Rest(N)
  BY <1>1, <1>5 DEF F
<1>8. F.left = {n \in st.left : upd[n].sec # st.section}
  BY <1>5, <1>7
<1>9. Flushed(st, F, old, upd, slots)
  BY <1>6, <1>7, <1>8 DEF Flushed
<1> QED
  BY <1>9 DEF F

-----------------------------------------------------------------------------
(* The loop over the lines of the file.                                    *)

\* A text ends in no section, or in one it has a header for.
LEMMA EndNamed ==
    ASSUME NEW t \in Seq(Line), EndSec(t) # ""
    PROVE  EndSec(t) \in Names(t)
<1> DEFINE B == {j \in ParseHeaders(t) : j < Len(t) + 1}
           m == Max(B)
<1>0. Len(t) \in Nat /\ DOMAIN t \subseteq 0 .. Len(t)
  BY SeqShape
<1>1. EndSec(t) = IF B = {} THEN "" ELSE t[m].name
  BY DEF EndSec, SectionAt
<1>2. B \subseteq 0 .. Len(t)
  <2>2. ParseHeaders(t) \subseteq DOMAIN t
    BY DEF ParseHeaders
  <2>3. B \subseteq DOMAIN t
    BY <2>2
  <2> QED
    BY <1>0, <2>3
<1> HIDE DEF B
<1>3. B # {} /\ m \in B
  BY <1>0, <1>1, <1>2, Largest
<1>4. m \in ParseHeaders(t)
  BY <1>3 DEF B
<1> HIDE DEF m
<1>5. EndSec(t) = t[m].name
  BY <1>1, <1>3
<1> QED
  BY <1>4, <1>5 DEF Names

\* After the lines `old`: no update is left for a section that has ended, and
\* none was written for a key that a later line may set.
Reading(st, old, upd, slots) ==
    /\ Sound(st.out, st.left, old, upd)
    /\ EndSec(st.out) = st.section /\ EndSec(old) = st.section
    /\ Names(st.out) = Names(old) /\ Kept(st.out, slots) = Kept(old, slots)
    /\ \A n \in st.left : upd[n].sec \in Names(old) => upd[n].sec = st.section
    /\ \A n \in Retained(upd) \ st.left :
          Has(old, upd[n].sec, upd[n].key) \/ (upd[n].sec \in Names(old) /\ upd[n].sec # st.section)

LEMMA HeaderKeeps ==
    ASSUME NEW upd, WellFormed(upd), NEW slots, Covers(slots, upd), NEW old \in Seq(Line), NEW l \in Line, Plain(Append(old, l)),
           NEW st, Reading(st, old, upd, slots), IsHeader(l)
    PROVE  Reading(ApplyLine(st, l, upd), Append(old, l), upd, slots)
<1> DEFINE F == FlushSection(st, upd)
           new == ApplyLine(st, l, upd)
           b == Append(old, l)
<1>0. Fits(old, l) /\ ~l.tail /\ l.name \notin Names(old) /\ l.t # "kv"
  BY PlainFits DEF Fits, IsHeader
<1>1. Flushed(st, F, old, upd, slots)
  BY FlushKeeps DEF Reading
<1>2. new = [out |-> Append(F.out, l), section |-> l.name, left |-> F.left]
  BY <1>0 DEF ApplyLine
<1>3. EndSec(b) = l.name /\ Names(b) = Names(old) \cup {l.name} /\ Kept(b, slots) = Append(Kept(old, slots), l)
  BY <1>0, EndAppend, NamesAppend, KeptAppend
<1>4. \A s, k : Has(b, s, k) <=> Has(old, s, k)
  BY <1>0, HasAppend
<1> HIDE DEF F, new
<1>5. Sound(F.out, F.left, old, upd) /\ F.out \in Seq(Line)
  BY <1>1 DEF Flushed, Sound
<1>6. Sound(F.out, F.left, b, upd)
  BY <1>0, <1>5, SoundReads
<1>7. Fits(F.out, l)
  BY <1>0, <1>1 DEF Fits, Flushed, Reading
<1>8. Sound(Append(F.out, l), F.left, b, upd)
  BY <1>0, <1>6, <1>7, SoundSkips
<1>9. /\ EndSec(Append(F.out, l)) = l.name /\ Names(Append(F.out, l)) = Names(F.out) \cup {l.name}
      /\ Kept(Append(F.out, l), slots) = Append(Kept(F.out, slots), l)
  BY <1>0, <1>5, EndAppend, NamesAppend, KeptAppend
<1> HIDE DEF b
<1>10. /\ Sound(new.out, new.left, b, upd)
       /\ EndSec(new.out) = new.section /\ EndSec(b) = new.section
       /\ Names(new.out) = Names(b) /\ Kept(new.out, slots) = Kept(b, slots)
  BY <1>1, <1>2, <1>3, <1>8, <1>9 DEF Flushed, Reading
<1>11. \A n \in new.left : upd[n].sec \in Names(b) => upd[n].sec = new.section
  BY <1>1, <1>2, <1>3 DEF Flushed, Reading
<1>12. \A n \in Retained(upd) \ new.left :
          Has(b, upd[n].sec, upd[n].key) \/ (upd[n].sec \in Names(b) /\ upd[n].sec # new.section)
  <2> TAKE n \in Retained(upd) \ new.left
  <2>1. CASE n \notin st.left
    BY <1>0, <1>2, <1>3, <1>4, <2>1 DEF Reading
  <2>2. CASE n \in st.left
    <3>1. upd[n].sec = st.section /\ upd[n].sec # "" /\ EndSec(old) = st.section
      BY <1>1, <1>2, <2>2, WrittenLine DEF Flushed, Reading
    <3>2. upd[n].sec \in Names(old)
      BY <3>1, EndNamed
    <3> QED
      BY <1>0, <1>2, <1>3, <3>2
  <2> QED
    BY <2>1, <2>2
<1>13. Reading(new, b, upd, slots)
  BY <1>10, <1>11, <1>12 DEF Reading
<1> QED
  BY <1>13 DEF new, b

LEMMA MatchWrites ==
    ASSUME NEW upd, WellFormed(upd), NEW slots, Covers(slots, upd), NEW st, NEW old,
           Sound(st.out, st.left, old, upd), NEW n \in st.left, upd[n].sec = EndSec(st.out)
    PROVE  LET w == Append(st.out, Written(upd[n])) IN
           /\ Sound(w, st.left \ {n}, old, upd) /\ EndSec(w) = EndSec(st.out)
           /\ Names(w) = Names(st.out) /\ Kept(w, slots) = Kept(st.out, slots)
BY SoundWrites

LEMMA MatchKeeps ==
    ASSUME NEW upd, WellFormed(upd), NEW slots, Covers(slots, upd), NEW old \in Seq(Line), NEW l \in Line, Plain(Append(old, l)),
           NEW st, Reading(st, old, upd, slots), ~IsHeader(l), Matching(st, l, upd) # {}
    PROVE  Reading(ApplyLine(st, l, upd), Append(old, l), upd, slots)
<1> DEFINE n == Min(Matching(st, l, upd))
           new == ApplyLine(st, l, upd)
           b == Append(old, l)
           a == Append(st.out, Written(upd[n]))
<1>0. Matching(st, l, upd) \in SUBSET Nat
  <2>1. upd \in Seq(Update) /\ st.left \subseteq DOMAIN upd
    BY DEF Reading, Sound, Retained, WellFormed
  <2>2. DOMAIN upd = 1 .. Len(upd) /\ Len(upd) \in Nat
    BY <2>1
  <2>3. Matching(st, l, upd) \subseteq st.left
    BY DEF Matching
  <2> QED
    BY <2>1, <2>2, <2>3
<1>1. n \in Matching(st, l, upd)
  BY <1>0, Least
<1>2. new = [out |-> a, section |-> st.section, left |-> st.left \ {n}]
  BY DEF ApplyLine
<1> HIDE DEF n, new
<1>3. n \in st.left /\ l.t = "kv" /\ upd[n].sec = st.section /\ upd[n].key = l.name
  BY <1>1 DEF Matching
<1>4. n \in Retained(upd) /\ EndSec(old) = st.section
  BY <1>3 DEF Reading, Sound
<1>5. /\ Sound(a, st.left \ {n}, old, upd) /\ EndSec(a) = EndSec(st.out)
      /\ Names(a) = Names(st.out) /\ Kept(a, slots) = Kept(st.out, slots)
  <2>1. Sound(st.out, st.left, old, upd) /\ upd[n].sec = EndSec(st.out)
    BY <1>3 DEF Reading
  <2>2. n \in st.left /\ WellFormed(upd) /\ Covers(slots, upd)
    BY <1>3
  <2> HIDE DEF b
  <2> QED
    BY <2>1, <2>2, MatchWrites
<1> HIDE DEF a
<1>6. ~Free(upd, EndSec(old), l.name)
  BY <1>3, <1>4 DEF Free
<1>7. Sound(a, st.left \ {n}, b, upd)
  BY <1>5, <1>6, SoundReads
<1>8. EndSec(b) = EndSec(old) /\ Names(b) = Names(old) /\ Kept(b, slots) = Kept(old, slots)
  BY <1>3, <1>4, EndAppend, NamesAppend, KeptAppend DEF Covers
<1>9. \A s, k : Has(b, s, k) <=> (l.name = k /\ EndSec(old) = s) \/ Has(old, s, k)
  BY <1>3, HasAppend
<1> HIDE DEF b
<1>10. /\ Sound(new.out, new.left, b, upd)
       /\ EndSec(new.out) = new.section /\ EndSec(b) = new.section
       /\ Names(new.out) = Names(b) /\ Kept(new.out, slots) = Kept(b, slots)
  BY <1>2, <1>5, <1>7, <1>8 DEF Reading
<1>11. \A m \in new.left : upd[m].sec \in Names(b) => upd[m].sec = new.section
  BY <1>2, <1>8 DEF Reading
<1>12. \A m \in Retained(upd) \ new.left :
          Has(b, upd[m].sec, upd[m].key) \/ (upd[m].sec \in Names(b) /\ upd[m].sec # new.section)
  <2> TAKE m \in Retained(upd) \ new.left
  <2>1. CASE m = n
    BY <1>3, <1>4, <1>9, <2>1
  <2>2. CASE m # n
    BY <1>2, <1>8, <1>9, <2>2 DEF Reading
  <2> QED
    BY <2>1, <2>2
<1>13. Reading(new, b, upd, slots)
  BY <1>10, <1>11, <1>12 DEF Reading
<1> QED
  BY <1>13 DEF new, b

LEMMA CopyKeeps ==
    ASSUME NEW upd, WellFormed(upd), NEW slots, Covers(slots, upd), NEW old \in Seq(Line), NEW l \in Line, Plain(Append(old, l)),
           NEW st, Reading(st, old, upd, slots), ~IsHeader(l), Matching(st, l, upd) = {}
    PROVE  Reading(ApplyLine(st, l, upd), Append(old, l), upd, slots)
<1> DEFINE new == ApplyLine(st, l, upd)
           b == Append(old, l)
           a == Append(st.out, l)
<1>1. new = [out |-> a, section |-> st.section, left |-> st.left]
  BY DEF ApplyLine
<1>2. /\ Fits(old, l) /\ st.out \in Seq(Line) /\ EndSec(old) = st.section /\ EndSec(st.out) = st.section
      /\ Names(st.out) = Names(old) /\ Kept(st.out, slots) = Kept(old, slots) /\ Sound(st.out, st.left, old, upd)
  BY PlainFits DEF Reading, Sound
<1>3. Sound(a, st.left, b, upd)
  <2>1. CASE l.t = "kv"
    <3>1. Free(upd, EndSec(old), l.name)
      <4> SUFFICES ASSUME NEW n \in Retained(upd), upd[n].sec = EndSec(old), upd[n].key = l.name PROVE FALSE
        BY DEF Free
      <4>1. n \notin st.left
        BY <1>2, <2>1 DEF Matching
      <4>2. Has(old, EndSec(old), l.name)
        BY <1>2, <4>1 DEF Reading
      <4> QED
        BY <1>2, <2>1, <4>2 DEF Fits, Has
    <3>2. Has(st.out, EndSec(old), l.name) <=> Has(old, EndSec(old), l.name)
      BY <1>2, <3>1 DEF Sound
    <3>3. Fits(st.out, l)
      BY <1>2, <2>1, <3>2 DEF Fits, Has, IsHeader
    <3> QED
      BY <1>2, <2>1, <3>1, <3>3, SoundCopies
  <2>2. CASE l.t # "kv"
    <3>1. Sound(st.out, st.left, b, upd)
      BY <1>2, <2>2, SoundReads
    <3>2. Fits(st.out, l)
      BY <2>2 DEF Fits
    <3> QED
      BY <2>2, <3>1, <3>2, SoundSkips
  <2> QED
    BY <2>1, <2>2
<1>4. /\ EndSec(a) = EndSec(st.out) /\ Names(a) = Names(st.out)
      /\ Kept(a, slots) = IF l.t = "kv" /\ [sec |-> st.section, key |-> l.name] \in slots THEN Kept(st.out, slots)
                         ELSE Append(Kept(st.out, slots), l)
  <2> DEFINE out == st.out
  <2>1. out \in Seq(Line) /\ EndSec(out) = st.section
    BY <1>2
  <2> HIDE DEF out
  <2>2. EndSec(Append(out, l)) = EndSec(out) /\ Names(Append(out, l)) = Names(out)
    BY <2>1, EndAppend, NamesAppend
  <2>3. Kept(Append(out, l), slots) =
            IF l.t = "kv" /\ [sec |-> EndSec(out), key |-> l.name] \in slots THEN Kept(out, slots)
            ELSE Append(Kept(out, slots), l)
    BY <2>1, KeptAppend
  <2> QED
    BY <2>1, <2>2, <2>3 DEF out
<1>5. /\ EndSec(b) = EndSec(old) /\ Names(b) = Names(old)
      /\ Kept(b, slots) = IF l.t = "kv" /\ [sec |-> st.section, key |-> l.name] \in slots THEN Kept(old, slots)
                         ELSE Append(Kept(old, slots), l)
  BY <1>2, EndAppend, NamesAppend, KeptAppend
<1>6. \A s, k : Has(old, s, k) => Has(b, s, k)
  BY HasAppend
<1> HIDE DEF new, a, b
<1>7. /\ Sound(new.out, new.left, b, upd)
      /\ EndSec(new.out) = new.section /\ EndSec(b) = new.section
      /\ Names(new.out) = Names(b) /\ Kept(new.out, slots) = Kept(b, slots)
  BY <1>1, <1>2, <1>3, <1>4, <1>5
<1>8. \A n \in new.left : upd[n].sec \in Names(b) => upd[n].sec = new.section
  BY <1>1, <1>5 DEF Reading
<1>9. \A n \in Retained(upd) \ new.left :
          Has(b, upd[n].sec, upd[n].key) \/ (upd[n].sec \in Names(b) /\ upd[n].sec # new.section)
  BY <1>1, <1>5, <1>6 DEF Reading
<1>10. Reading(new, b, upd, slots)
  BY <1>7, <1>8, <1>9 DEF Reading
<1> QED
  BY <1>10 DEF new, b

LEMMA LineKeeps ==
    ASSUME NEW upd, WellFormed(upd), NEW slots, Covers(slots, upd), NEW old \in Seq(Line), NEW l \in Line, Plain(Append(old, l)),
           NEW st, Reading(st, old, upd, slots)
    PROVE  Reading(ApplyLine(st, l, upd), Append(old, l), upd, slots)
BY HeaderKeeps, MatchKeeps, CopyKeeps

LEMMA Prefix ==
    ASSUME NEW t \in Seq(Line), NEW i \in 0 .. Len(t), i + 1 \in 0 .. Len(t)
    PROVE  /\ SubSeq(t, 1, i) \in Seq(Line) /\ t[i + 1] \in Line
           /\ SubSeq(t, 1, i + 1) = Append(SubSeq(t, 1, i), t[i + 1])
<1> DEFINE a == SubSeq(t, 1, i)
           b == SubSeq(t, 1, i + 1)
           l == t[i + 1]
<1>0. Len(t) \in Nat /\ i \in Nat /\ i + 1 \in 1 .. Len(t)
  OBVIOUS
<1>1. l \in Line
  <2> HIDE DEF Line
  <2> QED
    BY <1>0
<1>2. a \in Seq(Line) /\ Len(a) = i /\ \A j \in 1 .. i : a[j] = t[j]
  <2> HIDE DEF Line
  <2>1. \A j \in 1 .. i : t[j] \in Line
    BY <1>0
  <2>2. a = [j \in 1 .. i |-> t[j]]
    BY <1>0
  <2> QED
    BY <1>0, <2>1, <2>2
<1>3. b = [j \in 1 .. i + 1 |-> t[j]]
  BY <1>0
<1>4. Append(a, l) = [j \in 1 .. i + 1 |-> IF j = i + 1 THEN l ELSE a[j]]
  <2> HIDE DEF a, l
  <2> DEFINE w == Append(a, l)
  <2>1. w \in Seq(Line) /\ Len(w) = i + 1 /\ (\A j \in 1 .. i : w[j] = a[j]) /\ w[i + 1] = l
    BY <1>1, <1>2, Appended
  <2> HIDE DEF w, Line
  <2>2. w = [j \in 1 .. i + 1 |-> w[j]]
    BY <1>0, <2>1
  <2>3. ASSUME NEW j \in 1 .. i + 1 PROVE w[j] = IF j = i + 1 THEN l ELSE a[j]
    <3>1. j = i + 1 \/ j \in 1 .. i
      BY <1>0
    <3> QED
      BY <2>1, <3>1
  <2> QED
    BY <2>2, <2>3 DEF w
<1>5. ASSUME NEW j \in 1 .. i + 1 PROVE t[j] = IF j = i + 1 THEN l ELSE a[j]
  <2>1. j = i + 1 \/ j \in 1 .. i
    BY <1>0
  <2> QED
    BY <1>2, <2>1
<1> QED
  BY <1>1, <1>2, <1>3, <1>4, <1>5

LEMMA WholePrefix ==
    ASSUME NEW t \in Seq(Line)
    PROVE  SubSeq(t, 1, 0) = <<>> /\ SubSeq(t, 1, Len(t)) = t
<1> HIDE DEF Line
<1> QED
  OBVIOUS

LEMMA PlainPrefix ==
    ASSUME NEW t \in Seq(Line), Plain(t), NEW i \in 0 .. Len(t)
    PROVE  Plain(SubSeq(t, 1, i))
<1> DEFINE N == Len(t)
           S == {d \in 0 .. N : Plain(SubSeq(t, 1, N - d))}
<1>0. N \in Nat
  BY SeqShape
<1>1. 0 \in S
  <2>1. N - 0 = N
    BY <1>0
  <2>2. SubSeq(t, 1, N - 0) = t
    BY <2>1, WholePrefix
  <2>3. 0 \in 0 .. N
    BY <1>0
  <2> QED
    BY <2>2, <2>3
<1>2. ASSUME NEW d \in 0 .. N, d + 1 \in 0 .. N, d \in S PROVE d + 1 \in S
  <2> DEFINE j == N - (d + 1)
  <2>1. j \in 0 .. N /\ j + 1 \in 0 .. N /\ j + 1 = N - d
    BY <1>0, <1>2
  <2>2. Plain(SubSeq(t, 1, j + 1))
    BY <1>2, <2>1
  <2> HIDE DEF j
  <2>3. Plain(SubSeq(t, 1, j))
    <3>1. /\ SubSeq(t, 1, j) \in Seq(Line) /\ t[j + 1] \in Line
          /\ SubSeq(t, 1, j + 1) = Append(SubSeq(t, 1, j), t[j + 1])
      BY <2>1, Prefix
    <3> DEFINE a == SubSeq(t, 1, j)
               l == t[j + 1]
    <3>2. a \in Seq(Line) /\ l \in Line /\ Plain(Append(a, l))
      BY <2>2, <3>1
    <3> HIDE DEF a, l
    <3>3. Plain(a)
      BY <3>2, PlainFits
    <3> QED
      BY <3>3 DEF a
  <2> QED
    BY <1>2, <2>3 DEF j
<1>3. N - i \in 0 .. N /\ N - (N - i) = i
  BY <1>0
<1> HIDE DEF S
<1>4. \A d \in 0 .. N : d \in S
  <2> HIDE DEF N
  <2> QED
    BY <1>0, <1>1, <1>2, UpTo
<1>5. N - i \in S
  BY <1>3, <1>4
<1> QED
  BY <1>3, <1>5 DEF S

Before(upd) == [out |-> <<>>, section |-> "", left |-> Retained(upd)]

\* f tells the state of apply_settings after the first n lines.
IsRead(f, lines, upd, n) ==
    f = [i \in 0 .. n |-> IF i = 0 THEN Before(upd) ELSE ApplyLine(f[i - 1], lines[i], upd)]

LEMMA ReadExists ==
    ASSUME NEW lines, NEW upd, NEW N \in Nat
    PROVE  \E f : IsRead(f, lines, upd, N)
<1> DEFINE S == {n \in 0 .. N : \E f : IsRead(f, lines, upd, n)}
<1>1. 0 \in S
  <2>1. IsRead([i \in 0 .. 0 |-> Before(upd)], lines, upd, 0)
    BY DEF IsRead
  <2> QED
    BY <2>1
<1>2. ASSUME NEW n \in 0 .. N, n + 1 \in 0 .. N, n \in S PROVE n + 1 \in S
  <2>1. PICK f : IsRead(f, lines, upd, n)
    BY <1>2
  <2> DEFINE new == ApplyLine(f[n], lines[n + 1], upd)
             g == [i \in 0 .. n + 1 |-> IF i = n + 1 THEN new ELSE f[i]]
  <2> HIDE DEF new
  <2>2. ASSUME NEW i \in 0 .. n + 1
        PROVE  g[i] = IF i = 0 THEN Before(upd) ELSE ApplyLine(g[i - 1], lines[i], upd)
    <3>1. CASE i = n + 1
      <4>1. g[i] = new /\ g[i - 1] = f[n] /\ i # 0
        BY <3>1
      <4> QED
        BY <3>1, <4>1 DEF new
    <3>2. CASE i # n + 1
      <4>1. i \in 0 .. n
        BY <3>2
      <4>2. g[i] = f[i] /\ (i # 0 => g[i - 1] = f[i - 1])
        BY <4>1
      <4>3. f[i] = IF i = 0 THEN Before(upd) ELSE ApplyLine(f[i - 1], lines[i], upd)
        BY <2>1, <4>1 DEF IsRead
      <4> QED
        BY <4>2, <4>3
    <3> QED
      BY <3>1, <3>2
  <2>3. IsRead(g, lines, upd, n + 1)
    BY <2>2 DEF IsRead
  <2> QED
    BY <1>2, <2>3
<1> HIDE DEF S
<1>3. N \in S
  BY <1>1, <1>2, UpTo
<1> QED
  BY <1>3 DEF S

LEMMA LinesIs ==
    ASSUME NEW lines \in Seq(Line), NEW upd
    PROVE  \E f : IsRead(f, lines, upd, Len(lines)) /\ ApplyLines(lines, upd) = f[Len(lines)]
<1>1. \E f : IsRead(f, lines, upd, Len(lines))
  <2>1. Len(lines) \in Nat
    BY SeqShape
  <2> QED
    BY <2>1, ReadExists
<1>2. IsRead(CHOOSE f : IsRead(f, lines, upd, Len(lines)), lines, upd, Len(lines))
  BY <1>1
<1>3. ApplyLines(lines, upd) = (CHOOSE f : IsRead(f, lines, upd, Len(lines)))[Len(lines)]
  BY DEF ApplyLines, IsRead, Before
<1> QED
  BY <1>2, <1>3

LEMMA PlainEmpty == <<>> \in Seq(Line) /\ Plain(<<>>) /\ Names(<<>>) = {} /\ \A s, k : ~Has(<<>>, s, k)
<1>1. <<>> \in Seq(Line) /\ DOMAIN <<>> = {}
  OBVIOUS
<1>2. Plain(<<>>)
  BY <1>1 DEF Plain
<1>3. Names(<<>>) = {}
  BY <1>1 DEF Names, ParseHeaders
<1>4. Keys(<<>>) = {}
  BY <1>1 DEF Keys
<1> QED
  BY <1>1, <1>2, <1>3, <1>4 DEF Has

LEMMA ReadingStart ==
    ASSUME NEW upd, NEW slots
    PROVE  Reading(Before(upd), <<>>, upd, slots)
<1> DEFINE st == Before(upd)
<1>1. st.out = <<>> /\ st.section = "" /\ st.left = Retained(upd)
  BY DEF Before
<1> HIDE DEF st
<1>2. Sound(st.out, st.left, <<>>, upd)
  BY <1>1, PlainEmpty DEF Sound
<1>3. Reading(st, <<>>, upd, slots)
  BY <1>1, <1>2, PlainEmpty, EndEmpty DEF Reading
<1> QED
  BY <1>3 DEF st

LEMMA LinesKeep ==
    ASSUME NEW upd, WellFormed(upd), NEW slots, Covers(slots, upd), NEW lines \in Seq(Line), Plain(lines)
    PROVE  Reading(ApplyLines(lines, upd), lines, upd, slots)
<1> DEFINE N == Len(lines)
<1>0. N \in Nat
  BY SeqShape
<1>1. PICK f : IsRead(f, lines, upd, N) /\ ApplyLines(lines, upd) = f[N]
  BY LinesIs
<1> DEFINE S == {i \in 0 .. N : Reading(f[i], SubSeq(lines, 1, i), upd, slots)}
<1>2. 0 \in S
  <2>1. f[0] = Before(upd) /\ 0 \in 0 .. N
    BY <1>0, <1>1 DEF IsRead
  <2> QED
    BY <2>1, ReadingStart, WholePrefix
<1>3. ASSUME NEW i \in 0 .. N, i + 1 \in 0 .. N, i \in S PROVE i + 1 \in S
  <2> DEFINE old == SubSeq(lines, 1, i)
             l == lines[i + 1]
             st == f[i]
  <2>1. i + 1 # 0 /\ (i + 1) - 1 = i
    BY <1>3
  <2>2. f[i + 1] = ApplyLine(st, l, upd)
    BY <1>1, <1>3, <2>1 DEF IsRead
  <2>3. old \in Seq(Line) /\ l \in Line /\ SubSeq(lines, 1, i + 1) = Append(old, l)
    BY <1>3, Prefix
  <2>4. Plain(Append(old, l))
    BY <1>3, <2>3, PlainPrefix
  <2>5. Reading(st, old, upd, slots)
    BY <1>3
  <2> HIDE DEF old, l, st, S
  <2>6. Reading(ApplyLine(st, l, upd), Append(old, l), upd, slots)
    BY <2>3, <2>4, <2>5, LineKeeps
  <2>7. Reading(f[i + 1], SubSeq(lines, 1, i + 1), upd, slots)
    BY <2>2, <2>3, <2>6
  <2> QED
    BY <1>3, <2>7 DEF S
<1>4. Reading(f[N], SubSeq(lines, 1, N), upd, slots)
  <2> HIDE DEF S, N
  <2>1. \A i \in 0 .. N : i \in S
    BY <1>0, <1>2, <1>3, UpTo
  <2>2. N \in 0 .. N
    BY <1>0
  <2>3. N \in S
    BY <2>1, <2>2
  <2> QED
    BY <2>3 DEF S
<1> QED
  BY <1>1, <1>4, WholePrefix

-----------------------------------------------------------------------------
(* Beginnings of texts.                                                    *)

LEMMA KeptType ==
    ASSUME NEW t \in Seq(Line), NEW slots
    PROVE  Kept(t, slots) \in Seq(Line)
<1> DEFINE N == Len(t)
<1>0. N \in Nat /\ \A i \in 1 .. N : t[i] \in Line
  BY Appended
<1>1. PICK f : IsKept(f, t, slots, N) /\ Kept(t, slots) = f[N]
  BY KeptIs
<1> HIDE DEF N
<1> DEFINE S == {i \in 0 .. N : f[i] \in Seq(Line)}
<1>2. 0 \in S
  <2>1. f[0] = <<>> /\ 0 \in 0 .. N
    BY <1>0, <1>1 DEF IsKept
  <2> QED
    BY <2>1, PlainEmpty
<1>3. ASSUME NEW i \in 0 .. N, i + 1 \in 0 .. N, i \in S PROVE i + 1 \in S
  <2>1. i + 1 # 0 /\ (i + 1) - 1 = i /\ i + 1 \in 1 .. N
    BY <1>0, <1>3
  <2>2. f[i + 1] = KeepLine(t, i + 1, slots, f[i])
    BY <1>1, <1>3, <2>1 DEF IsKept
  <2>3. f[i] \in Seq(Line) /\ t[i + 1] \in Line
    BY <1>0, <1>3, <2>1
  <2>4. f[i + 1] \in Seq(Line)
    <3> HIDE DEF Line
    <3> QED
      BY <2>2, <2>3 DEF KeepLine
  <2> QED
    BY <1>3, <2>4
<1> HIDE DEF S
<1>4. \A i \in 0 .. N : i \in S
  BY <1>0, <1>2, <1>3, UpTo
<1>5. N \in 0 .. N
  BY <1>0
<1>6. N \in S
  BY <1>4, <1>5
<1> QED
  BY <1>1, <1>6 DEF S

\* IsPrefix by positions.
LEMMA Begins ==
    ASSUME NEW s \in Seq(Line), NEW t \in Seq(Line)
    PROVE  IsPrefix(s, t) <=> Len(s) <= Len(t) /\ \A i \in 1 .. Len(s) : s[i] = t[i]
<1> HIDE DEF Line
<1>0. Len(s) \in Nat /\ Len(t) \in Nat /\ DOMAIN s = 1 .. Len(s) /\ DOMAIN t = 1 .. Len(t)
  OBVIOUS
<1>1. SubSeq(s, 1, Len(s)) = [i \in 1 .. Len(s) |-> s[i]]
  BY <1>0
<1>2. SubSeq(t, 1, Len(s)) = [i \in 1 .. Len(s) |-> t[i]]
  BY <1>0
<1>3. SubSeq(s, 1, Len(s)) = SubSeq(t, 1, Len(s)) <=> \A i \in 1 .. Len(s) : s[i] = t[i]
  BY <1>1, <1>2
<1>4. s = SubSeq(s, 1, Len(s))
  BY <1>0
<1> QED
  BY <1>0, <1>3, <1>4 DEF IsPrefix

LEMMA BeginsItself ==
    ASSUME NEW t \in Seq(Line)
    PROVE  IsPrefix(t, t)
<1>1. Len(t) <= Len(t)
  <2>1. Len(t) \in Nat
    BY SeqShape
  <2> QED
    BY <2>1
<1> QED
  BY <1>1, Begins

LEMMA BeginsAppend ==
    ASSUME NEW s \in Seq(Line), NEW t \in Seq(Line), IsPrefix(s, t), NEW l \in Line
    PROVE  IsPrefix(s, Append(t, l))
<1> DEFINE a == Append(t, l)
<1>1. /\ a \in Seq(Line) /\ Len(t) \in Nat /\ Len(a) = Len(t) + 1
      /\ \A i \in 1 .. Len(t) : a[i] = t[i]
  BY Appended
<1>2. Len(s) <= Len(t) /\ \A i \in 1 .. Len(s) : s[i] = t[i]
  BY Begins
<1>3. Len(s) \in Nat
  BY SeqShape
<1> HIDE DEF a
<1>4. Len(s) <= Len(a) /\ \A i \in 1 .. Len(s) : i \in 1 .. Len(t)
  BY <1>1, <1>2, <1>3
<1>5. IsPrefix(s, a)
  BY <1>1, <1>2, <1>4, Begins
<1> QED
  BY <1>5 DEF a

LEMMA BeginsTwice ==
    ASSUME NEW s \in Seq(Line), NEW t \in Seq(Line), NEW u \in Seq(Line), IsPrefix(s, t), IsPrefix(t, u)
    PROVE  IsPrefix(s, u)
<1>1. Len(s) <= Len(t) /\ \A i \in 1 .. Len(s) : s[i] = t[i]
  BY Begins
<1>2. Len(t) <= Len(u) /\ \A i \in 1 .. Len(t) : t[i] = u[i]
  BY Begins
<1>3. Len(s) \in Nat /\ Len(t) \in Nat /\ Len(u) \in Nat
  BY SeqShape
<1>4. Len(s) <= Len(u) /\ \A i \in 1 .. Len(s) : i \in 1 .. Len(t)
  BY <1>1, <1>2, <1>3
<1> QED
  BY <1>1, <1>2, <1>4, Begins

-----------------------------------------------------------------------------
(* The sections that are created.                                          *)

\* After the first n updates: those that are left come later, and their
\* sections do not exist.
Creating(st, n, old, upd, slots) ==
    /\ Sound(st.out, st.left, old, upd)
    /\ \A m \in st.left : m \notin 1 .. n /\ upd[m].sec \notin Names(st.out)
    /\ IsPrefix(Kept(old, slots), Kept(st.out, slots))

LEMMA HeaderLine ==
    ASSUME NEW s \in Word
    PROVE  /\ Header(s, FALSE) \in Line /\ IsHeader(Header(s, FALSE)) /\ Header(s, FALSE).t # "kv"
           /\ Header(s, FALSE).name = s /\ ~Header(s, FALSE).tail
BY WordAssumption DEF Header, Line, IsHeader

LEMMA OtherLine == Other \in Line /\ ~IsHeader(Other) /\ Other.t # "kv"
<1>1. Other.t = "other" /\ Other.name = "" /\ Other.text = "" /\ Other.tail = TRUE
  BY DEF Other
<1>2. Other \in Line
  BY WordAssumption DEF Other, Line
<1> QED
  BY <1>1, <1>2 DEF IsHeader

LEMMA SectionKeeps ==
    ASSUME NEW upd, WellFormed(upd), NEW slots, Covers(slots, upd), NEW old \in Seq(Line), NEW n \in Nat,
           NEW st, Creating(st, n, old, upd, slots), n + 1 \in st.left
    PROVE  Creating(NewSection(st, upd[n + 1].sec, upd), n + 1, old, upd, slots)
<1> DEFINE s == upd[n + 1].sec
           h == Header(s, FALSE)
           o1 == Append(st.out, Other)
           o2 == Append(o1, h)
           st2 == [out |-> o2, section |-> s, left |-> st.left]
           new == FlushSection(st2, upd)
<1>0. n + 1 \in Retained(upd) /\ s \notin Names(st.out) /\ Sound(st.out, st.left, old, upd) /\ st.out \in Seq(Line)
  BY DEF Creating, Sound
<1>1. s \in Word
  <2> DEFINE k == n + 1
  <2>1. k \in Retained(upd)
    BY <1>0
  <2> HIDE DEF k
  <2>2. upd[k].sec \in Word
    BY <2>1, WrittenLine
  <2> QED
    BY <2>2 DEF k
<1> HIDE DEF s
<1>2. h \in Line /\ IsHeader(h) /\ h.t # "kv" /\ h.name = s /\ ~h.tail
  BY <1>1, HeaderLine
<1>3. Other \in Line /\ ~IsHeader(Other) /\ Other.t # "kv"
  BY OtherLine
<1> HIDE DEF h
<1>4. Sound(o1, st.left, old, upd) /\ o1 \in Seq(Line)
  <2>1. Fits(st.out, Other)
    BY <1>3 DEF Fits
  <2> QED
    BY <1>0, <1>3, <2>1, SoundSkips, Appended
<1>5. Names(o1) = Names(st.out) /\ Kept(o1, slots) = Append(Kept(st.out, slots), Other)
  BY <1>0, <1>3, NamesAppend, KeptAppend
<1> HIDE DEF o1
<1>6. Sound(o2, st.left, old, upd)
  <2>1. Fits(o1, h)
    BY <1>0, <1>2, <1>5 DEF Fits
  <2> QED
    BY <1>2, <1>4, <2>1, SoundSkips
<1>7. EndSec(o2) = s /\ Names(o2) = Names(st.out) \cup {s} /\ Kept(o2, slots) = Append(Kept(o1, slots), h)
  BY <1>2, <1>4, <1>5, EndAppend, NamesAppend, KeptAppend
<1>8. IsPrefix(Kept(old, slots), Kept(o2, slots))
  <2>1. /\ Kept(old, slots) \in Seq(Line) /\ Kept(st.out, slots) \in Seq(Line) /\ Kept(o1, slots) \in Seq(Line)
        /\ IsPrefix(Kept(old, slots), Kept(st.out, slots))
    BY <1>0, <1>4, KeptType DEF Creating
  <2>2. IsPrefix(Kept(old, slots), Kept(o1, slots))
    BY <1>3, <1>5, <2>1, BeginsAppend
  <2> QED
    BY <1>2, <1>7, <2>1, <2>2, BeginsAppend
<1> HIDE DEF o2
<1>9. st2.out = o2 /\ st2.section = s /\ st2.left = st.left
  OBVIOUS
<1> HIDE DEF st2
<1>10. Flushed(st2, new, old, upd, slots)
  <2>1. Sound(st2.out, st2.left, old, upd) /\ EndSec(st2.out) = st2.section
    BY <1>6, <1>7, <1>9
  <2> QED
    BY <2>1, FlushKeeps
<1> HIDE DEF new
<1>11. /\ Sound(new.out, new.left, old, upd) /\ Names(new.out) = Names(st.out) \cup {s}
       /\ Kept(new.out, slots) = Kept(o2, slots) /\ new.left = {m \in st.left : upd[m].sec # s}
  BY <1>7, <1>9, <1>10 DEF Flushed
<1>12. ASSUME NEW m \in new.left PROVE m \notin 1 .. n + 1 /\ upd[m].sec \notin Names(new.out)
  <2>1. m \in st.left /\ upd[m].sec # s /\ m # n + 1
    BY <1>11 DEF s
  <2>2. m \notin 1 .. n /\ upd[m].sec \notin Names(st.out)
    BY <2>1 DEF Creating
  <2>3. m \notin 1 .. n + 1
    BY <2>1, <2>2
  <2> QED
    BY <1>11, <2>1, <2>2, <2>3
<1>13. Creating(new, n + 1, old, upd, slots)
  BY <1>8, <1>11, <1>12 DEF Creating
<1>14. NewSection(st, s, upd) = new
  BY DEF NewSection, new, st2, o2, o1, h
<1> QED
  BY <1>13, <1>14 DEF s

CreateOne(st, n, upd) == IF n \in st.left THEN NewSection(st, upd[n].sec, upd) ELSE st

\* f tells the state after the first n updates were looked at.
IsCreated(f, start, upd, n) ==
    f = [i \in 0 .. n |-> IF i = 0 THEN start ELSE CreateOne(f[i - 1], i, upd)]

LEMMA CreatedExists ==
    ASSUME NEW start, NEW upd, NEW N \in Nat
    PROVE  \E f : IsCreated(f, start, upd, N)
<1> DEFINE S == {n \in 0 .. N : \E f : IsCreated(f, start, upd, n)}
<1>1. 0 \in S
  <2>1. IsCreated([i \in 0 .. 0 |-> start], start, upd, 0)
    BY DEF IsCreated
  <2> QED
    BY <2>1
<1>2. ASSUME NEW n \in 0 .. N, n + 1 \in 0 .. N, n \in S PROVE n + 1 \in S
  <2>1. PICK f : IsCreated(f, start, upd, n)
    BY <1>2
  <2> DEFINE new == CreateOne(f[n], n + 1, upd)
             g == [i \in 0 .. n + 1 |-> IF i = n + 1 THEN new ELSE f[i]]
  <2> HIDE DEF new
  <2>2. ASSUME NEW i \in 0 .. n + 1
        PROVE  g[i] = IF i = 0 THEN start ELSE CreateOne(g[i - 1], i, upd)
    <3>1. CASE i = n + 1
      <4>1. g[i] = new /\ g[i - 1] = f[n] /\ i # 0
        BY <3>1
      <4> QED
        BY <3>1, <4>1 DEF new
    <3>2. CASE i # n + 1
      <4>1. i \in 0 .. n
        BY <3>2
      <4>2. g[i] = f[i] /\ (i # 0 => g[i - 1] = f[i - 1])
        BY <4>1
      <4>3. f[i] = IF i = 0 THEN start ELSE CreateOne(f[i - 1], i, upd)
        BY <2>1, <4>1 DEF IsCreated
      <4> QED
        BY <4>2, <4>3
    <3> QED
      BY <3>1, <3>2
  <2>3. IsCreated(g, start, upd, n + 1)
    BY <2>2 DEF IsCreated
  <2> QED
    BY <1>2, <2>3
<1> HIDE DEF S
<1>3. N \in S
  BY <1>1, <1>2, UpTo
<1> QED
  BY <1>3 DEF S

LEMMA SectionsIs ==
    ASSUME NEW start, NEW upd \in Seq(Update)
    PROVE  \E f : IsCreated(f, start, upd, Len(upd)) /\ NewSections(start, upd) = f[Len(upd)]
<1>1. \E f : IsCreated(f, start, upd, Len(upd))
  <2>1. Len(upd) \in Nat
    BY SeqShape
  <2> QED
    BY <2>1, CreatedExists
<1>2. IsCreated(CHOOSE f : IsCreated(f, start, upd, Len(upd)), start, upd, Len(upd))
  BY <1>1
<1>3. NewSections(start, upd) = (CHOOSE f : IsCreated(f, start, upd, Len(upd)))[Len(upd)]
  BY DEF NewSections, IsCreated, CreateOne
<1> QED
  BY <1>2, <1>3

LEMMA SectionsKeep ==
    ASSUME NEW upd, WellFormed(upd), NEW slots, Covers(slots, upd), NEW old \in Seq(Line), NEW start, Creating(start, 0, old, upd, slots)
    PROVE  Creating(NewSections(start, upd), Len(upd), old, upd, slots)
<1> DEFINE N == Len(upd)
<1>0. upd \in Seq(Update)
  BY DEF WellFormed
<1>1. N \in Nat
  BY <1>0, SeqShape
<1>2. PICK f : IsCreated(f, start, upd, N) /\ NewSections(start, upd) = f[N]
  BY <1>0, SectionsIs
<1> HIDE DEF N
<1> DEFINE S == {i \in 0 .. N : Creating(f[i], i, old, upd, slots)}
<1>3. 0 \in S
  <2>1. f[0] = start /\ 0 \in 0 .. N
    BY <1>1, <1>2 DEF IsCreated
  <2> QED
    BY <2>1
<1>4. ASSUME NEW i \in 0 .. N, i + 1 \in 0 .. N, i \in S PROVE i + 1 \in S
  <2>1. i + 1 # 0 /\ (i + 1) - 1 = i /\ i \in Nat
    BY <1>4
  <2>2. f[i + 1] = CreateOne(f[i], i + 1, upd)
    BY <1>2, <1>4, <2>1 DEF IsCreated
  <2> DEFINE st == f[i]
  <2>3. Creating(st, i, old, upd, slots)
    BY <1>4
  <2>4. Creating(CreateOne(st, i + 1, upd), i + 1, old, upd, slots)
    <3> HIDE DEF st
    <3>1. CASE i + 1 \in st.left
      BY <2>1, <2>3, <3>1, SectionKeeps DEF CreateOne
    <3>2. CASE i + 1 \notin st.left
      <4>1. \A m : m \in 1 .. i + 1 => m \in 1 .. i \/ m = i + 1
        BY <2>1
      <4> QED
        BY <2>3, <3>2, <4>1 DEF Creating, CreateOne
    <3> QED
      BY <3>1, <3>2
  <2> QED
    BY <1>4, <2>2, <2>4
<1> HIDE DEF S
<1>5. \A i \in 0 .. N : i \in S
  BY <1>1, <1>3, <1>4, UpTo
<1>6. N \in 0 .. N
  BY <1>1
<1>7. N \in S
  BY <1>5, <1>6
<1> QED
  BY <1>2, <1>7 DEF S, N

-----------------------------------------------------------------------------
(* apply_settings as a whole.                                              *)

\* `new` is `old` with all the updates and nothing else.
Applied(new, old, upd, slots) == Sound(new, {}, old, upd) /\ IsPrefix(Kept(old, slots), Kept(new, slots))

LEMMA ApplyIs ==
    ASSUME NEW upd, WellFormed(upd), NEW slots, Covers(slots, upd), NEW lines \in Seq(Line), Plain(lines)
    PROVE  Applied(ApplySettings(lines, upd), lines, upd, slots)
<1> DEFINE st == ApplyLines(lines, upd)
           F == FlushSection(st, upd)
           new == NewSections(F, upd)
<1>1. Reading(st, lines, upd, slots)
  BY LinesKeep
<1> HIDE DEF st
<1>2. Flushed(st, F, lines, upd, slots)
  BY <1>1, FlushKeeps DEF Reading
<1> HIDE DEF F
<1>3. Creating(F, 0, lines, upd, slots)
  <2>1. Sound(F.out, F.left, lines, upd)
    BY <1>2 DEF Flushed
  <2>2. ASSUME NEW m \in F.left PROVE m \notin 1 .. 0 /\ upd[m].sec \notin Names(F.out)
    <3>1. 1 .. 0 = {}
      OBVIOUS
    <3>2. m \in st.left /\ upd[m].sec # st.section
      BY <1>2 DEF Flushed
    <3>3. upd[m].sec \notin Names(lines)
      BY <1>1, <3>2 DEF Reading
    <3>4. Names(F.out) = Names(lines)
      BY <1>1, <1>2 DEF Reading, Flushed
    <3> QED
      BY <3>1, <3>3, <3>4
  <2>3. Kept(F.out, slots) = Kept(lines, slots)
    BY <1>1, <1>2 DEF Reading, Flushed
  <2>4. IsPrefix(Kept(lines, slots), Kept(F.out, slots))
    BY <2>3, KeptType, BeginsItself
  <2> QED
    BY <2>1, <2>2, <2>4 DEF Creating
<1>4. Creating(new, Len(upd), lines, upd, slots)
  BY <1>3, SectionsKeep
<1> HIDE DEF new
<1>5. new.left = {}
  <2>1. upd \in Seq(Update)
    BY DEF WellFormed
  <2>2. DOMAIN upd = 1 .. Len(upd)
    BY <2>1, SeqShape
  <2>3. new.left \subseteq DOMAIN upd
    BY <1>4 DEF Creating, Sound, Retained
  <2> QED
    BY <1>4, <2>2, <2>3 DEF Creating
<1>6. Applied(new.out, lines, upd, slots)
  BY <1>4, <1>5 DEF Creating, Applied
<1> QED
  BY <1>6 DEF new, F, st, ApplySettings

LEMMA AppliedMerges ==
    ASSUME NEW upd, NEW old, NEW new, Applied(new, old, upd, Changed(upd))
    PROVE  Merges(old, new, upd)
<1> DEFINE R == Retained(upd)
<1>1. \A n \in R : Get(new, upd[n].sec, upd[n].key) = upd[n].val.text
  BY DEF Applied, Sound
<1>2. ASSUME NEW k \in (Keys(new) \cup Keys(old)) \ Changed(upd)
      PROVE  Get(new, k.sec, k.key) = Get(old, k.sec, k.key)
  <2>1. k = [sec |-> k.sec, key |-> k.key]
    BY DEF Keys
  <2>2. Free(upd, k.sec, k.key)
    BY <2>1 DEF Free, Slot, Changed
  <2> QED
    BY <2>2 DEF Applied, Sound
<1>3. IsPrefix(Kept(old, Changed(upd)), Kept(new, Changed(upd))) /\ Plain(new)
  BY DEF Applied, Sound
<1> QED
  BY <1>1, <1>2, <1>3 DEF Merges

(* apply_settings (src/src/httpd.rs) on any plain text and any updates, at *)
(* most one for a key and none outside a section: read back by             *)
(* Config::parse the new text has the values of the updates and every      *)
(* other key as before; every line but those of the updated keys stays as  *)
(* it is and in its order, with new sections behind; and the text is plain *)
(* again.  (A line that is replaced loses the comment behind its value.)   *)
THEOREM ApplyMerges ==
    ASSUME NEW upd, WellFormed(upd), NEW lines \in Seq(Line), Plain(lines)
    PROVE  Merges(lines, ApplySettings(lines, upd), upd)
<1>1. Covers(Changed(upd), upd)
  BY DEF Covers, Changed, Slot
<1> QED
  BY <1>1, ApplyIs, AppliedMerges

-----------------------------------------------------------------------------
(* Whatever the file looks like, plain or not, apply_settings makes lines, *)
(* and reads and writes of a key that is in no update do not meet it.      *)

\* No update sets key k, in any section.
Foreign(upd, k) == \A n \in Retained(upd) : upd[n].key # k

\* t is a text with the foreign keys as in `old`.
Carries(t, old, upd) ==
    t \in Seq(Line) /\ \A s, k : Foreign(upd, k) => Get(t, s, k) = Get(old, s, k)

Typed(st, old, upd) == Carries(st.out, old, upd) /\ st.left \subseteq Retained(upd)

LEMMA WritesForeign ==
    ASSUME NEW upd, WellFormed(upd), NEW n \in Retained(upd), NEW old, NEW t, Carries(t, old, upd)
    PROVE  /\ Carries(Append(t, Written(upd[n])), old, upd)
           /\ EndSec(Append(t, Written(upd[n]))) = EndSec(t)
<1> DEFINE w == Written(upd[n])
           a == Append(t, w)
<1>1. t \in Seq(Line) /\ w \in Line /\ ~IsHeader(w) /\ w.name = upd[n].key
  BY WrittenLine DEF Carries
<1> HIDE DEF w
<1>2. a \in Seq(Line) /\ EndSec(a) = EndSec(t)
  BY <1>1, Appended, EndAppend
<1>3. ASSUME NEW s, NEW k, Foreign(upd, k) PROVE Get(a, s, k) = Get(old, s, k)
  <2>1. w.name # k
    BY <1>1, <1>3 DEF Foreign
  <2>2. Get(a, s, k) = Get(t, s, k)
    BY <1>1, <2>1, GetAppend
  <2> QED
    BY <1>3, <2>2 DEF Carries
<1> HIDE DEF a
<1>4. Carries(a, old, upd)
  BY <1>2, <1>3 DEF Carries
<1> QED
  BY <1>2, <1>4 DEF a, w

\* A line that sets no foreign key changes none.
LEMMA SkipsForeign ==
    ASSUME NEW upd, NEW old, NEW t, Carries(t, old, upd), NEW l \in Line, l.t # "kv"
    PROVE  Carries(Append(t, l), old, upd)
<1> DEFINE a == Append(t, l)
<1>1. t \in Seq(Line)
  BY DEF Carries
<1>2. a \in Seq(Line) /\ \A s, k : Get(a, s, k) = Get(t, s, k)
  BY <1>1, Appended, GetAppend
<1> HIDE DEF a
<1>3. Carries(a, old, upd)
  BY <1>2 DEF Carries
<1> QED
  BY <1>3 DEF a

\* A line that is copied.
LEMMA CopiesForeign ==
    ASSUME NEW upd, NEW old \in Seq(Line), NEW t, Carries(t, old, upd), EndSec(t) = EndSec(old), NEW l \in Line
    PROVE  Carries(Append(t, l), Append(old, l), upd) /\ EndSec(Append(t, l)) = EndSec(Append(old, l))
<1> DEFINE a == Append(t, l)
           b == Append(old, l)
<1>1. t \in Seq(Line)
  BY DEF Carries
<1>2. a \in Seq(Line) /\ EndSec(a) = EndSec(b)
  BY <1>1, Appended, EndAppend
<1>3. \A s, k : Foreign(upd, k) => Get(a, s, k) = Get(b, s, k)
  BY <1>1, GetAppend DEF Carries
<1> HIDE DEF a, b
<1>4. Carries(a, b, upd)
  BY <1>2, <1>3 DEF Carries
<1> QED
  BY <1>2, <1>4 DEF a, b

\* A line that is replaced: it set the key of an update.
LEMMA ReadsForeign ==
    ASSUME NEW upd, NEW old \in Seq(Line), NEW t, Carries(t, old, upd), NEW l \in Line,
           NEW n \in Retained(upd), l.t = "kv", l.name = upd[n].key
    PROVE  Carries(t, Append(old, l), upd) /\ EndSec(Append(old, l)) = EndSec(old)
<1> DEFINE b == Append(old, l)
<1>1. EndSec(b) = EndSec(old)
  BY EndAppend DEF IsHeader
<1>2. ASSUME NEW s, NEW k, Foreign(upd, k) PROVE Get(t, s, k) = Get(b, s, k)
  <2>1. l.name # k
    BY <1>2 DEF Foreign
  <2>2. Get(b, s, k) = Get(old, s, k)
    BY <2>1, GetAppend
  <2> QED
    BY <1>2, <2>2 DEF Carries
<1> HIDE DEF b
<1>3. Carries(t, b, upd)
  BY <1>2 DEF Carries
<1> QED
  BY <1>1, <1>3 DEF b

LEMMA FlushTyped ==
    ASSUME NEW upd, WellFormed(upd), NEW old, NEW st, Typed(st, old, upd)
    PROVE  Typed(FlushSection(st, upd), old, upd) /\ EndSec(FlushSection(st, upd).out) = EndSec(st.out)
<1> DEFINE N == Len(upd)
<1>0. upd \in Seq(Update)
  BY DEF WellFormed
<1>1. N \in Nat
  BY <1>0, SeqShape
<1>2. PICK f : /\ IsEmitted(f, st, upd, N)
               /\ FlushSection(st, upd) = [out |-> f[N], section |-> st.section,
                                           left |-> {n \in st.left : upd[n].sec # st.section}]
  BY <1>0, FlushIs
<1> HIDE DEF N
<1> DEFINE S == {i \in 0 .. N : Carries(f[i], old, upd) /\ EndSec(f[i]) = EndSec(st.out)}
<1>3. 0 \in S
  <2>1. f[0] = st.out /\ 0 \in 0 .. N
    BY <1>1, <1>2 DEF IsEmitted
  <2> QED
    BY <2>1 DEF Typed
<1>4. ASSUME NEW i \in 0 .. N, i + 1 \in 0 .. N, i \in S PROVE i + 1 \in S
  <2> DEFINE n == i + 1
             out == f[i]
  <2>1. n # 0 /\ n - 1 = i
    BY <1>4
  <2>2. f[n] = EmitOne(st, upd, n, out)
    BY <1>2, <1>4, <2>1 DEF IsEmitted
  <2>3. Carries(out, old, upd) /\ EndSec(out) = EndSec(st.out) /\ n \in 0 .. N
    BY <1>4
  <2>4. Carries(f[n], old, upd) /\ EndSec(f[n]) = EndSec(st.out)
    <3> HIDE DEF n, out
    <3>1. CASE n \in st.left /\ upd[n].sec = st.section
      <4>1. n \in Retained(upd)
        BY <3>1 DEF Typed
      <4>2. f[n] = Append(out, Written(upd[n]))
        BY <2>2, <3>1 DEF EmitOne
      <4> QED
        BY <2>3, <4>1, <4>2, WritesForeign
    <3>2. CASE ~(n \in st.left /\ upd[n].sec = st.section)
      BY <2>2, <2>3, <3>2 DEF EmitOne
    <3> QED
      BY <3>1, <3>2
  <2> QED
    BY <2>3, <2>4
<1> HIDE DEF S
<1>5. \A i \in 0 .. N : i \in S
  BY <1>1, <1>3, <1>4, UpTo
<1>6. N \in 0 .. N
  BY <1>1
<1>7. Carries(f[N], old, upd) /\ EndSec(f[N]) = EndSec(st.out)
  BY <1>5, <1>6 DEF S
<1> DEFINE F == FlushSection(st, upd)
<1>8. F.out = f[N] /\ F.left = {n \in st.left : upd[n].sec # st.section}
  BY <1>2
<1> HIDE DEF F
<1>9. Typed(F, old, upd) /\ EndSec(F.out) = EndSec(st.out)
  BY <1>7, <1>8 DEF Typed
<1> QED
  BY <1>9 DEF F

LEMMA LineTyped ==
    ASSUME NEW upd, WellFormed(upd), NEW old \in Seq(Line), NEW l \in Line,
           NEW st, Typed(st, old, upd), EndSec(st.out) = EndSec(old)
    PROVE  /\ Typed(ApplyLine(st, l, upd), Append(old, l), upd)
           /\ EndSec(ApplyLine(st, l, upd).out) = EndSec(Append(old, l))
<1> DEFINE new == ApplyLine(st, l, upd)
           b == Append(old, l)
<1>0. Carries(st.out, old, upd) /\ st.left \subseteq Retained(upd)
  BY DEF Typed
<1>1. CASE IsHeader(l) /\ ~l.tail
  <2> DEFINE F == FlushSection(st, upd)
  <2>1. Typed(F, old, upd) /\ EndSec(F.out) = EndSec(old)
    BY FlushTyped
  <2>2. new = [out |-> Append(F.out, l), section |-> l.name, left |-> F.left]
    BY <1>1 DEF ApplyLine
  <2> HIDE DEF F, new
  <2>3. Carries(Append(F.out, l), b, upd) /\ EndSec(Append(F.out, l)) = EndSec(b)
    BY <2>1, CopiesForeign DEF Typed
  <2>4. new.out = Append(F.out, l) /\ new.left = F.left
    BY <2>2
  <2> HIDE DEF b
  <2>5. Typed(new, b, upd) /\ EndSec(new.out) = EndSec(b)
    BY <2>1, <2>3, <2>4 DEF Typed
  <2> QED
    BY <2>5 DEF new, b
<1>2. CASE ~(IsHeader(l) /\ ~l.tail) /\ Matching(st, l, upd) # {}
  <2> DEFINE n == Min(Matching(st, l, upd))
             w == Written(upd[n])
  <2>1. n \in st.left /\ l.t = "kv" /\ l.name = upd[n].key
    <3>1. upd \in Seq(Update)
      BY DEF WellFormed
    <3>2. DOMAIN upd = 1 .. Len(upd) /\ Len(upd) \in Nat
      BY <3>1, SeqShape
    <3>3. Matching(st, l, upd) \subseteq st.left /\ st.left \subseteq DOMAIN upd
      BY <1>0 DEF Matching, Retained
    <3>4. Matching(st, l, upd) \in SUBSET Nat
      BY <3>2, <3>3
    <3>5. n \in Matching(st, l, upd)
      BY <1>2, <3>4, Least
    <3> HIDE DEF n
    <3> QED
      BY <3>5 DEF Matching
  <2>2. new = [out |-> Append(st.out, w), section |-> st.section, left |-> st.left \ {n}]
    BY <1>2 DEF ApplyLine
  <2> HIDE DEF n
  <2>3. n \in Retained(upd)
    BY <1>0, <2>1
  <2>4. Carries(Append(st.out, w), old, upd) /\ EndSec(Append(st.out, w)) = EndSec(st.out)
    BY <1>0, <2>3, WritesForeign
  <2> HIDE DEF w, new
  <2> DEFINE t == Append(st.out, w)
  <2>5. new.out = t /\ new.left = st.left \ {n}
    BY <2>2
  <2> HIDE DEF t
  <2>6. Carries(t, b, upd) /\ EndSec(b) = EndSec(old)
    BY <2>1, <2>3, <2>4, ReadsForeign DEF t
  <2> HIDE DEF b
  <2>7. Typed(new, b, upd) /\ EndSec(new.out) = EndSec(b)
    BY <1>0, <2>4, <2>5, <2>6 DEF Typed, t
  <2> QED
    BY <2>7 DEF new, b
<1>3. CASE ~(IsHeader(l) /\ ~l.tail) /\ Matching(st, l, upd) = {}
  <2>1. new = [out |-> Append(st.out, l), section |-> st.section, left |-> st.left]
    BY <1>3 DEF ApplyLine
  <2> HIDE DEF new
  <2>2. Carries(Append(st.out, l), b, upd) /\ EndSec(Append(st.out, l)) = EndSec(b)
    BY <1>0, CopiesForeign
  <2>3. new.out = Append(st.out, l) /\ new.left = st.left
    BY <2>1
  <2> HIDE DEF b
  <2>4. Typed(new, b, upd) /\ EndSec(new.out) = EndSec(b)
    BY <1>0, <2>2, <2>3 DEF Typed
  <2> QED
    BY <2>4 DEF new, b
<1> QED
  BY <1>1, <1>2, <1>3

LEMMA LinesTyped ==
    ASSUME NEW upd, WellFormed(upd), NEW lines \in Seq(Line)
    PROVE  Typed(ApplyLines(lines, upd), lines, upd)
<1> DEFINE N == Len(lines)
<1>0. N \in Nat
  BY SeqShape
<1>1. PICK f : IsRead(f, lines, upd, N) /\ ApplyLines(lines, upd) = f[N]
  BY LinesIs
<1> DEFINE part(i) == SubSeq(lines, 1, i)
           S == {i \in 0 .. N : Typed(f[i], part(i), upd) /\ EndSec(f[i].out) = EndSec(part(i))}
<1>2. 0 \in S
  <2>1. f[0] = Before(upd) /\ 0 \in 0 .. N
    BY <1>0, <1>1 DEF IsRead
  <2>2. Before(upd).out = <<>> /\ Before(upd).left = Retained(upd)
    BY DEF Before
  <2>3. Typed(Before(upd), <<>>, upd)
    BY <2>2, PlainEmpty DEF Typed, Carries
  <2> QED
    BY <2>1, <2>2, <2>3, WholePrefix
<1>3. ASSUME NEW i \in 0 .. N, i + 1 \in 0 .. N, i \in S PROVE i + 1 \in S
  <2> DEFINE old == part(i)
             l == lines[i + 1]
             st == f[i]
  <2>1. i + 1 # 0 /\ (i + 1) - 1 = i
    BY <1>3
  <2>2. f[i + 1] = ApplyLine(st, l, upd)
    BY <1>1, <1>3, <2>1 DEF IsRead
  <2>3. old \in Seq(Line) /\ l \in Line /\ part(i + 1) = Append(old, l)
    BY <1>3, Prefix
  <2>4. Typed(st, old, upd) /\ EndSec(st.out) = EndSec(old)
    BY <1>3
  <2> HIDE DEF old, l, st, S, part
  <2>5. /\ Typed(ApplyLine(st, l, upd), Append(old, l), upd)
        /\ EndSec(ApplyLine(st, l, upd).out) = EndSec(Append(old, l))
    BY <2>3, <2>4, LineTyped
  <2>6. Typed(f[i + 1], part(i + 1), upd) /\ EndSec(f[i + 1].out) = EndSec(part(i + 1))
    BY <2>2, <2>3, <2>5
  <2> QED
    BY <1>3, <2>6 DEF S
<1>4. Typed(f[N], part(N), upd)
  <2> HIDE DEF S, N, part
  <2>1. \A i \in 0 .. N : i \in S
    BY <1>0, <1>2, <1>3, UpTo
  <2>2. N \in 0 .. N
    BY <1>0
  <2>3. N \in S
    BY <2>1, <2>2
  <2> QED
    BY <2>3 DEF S
<1> QED
  BY <1>1, <1>4, WholePrefix

LEMMA SectionTyped ==
    ASSUME NEW upd, WellFormed(upd), NEW old, NEW st, Typed(st, old, upd), NEW s \in Word
    PROVE  Typed(NewSection(st, s, upd), old, upd)
<1> DEFINE o1 == Append(st.out, Other)
           o2 == Append(o1, Header(s, FALSE))
           st2 == [out |-> o2, section |-> s, left |-> st.left]
<1>1. Carries(o1, old, upd)
  BY OtherLine, SkipsForeign DEF Typed
<1>2. Header(s, FALSE) \in Line /\ Header(s, FALSE).t # "kv"
  BY HeaderLine
<1> HIDE DEF o1
<1>3. Carries(o2, old, upd)
  BY <1>1, <1>2, SkipsForeign
<1> HIDE DEF o2
<1>4. st2.out = o2 /\ st2.left = st.left
  OBVIOUS
<1> HIDE DEF st2
<1>5. Typed(st2, old, upd)
  BY <1>3, <1>4 DEF Typed
<1>6. Typed(FlushSection(st2, upd), old, upd)
  BY <1>5, FlushTyped
<1> QED
  BY <1>6 DEF NewSection, st2, o2, o1

LEMMA SectionsTyped ==
    ASSUME NEW upd, WellFormed(upd), NEW old, NEW start, Typed(start, old, upd)
    PROVE  Typed(NewSections(start, upd), old, upd)
<1> DEFINE N == Len(upd)
<1>0. upd \in Seq(Update)
  BY DEF WellFormed
<1>1. N \in Nat
  BY <1>0, SeqShape
<1>2. PICK f : IsCreated(f, start, upd, N) /\ NewSections(start, upd) = f[N]
  BY <1>0, SectionsIs
<1> HIDE DEF N
<1> DEFINE S == {i \in 0 .. N : Typed(f[i], old, upd)}
<1>3. 0 \in S
  <2>1. f[0] = start /\ 0 \in 0 .. N
    BY <1>1, <1>2 DEF IsCreated
  <2> QED
    BY <2>1
<1>4. ASSUME NEW i \in 0 .. N, i + 1 \in 0 .. N, i \in S PROVE i + 1 \in S
  <2> DEFINE n == i + 1
             st == f[i]
  <2>1. n # 0 /\ n - 1 = i
    BY <1>4
  <2>2. f[n] = CreateOne(st, n, upd) /\ n \in 0 .. N
    BY <1>2, <1>4, <2>1 DEF IsCreated
  <2>3. Typed(st, old, upd)
    BY <1>4
  <2> HIDE DEF n, st
  <2>4. Typed(CreateOne(st, n, upd), old, upd)
    <3>1. CASE n \in st.left
      <4>1. upd[n].sec \in Word
        BY <2>3, <3>1, WrittenLine DEF Typed
      <4> QED
        BY <2>3, <3>1, <4>1, SectionTyped DEF CreateOne
    <3>2. CASE n \notin st.left
      BY <2>3, <3>2 DEF CreateOne
    <3> QED
      BY <3>1, <3>2
  <2> QED
    BY <2>2, <2>4 DEF n
<1> HIDE DEF S
<1>5. \A i \in 0 .. N : i \in S
  BY <1>1, <1>3, <1>4, UpTo
<1>6. N \in 0 .. N
  BY <1>1
<1>7. N \in S
  BY <1>5, <1>6
<1> QED
  BY <1>2, <1>7 DEF S

LEMMA ApplyTyped ==
    ASSUME NEW upd, WellFormed(upd), NEW lines \in Seq(Line)
    PROVE  Carries(ApplySettings(lines, upd), lines, upd)
<1>1. Typed(NewSections(FlushSection(ApplyLines(lines, upd), upd), upd), lines, upd)
  BY LinesTyped, FlushTyped, SectionsTyped
<1> QED
  BY <1>1 DEF Typed, ApplySettings

-----------------------------------------------------------------------------
(* The updates of a form.                                                  *)

LEMMA ManagedIs ==
    /\ Len(Managed) = 6
    /\ Managed[1].sec = "system" /\ Managed[2].sec = "lan" /\ Managed[3].sec = "wifi"
    /\ Managed[4].sec = "wifi" /\ Managed[5].sec = "wan" /\ Managed[6].sec = "dhcp"
    /\ Managed[1].key = "hostname" /\ Managed[2].key = "ipaddr" /\ Managed[3].key = "ssid"
    /\ Managed[4].key = "key" /\ Managed[5].key = "proto" /\ Managed[6].key = "enabled"
BY DEF Managed

LEMMA UpdatesWellFormed ==
    ASSUME NEW form \in SUBSET [name : Word, val : Value]
    PROVE  /\ WellFormed(Updates(form))
           /\ \A s, k : [sec |-> s, key |-> k] \notin FormKeys => Free(Updates(form), s, k)
           /\ Foreign(Updates(form), "password") /\ Foreign(Updates(form), "password_sha256")
<1> DEFINE upd == Updates(form)
           val(f) == IF f.name = "dhcp_enabled" THEN Checked(form, f.name) ELSE Field(form, f.name)
<1>1. upd = [n \in 1 .. 6 |-> [sec |-> Managed[n].sec, key |-> Managed[n].key, val |-> val(Managed[n])]]
  BY ManagedIs DEF Updates
<1>2. ASSUME NEW f PROVE val(f) \in Value \cup {NotSent}
  <2>1. ASSUME NEW x PROVE Checked(form, x) \in Value
    BY WordAssumption DEF Checked, Value
  <2>2. ASSUME NEW x PROVE Field(form, x) \in Value \cup {NotSent}
    <3>1. CASE \E g \in form : g.name = x
      <4>1. PICK g \in form : g.name = x
        BY <3>1
      <4>2. (CHOOSE h \in form : h.name = x) \in form
        BY <4>1
      <4>3. (CHOOSE h \in form : h.name = x).val \in Value
        BY <4>2
      <4> QED
        BY <3>1, <4>3 DEF Field
    <3>2. CASE ~\E g \in form : g.name = x
      BY <3>2 DEF Field
    <3> QED
      BY <3>1, <3>2
  <2> QED
    BY <2>1, <2>2
<1> HIDE DEF val, upd
<1>3. ASSUME NEW n \in 1 .. 6
      PROVE  upd[n].sec = Managed[n].sec /\ upd[n].key = Managed[n].key /\ upd[n] \in Update
  <2>1. upd[n] = [sec |-> Managed[n].sec, key |-> Managed[n].key, val |-> val(Managed[n])]
    BY <1>1
  <2>2. Managed[n].sec \in Word /\ Managed[n].key \in Word
    BY WordAssumption, ManagedIs
  <2>3. val(Managed[n]) \in Value \cup {NotSent}
    BY <1>2
  <2> QED
    BY <2>1, <2>2, <2>3 DEF Update
<1>4. upd \in Seq(Update) /\ DOMAIN upd = 1 .. 6
  <2> HIDE DEF Update
  <2>1. upd \in [1 .. 6 -> Update]
    BY <1>1, <1>3
  <2>2. 6 \in Nat
    OBVIOUS
  <2>3. upd \in Seq(Update)
    BY <2>1, <2>2, SeqDef, Zenon
  <2> QED
    BY <2>1, <2>3
<1>5. ASSUME NEW n \in 1 .. 6 PROVE n = 1 \/ n = 2 \/ n = 3 \/ n = 4 \/ n = 5 \/ n = 6
  OBVIOUS
<1>6. \A n \in 1 .. 6 : Managed[n].sec # ""
  BY <1>5, ManagedIs
<1>7. \A m, n \in 1 .. 6 : Managed[m].sec = Managed[n].sec /\ Managed[m].key = Managed[n].key => m = n
  BY <1>5, ManagedIs
<1>8. WellFormed(upd)
  BY <1>3, <1>4, <1>6, <1>7 DEF WellFormed
<1>9. ASSUME NEW s, NEW k, [sec |-> s, key |-> k] \notin FormKeys PROVE Free(upd, s, k)
  <2>1. \A n \in 1 .. 6 : ~(Managed[n].sec = s /\ Managed[n].key = k)
    BY <1>9, ManagedIs DEF FormKeys, Slot
  <2>2. Retained(upd) \subseteq 1 .. 6
    BY <1>4 DEF Retained
  <2> QED
    BY <1>3, <2>1, <2>2 DEF Free
<1>10. Foreign(upd, "password") /\ Foreign(upd, "password_sha256")
  <2>1. \A n \in 1 .. 6 : Managed[n].key # "password" /\ Managed[n].key # "password_sha256"
    BY <1>5, ManagedIs
  <2>2. Retained(upd) \subseteq 1 .. 6
    BY <1>4 DEF Retained
  <2> QED
    BY <1>3, <2>1, <2>2 DEF Foreign
<1> QED
  BY <1>8, <1>9, <1>10 DEF upd

-----------------------------------------------------------------------------
(* The file, and the threads that change it.  While no two saves overlap   *)
(* there is one such thread, and what it computed is of the text on disk.  *)

LEMMA NotAbsent ==
    ASSUME NEW t \in Seq(Line)
    PROVE  t # Absent
<1> SUFFICES ASSUME t = Absent PROVE FALSE
  OBVIOUS
<1>1. Len(t) = 1 /\ t[1] = [t |-> "absent"]
  BY DEF Absent
<1>2. t[1] \in Line
  BY <1>1, Appended
<1>3. t[1].t \in {"header", "kv", "other"}
  BY <1>2 DEF Line
<1>4. t[1].t = "absent"
  BY <1>1
<1> QED
  BY <1>3, <1>4

LEMMA PartTyped ==
    ASSUME NEW t \in Seq(Line), NEW n \in Nat
    PROVE  SubSeq(t, n + 1, Len(t)) \in Seq(Line)
<1> DEFINE m == n + 1
           k == Len(t)
<1> HIDE DEF Line
<1>0. k \in Nat /\ \A i \in 1 .. k : t[i] \in Line
  OBVIOUS
<1>1. CASE m <= k
  <2>1. SubSeq(t, m, k) = [i \in 1 .. (k - n) |-> t[i + n]]
    BY <1>0, <1>1
  <2>2. ASSUME NEW i \in 1 .. (k - n) PROVE t[i + n] \in Line
    BY <1>0
  <2>3. k - n \in Nat
    BY <1>0, <1>1
  <2>4. [i \in 1 .. (k - n) |-> t[i + n]] \in Seq(Line)
    BY <2>2, <2>3
  <2> QED
    BY <2>1, <2>4
<1>2. CASE ~(m <= k)
  <2>1. SubSeq(t, m, k) = <<>>
    BY <1>0, <1>2
  <2> QED
    BY <2>1
<1> QED
  BY <1>1, <1>2

LEMMA OverlayTyped ==
    ASSUME NEW text \in Seq(Line), file \in Seq(Line)
    PROVE  Overlay(text) \in Seq(Line)
<1> DEFINE u == SubSeq(file, Len(text) + 1, Len(file))
<1>1. Len(text) \in Nat
  BY SeqShape
<1>2. u \in Seq(Line)
  BY <1>1, PartTyped
<1> HIDE DEF u, Line
<1>3. text \o u \in Seq(Line)
  BY <1>2
<1> QED
  BY <1>3 DEF Overlay, u

LEMMA OverlayEmpty ==
    ASSUME NEW text \in Seq(Line), file = <<>>
    PROVE  Overlay(text) = text
<1>1. Len(text) \in Nat
  BY SeqShape
<1>2. SubSeq(<<>>, Len(text) + 1, 0) = <<>> /\ Len(<<>>) = 0
  BY <1>1
<1>3. Overlay(text) = text \o <<>>
  BY <1>2 DEF Overlay
<1> QED
  BY <1>3, ConcatEmptySeq

-----------------------------------------------------------------------------
(* The inductive invariant for the file.                                   *)

Posted == [name : Word, val : Value]
Busy(t) == t.pc \in {"write", "writing"}
Sane(t) == t.text \in Seq(Line) /\ t.req.form \in SUBSET Posted

Texts ==
    /\ file \in Seq(Line) \cup {Absent} /\ base \in Seq(Line)
    /\ \A c \in Conn : Sane(conn[c]) /\ (conn[c].pc = "writing" => file \in Seq(Line))

Solo == ~overlap => \A c, d \in Conn : Busy(conn[c]) /\ Busy(conn[d]) => c = d

Fresh ==
    ~overlap => \A c \in Conn : conn[c].pc = "write" =>
                    conn[c].text = ApplySettings(Text, Updates(conn[c].req.form))

\* t has the password of the text b, and what the form does not manage.
Keeps(t, b) ==
    /\ Admin(t) = Admin(b)
    /\ Plain(b) => /\ Plain(t)
                   /\ \A s, k : [sec |-> s, key |-> k] \notin FormKeys => Get(t, s, k) = Get(b, s, k)
                   /\ IsPrefix(Kept(b, FormKeys), Kept(t, FormKeys))

\* Between the open and the end of a write the file is empty, and what was in
\* it is in the hands of the one thread that writes.
SavesKeep ==
    ~torn /\ ~overlap =>
        /\ AtRest => Keeps(Text, base)
        /\ ~AtRest => file = <<>>
        /\ \A c \in Conn : Busy(conn[c]) => Keeps(conn[c].text, base)

FileInv == Texts /\ Solo /\ Fresh /\ SavesKeep

LEMMA TextTyped ==
    ASSUME Texts
    PROVE  Text \in Seq(Line)
BY HttpdAssumption DEF Texts, Text

\* The updates are for keys of the form, and those are not passwords.
FormOnly(upd) ==
    /\ \A s, k : [sec |-> s, key |-> k] \notin FormKeys => Free(upd, s, k)
    /\ Foreign(upd, "password") /\ Foreign(upd, "password_sha256")

LEMMA FormUpdates ==
    ASSUME NEW t, Sane(t)
    PROVE  /\ WellFormed(Updates(t.req.form))
           /\ FormOnly(Updates(t.req.form))
BY UpdatesWellFormed DEF Sane, Posted, FormOnly

\* One more save of a text that has kept what the form does not manage.
LEMMA ApplyKeeps ==
    ASSUME NEW t \in Seq(Line), NEW b \in Seq(Line), Keeps(t, b), NEW upd, WellFormed(upd), FormOnly(upd)
    PROVE  Keeps(ApplySettings(t, upd), b)
<1> DEFINE new == ApplySettings(t, upd)
<1>0. Carries(new, t, upd)
  BY ApplyTyped
<1>a. Covers(FormKeys, upd)
  <2> SUFFICES ASSUME NEW n \in Retained(upd), [sec |-> upd[n].sec, key |-> upd[n].key] \notin FormKeys PROVE FALSE
    BY DEF Covers
  <2>1. Free(upd, upd[n].sec, upd[n].key)
    BY DEF FormOnly
  <2> QED
    BY <2>1 DEF Free
<1>1. Plain(t) => Applied(new, t, upd, FormKeys)
  BY <1>a, ApplyIs
<1> HIDE DEF new
<1>2. Admin(new) = Admin(b)
  <2>1. Admin(new) = Admin(t)
    BY <1>0 DEF Carries, FormOnly, Admin
  <2> QED
    BY <2>1 DEF Keeps
<1>3. ASSUME Plain(b)
      PROVE  /\ Plain(new)
             /\ \A s, k : [sec |-> s, key |-> k] \notin FormKeys => Get(new, s, k) = Get(b, s, k)
             /\ IsPrefix(Kept(b, FormKeys), Kept(new, FormKeys))
  <2>0. Applied(new, t, upd, FormKeys)
    BY <1>1, <1>3 DEF Keeps
  <2>1. new \in Seq(Line) /\ Plain(new) /\ IsPrefix(Kept(t, FormKeys), Kept(new, FormKeys))
    BY <2>0 DEF Applied, Sound
  <2>2. \A s, k : [sec |-> s, key |-> k] \notin FormKeys => Get(new, s, k) = Get(b, s, k)
    BY <1>3, <2>0 DEF Applied, Sound, Keeps, FormOnly
  <2>3. Kept(b, FormKeys) \in Seq(Line) /\ Kept(t, FormKeys) \in Seq(Line) /\ Kept(new, FormKeys) \in Seq(Line)
    BY <2>1, KeptType
  <2>4. IsPrefix(Kept(b, FormKeys), Kept(new, FormKeys))
    BY <1>3, <2>1, <2>3, BeginsTwice DEF Keeps
  <2> QED
    BY <2>1, <2>2, <2>4
<1>4. Keeps(new, b)
  BY <1>2, <1>3 DEF Keeps
<1> QED
  BY <1>4 DEF new

LEMMA SaneIdle == Sane(Idle) /\ ~Busy(Idle) /\ Idle.pc = "idle"
<1>1. Idle.pc = "idle" /\ Idle.text = <<>> /\ Idle.req.form = {}
  BY DEF Idle, NoReq
<1>2. {} \in SUBSET Posted
  OBVIOUS
<1> QED
  BY <1>1, <1>2, PlainEmpty DEF Sane, Busy

LEMMA FileInit == Init => FileInv
<1> SUFFICES ASSUME Init PROVE FileInv
  OBVIOUS
<1>1. \A c \in Conn : conn[c] = Idle
  BY DEF Init
<1>2. file \in Seq(Line) \cup {Absent} /\ base \in Seq(Line) /\ base = Text
  BY HttpdAssumption DEF Init, Text
<1>3. Texts
  BY <1>1, <1>2, SaneIdle DEF Texts
<1>4. Solo /\ Fresh
  BY <1>1, SaneIdle DEF Solo, Fresh
<1>5. AtRest
  BY <1>1, SaneIdle DEF AtRest
<1>6. Kept(base, FormKeys) \in Seq(Line)
  BY <1>2, KeptType
<1>7. Keeps(Text, base)
  BY <1>2, <1>6, BeginsItself DEF Keeps
<1>8. SavesKeep
  BY <1>1, <1>5, <1>7, SaneIdle DEF SavesKeep
<1> QED
  BY <1>3, <1>4, <1>8 DEF FileInv

-----------------------------------------------------------------------------
(* The steps.                                                              *)

\* A step of a thread that does not touch the file and is not about to.
LEMMA StepsAside ==
    ASSUME FileInv, NEW c \in Conn, OnlyMoves(c), UNCHANGED <<file, base, torn, overlap>>,
           conn[c].pc # "writing", ~Busy(conn'[c]), Sane(conn'[c])
    PROVE  FileInv'
<1>0. Texts /\ Solo /\ Fresh /\ SavesKeep /\ conn'[c].pc # "writing" /\ conn'[c].pc # "write"
  BY DEF FileInv, Busy
<1>1. \A d \in Conn : d # c => conn'[d] = conn[d]
  BY DEF OnlyMoves
<1>2. Text' = Text
  BY DEF Text
<1>3. Texts'
  BY <1>0, <1>1 DEF Texts
<1>4. Solo'
  BY <1>0, <1>1 DEF Solo
<1>5. Fresh'
  BY <1>0, <1>1, <1>2 DEF Fresh
<1>6. AtRest' <=> AtRest
  BY <1>0, <1>1 DEF AtRest
<1>7. \A d \in Conn : Busy(conn'[d]) => conn'[d] = conn[d] /\ Busy(conn[d])
  BY <1>1
<1>8. SavesKeep'
  BY <1>0, <1>2, <1>6, <1>7 DEF SavesKeep
<1> QED
  BY <1>3, <1>4, <1>5, <1>8 DEF FileInv

LEMMA SaveReadKeeps ==
    ASSUME FileInv, Threads, NEW c \in Conn, SaveRead(c)
    PROVE  FileInv'
<1> DEFINE upd == Updates(conn[c].req.form)
           new == ApplySettings(Text, upd)
<1>0. Texts /\ Solo /\ Fresh /\ SavesKeep /\ Text \in Seq(Line)
  BY TextTyped DEF FileInv
<1>1. OnlyMoves(c) /\ IsThread(conn'[c], "write", conn[c].req, conn[c].cfg, new, conn[c].at)
  <2>1. conn' = [conn EXCEPT ![c].pc = "write", ![c].text = new]
    BY DEF SaveRead
  <2> HIDE DEF new
  <2> QED
    BY <2>1, Moves
<1>2. UNCHANGED <<file, base, torn>> /\ conn[c].pc = "authed"
  BY DEF SaveRead, SaveAllowed
<1>3. Text' = Text
  BY <1>2 DEF Text
<1>4. ~overlap' => ~overlap /\ \A d \in Conn : ~Busy(conn[d])
  BY DEF SaveRead, Busy
<1>5. WellFormed(upd) /\ Sane(conn[c]) /\ FormOnly(upd)
  BY <1>0, FormUpdates DEF Texts
<1>6. new \in Seq(Line)
  BY <1>0, <1>5, ApplyTyped DEF Carries
<1>7. conn'[c].pc = "write" /\ conn'[c].req = conn[c].req /\ conn'[c].text = new
  BY <1>1 DEF IsThread
<1>8. \A d \in Conn : d # c => conn'[d] = conn[d]
  BY <1>1 DEF OnlyMoves
<1>9. Sane(conn'[c])
  BY <1>5, <1>6, <1>7 DEF Sane
<1>10. Texts'
  BY <1>0, <1>2, <1>7, <1>8, <1>9 DEF Texts
<1>11. Solo'
  BY <1>4, <1>8 DEF Solo
<1>12. Fresh'
  <2> SUFFICES ASSUME ~overlap', NEW d \in Conn, conn'[d].pc = "write"
               PROVE  conn'[d].text = ApplySettings(Text', Updates(conn'[d].req.form))
    BY DEF Fresh
  <2>1. d = c
    BY <1>4, <1>8 DEF Busy
  <2> QED
    BY <1>3, <1>7, <2>1
<1>13. ASSUME ~torn, ~overlap' PROVE AtRest /\ AtRest' /\ Keeps(Text, base) /\ Keeps(new, base)
  <2>1. AtRest /\ AtRest'
    BY <1>4, <1>7, <1>8, <1>13 DEF AtRest, Busy
  <2>2. Keeps(Text, base) /\ base \in Seq(Line)
    BY <1>0, <1>4, <1>13, <2>1 DEF SavesKeep, Texts
  <2> HIDE DEF upd
  <2>3. Keeps(new, base)
    BY <1>0, <1>5, <2>2, ApplyKeeps
  <2> QED
    BY <2>1, <2>2, <2>3
<1>14. SavesKeep'
  <2> HIDE DEF new
  <2> SUFFICES ASSUME ~torn, ~overlap'
               PROVE  /\ Keeps(Text', base') /\ AtRest'
                      /\ \A d \in Conn : Busy(conn'[d]) => Keeps(conn'[d].text, base')
    BY <1>2 DEF SavesKeep
  <2>1. \A d \in Conn : Busy(conn'[d]) => d = c
    BY <1>4, <1>8
  <2> QED
    BY <1>2, <1>3, <1>7, <1>13, <2>1
<1> QED
  BY <1>10, <1>11, <1>12, <1>14 DEF FileInv

LEMMA SaveOpenKeeps ==
    ASSUME FileInv, Threads, NEW c \in Conn, SaveOpen(c)
    PROVE  FileInv'
<1>0. Texts /\ Solo /\ Fresh /\ SavesKeep
  BY DEF FileInv
<1>1. OnlyMoves(c) /\ IsThread(conn'[c], "writing", conn[c].req, conn[c].cfg, conn[c].text, conn[c].at)
  BY Moves DEF SaveOpen
<1>2. UNCHANGED <<base, torn, overlap>> /\ conn[c].pc = "write" /\ file' = <<>>
  BY DEF SaveOpen
<1>3. conn'[c].pc = "writing" /\ conn'[c].req = conn[c].req /\ conn'[c].text = conn[c].text
  BY <1>1 DEF IsThread
<1>4. \A d \in Conn : d # c => conn'[d] = conn[d]
  BY <1>1 DEF OnlyMoves
<1>5. file' \in Seq(Line)
  BY <1>2, PlainEmpty
<1>6. Sane(conn'[c])
  BY <1>0, <1>3 DEF Sane, Texts
<1>7. Texts'
  BY <1>0, <1>2, <1>4, <1>5, <1>6 DEF Texts
<1>8. Busy(conn[c]) /\ Busy(conn'[c])
  BY <1>2, <1>3 DEF Busy
<1>9. \A d \in Conn : Busy(conn'[d]) <=> Busy(conn[d])
  BY <1>4, <1>8
<1>10. Solo'
  BY <1>0, <1>2, <1>9 DEF Solo
<1>11. ~overlap => \A d \in Conn : Busy(conn[d]) => d = c
  BY <1>0, <1>8 DEF Solo
<1>12. Fresh'
  <2> SUFFICES ASSUME ~overlap', NEW d \in Conn, conn'[d].pc = "write" PROVE FALSE
    BY DEF Fresh
  <2>1. Busy(conn'[d])
    BY DEF Busy
  <2>2. d = c
    BY <1>2, <1>9, <1>11, <2>1
  <2> QED
    BY <1>3, <2>2
<1>13. ~AtRest'
  BY <1>3 DEF AtRest
<1>14. SavesKeep'
  BY <1>0, <1>2, <1>3, <1>4, <1>9, <1>13 DEF SavesKeep
<1> QED
  BY <1>7, <1>10, <1>12, <1>14 DEF FileInv

\* What holds when a thread has written, wholly or in part.
LEMMA Wrote ==
    ASSUME FileInv, Threads, NEW c \in Conn, conn[c].pc = "writing", Respond(c),
           UNCHANGED <<base, overlap>>, file' \in Seq(Line),
           torn' \/ (torn' = torn /\ file' = Overlay(conn[c].text))
    PROVE  FileInv'
<1>0. Texts /\ Solo /\ Fresh /\ SavesKeep
  BY DEF FileInv
<1>1. conn'[c] = Idle /\ \A d \in Conn : d # c => conn'[d] = conn[d]
  BY DEF Respond, Threads
<1>2. Texts'
  BY <1>0, <1>1, SaneIdle DEF Texts
<1>3. Busy(conn[c])
  BY DEF Busy
<1>4. ~overlap' => \A d \in Conn : ~Busy(conn'[d])
  BY <1>0, <1>1, <1>3, SaneIdle DEF Solo
<1>5. Solo' /\ Fresh'
  BY <1>4 DEF Solo, Fresh, Busy
<1>6. SavesKeep'
  <2> SUFFICES ASSUME ~torn', ~overlap'
               PROVE  AtRest' /\ Keeps(Text', base') /\ \A d \in Conn : ~Busy(conn'[d])
    BY DEF SavesKeep
  <2>1. AtRest'
    BY <1>4 DEF AtRest, Busy
  <2>2. ~torn /\ ~overlap /\ file' = Overlay(conn[c].text)
    OBVIOUS
  <2>3. ~AtRest
    BY DEF AtRest
  <2>4. file = <<>> /\ Keeps(conn[c].text, base)
    BY <1>0, <1>3, <2>2, <2>3 DEF SavesKeep
  <2>5. conn[c].text \in Seq(Line)
    BY <1>0 DEF Texts, Sane
  <2>6. file' = conn[c].text
    BY <2>2, <2>4, <2>5, OverlayEmpty
  <2>7. Text' = conn[c].text
    BY <2>6, NotAbsent DEF Text
  <2> QED
    BY <1>4, <2>1, <2>4, <2>7
<1> QED
  BY <1>2, <1>5, <1>6 DEF FileInv

LEMMA SaveWriteKeeps ==
    ASSUME FileInv, Threads, NEW c \in Conn, SaveWrite(c) \/ SaveWriteFails(c)
    PROVE  FileInv'
<1>0. conn[c].pc = "writing" /\ Respond(c) /\ UNCHANGED <<base, overlap>>
  BY DEF SaveWrite, SaveWriteFails
<1>1. file \in Seq(Line) /\ conn[c].text \in Seq(Line)
  BY <1>0 DEF FileInv, Texts, Sane
<1>2. CASE SaveWrite(c)
  <2>1. torn' = torn /\ file' = Overlay(conn[c].text)
    BY <1>2 DEF SaveWrite
  <2>2. file' \in Seq(Line)
    BY <1>1, <2>1, OverlayTyped
  <2> QED
    BY <1>0, <2>1, <2>2, Wrote
<1>3. CASE SaveWriteFails(c)
  <2> DEFINE t == conn[c].text
  <2>1. torn' /\ \E n \in 0 .. Len(t) - 1 : file' = Overlay(SubSeq(t, 1, n))
    BY <1>3 DEF SaveWriteFails
  <2>2. PICK n \in 0 .. Len(t) - 1 : file' = Overlay(SubSeq(t, 1, n))
    BY <2>1
  <2>3. t \in Seq(Line)
    BY <1>1
  <2> HIDE DEF t
  <2>4. Len(t) \in Nat
    BY <2>3, SeqShape
  <2>5. n \in 0 .. Len(t) /\ n + 1 \in 0 .. Len(t)
    BY <2>4
  <2>6. SubSeq(t, 1, n) \in Seq(Line)
    BY <2>3, <2>5, Prefix
  <2>7. file' \in Seq(Line)
    BY <1>1, <2>2, <2>6, OverlayTyped
  <2> QED
    BY <1>0, <2>1, <2>7, Wrote
<1> QED
  BY <1>2, <1>3

LEMMA CrashKeepsFile ==
    ASSUME FileInv, Crash
    PROVE  FileInv'
<1>0. Texts /\ Solo /\ Fresh /\ SavesKeep
  BY DEF FileInv
<1>1. UNCHANGED <<file, base, overlap>> /\ \A c \in Conn : conn'[c] = Idle
  BY DEF Crash
<1>2. Text' = Text
  BY <1>1 DEF Text
<1>3. ~torn' => ~torn /\ AtRest
  BY DEF Crash, AtRest
<1>4. Texts' /\ Solo' /\ Fresh'
  BY <1>0, <1>1, SaneIdle DEF Texts, Solo, Fresh
<1>5. AtRest'
  BY <1>1, SaneIdle DEF AtRest
<1>6. SavesKeep'
  BY <1>0, <1>1, <1>2, <1>3, <1>5, SaneIdle DEF SavesKeep
<1> QED
  BY <1>4, <1>6 DEF FileInv

LEMMA RequestKeepsFile ==
    ASSUME FileInv, Threads, NEW c \in Conn, Request(c)
    PROVE  FileInv'
<1>1. ASSUME NEW kind, NEW token, NEW csrf, NEW pw, NEW form \in SUBSET Posted,
             Accept(c, kind, token, csrf, pw, form)
      PROVE  FileInv'
  <2> DEFINE r == [kind |-> kind, token |-> token, csrf |-> csrf, password |-> pw, form |-> form]
             t == [Idle EXCEPT !.pc = "load", !.req = r]
  <2>1. OnlyMoves(c) /\ conn'[c] = t
    BY <1>1 DEF Accept, OnlyMoves, Threads
  <2>2. r.form = form
    OBVIOUS
  <2> HIDE DEF r
  <2>3. t.pc = "load" /\ t.req = r /\ t.text = <<>>
    <3>1. Idle = [x \in Parts |-> Idle[x]] /\ Idle.text = <<>>
      BY DEF Idle, Parts
    <3>2. IsThread([Idle EXCEPT !.pc = "load", !.req = r], "load", r, Idle.cfg, Idle.text, Idle.at)
      BY <3>1, Fields
    <3> QED
      BY <3>1, <3>2 DEF IsThread
  <2> HIDE DEF t
  <2>4. Sane(t) /\ ~Busy(t)
    BY <1>1, <2>2, <2>3, PlainEmpty DEF Sane, Busy
  <2>5. conn[c].pc # "writing" /\ UNCHANGED <<file, base, torn, overlap>>
    BY <1>1 DEF Accept
  <2> QED
    BY <2>1, <2>4, <2>5, StepsAside
<1>2. {} \in SUBSET Posted
  OBVIOUS
<1>3. ASSUME NEW form \in Forms PROVE form \in SUBSET Posted
  BY HttpdAssumption DEF Posted, Value
<1>4. CASE Accept(c, "page", NoToken, NoToken, "", {})
  BY <1>1, <1>2, <1>4
<1>5. ASSUME NEW pw \in Password, Accept(c, "login", NoToken, NoToken, pw, {}) PROVE FileInv'
  BY <1>1, <1>2, <1>5
<1>6. ASSUME NEW token \in Known, Accept(c, "fragment", token, NoToken, "", {}) PROVE FileInv'
  BY <1>1, <1>2, <1>6
<1>7. ASSUME NEW token \in Known, NEW csrf \in {token, NoToken}, Accept(c, "reboot", token, csrf, "", {})
      PROVE  FileInv'
  BY <1>1, <1>2, <1>7
<1>8. ASSUME NEW token \in Known, NEW csrf \in {token, NoToken}, NEW form \in Forms,
             Accept(c, "save", token, csrf, "", form)
      PROVE  FileInv'
  BY <1>1, <1>3, <1>8
<1> QED
  BY <1>4, <1>5, <1>6, <1>7, <1>8 DEF Request

LEMMA StepKeepsFile ==
    ASSUME FileInv, Threads, NEW c \in Conn, Step(c)
    PROVE  FileInv'
<1>0. Sane(conn[c])
  BY DEF FileInv, Texts
<1>1. ASSUME Respond(c), conn[c].pc # "writing", UNCHANGED <<file, base, torn, overlap>> PROVE FileInv'
  <2>1. OnlyMoves(c) /\ conn'[c] = Idle
    BY <1>1 DEF OnlyMoves, Respond, Threads
  <2> QED
    BY <1>1, <2>1, SaneIdle, StepsAside
<1>2. ASSUME NEW pc \in {"route", "authed"}, NEW cfg, NEW at, OnlyMoves(c),
             IsThread(conn'[c], pc, conn[c].req, cfg, conn[c].text, at),
             conn[c].pc # "writing", UNCHANGED <<file, base, torn, overlap>>
      PROVE  FileInv'
  <2>1. Sane(conn'[c]) /\ ~Busy(conn'[c])
    BY <1>0, <1>2 DEF Sane, Busy, IsThread
  <2> QED
    BY <1>2, <2>1, StepsAside
<1>3. CASE Load(c)
  <2>1. OnlyMoves(c) /\ IsThread(conn'[c], "route", conn[c].req, Loaded, conn[c].text, conn[c].at)
    BY <1>3, Moves DEF Load
  <2>2. conn[c].pc # "writing" /\ UNCHANGED <<file, base, torn, overlap>>
    BY <1>3 DEF Load, quiet
  <2> QED
    BY <1>2, <2>1, <2>2
<1>4. CASE Authorized(c)
  <2>1. OnlyMoves(c) /\ IsThread(conn'[c], "authed", conn[c].req, conn[c].cfg, conn[c].text, now)
    BY <1>4, Moves DEF Authorized
  <2>2. conn[c].pc # "writing" /\ UNCHANGED <<file, base, torn, overlap>>
    BY <1>4 DEF Authorized, Private, quiet
  <2> QED
    BY <1>2, <2>1, <2>2
<1>5. CASE Page(c) \/ Unauthorized(c) \/ Harmless(c) \/ SaveOpenFails(c)
  BY <1>1, <1>5 DEF Page, Unauthorized, Private, Harmless, SaveOpenFails, quiet
<1>6. CASE Login(c) \/ Reboot(c)
  BY <1>1, <1>6 DEF Login, Reboot
<1>7. CASE SaveRead(c) \/ SaveOpen(c) \/ SaveWrite(c) \/ SaveWriteFails(c)
  BY <1>7, SaveReadKeeps, SaveOpenKeeps, SaveWriteKeeps
<1> QED
  BY <1>3, <1>4, <1>5, <1>6, <1>7 DEF Step

LEMMA NextKeepsFile == FileInv /\ IInv /\ [Next]_vars => FileInv'
<1> SUFFICES ASSUME FileInv, Threads, [Next]_vars PROVE FileInv'
  BY DEF IInv
<1>1. CASE Tick \/ UNCHANGED vars
  <2>1. UNCHANGED <<file, conn, base, torn, overlap>>
    BY <1>1 DEF Tick, vars
  <2>2. Text' = Text /\ (AtRest' <=> AtRest)
    BY <2>1 DEF Text, AtRest
  <2> QED
    BY <2>1, <2>2 DEF FileInv, Texts, Solo, Fresh, SavesKeep
<1>2. CASE Crash
  BY <1>2, CrashKeepsFile
<1>3. ASSUME NEW c \in Conn, Request(c) PROVE FileInv'
  BY <1>3, RequestKeepsFile
<1>4. ASSUME NEW c \in Conn, Step(c) PROVE FileInv'
  BY <1>4, StepKeepsFile
<1> QED
  BY <1>1, <1>2, <1>3, <1>4 DEF Next

LEMMA FileInvariance == Spec => []FileInv
<1>1. Init => FileInv
  BY FileInit
<1>2. FileInv /\ IInv /\ [Next]_vars => FileInv'
  BY NextKeepsFile
<1> QED
  BY <1>1, <1>2, Invariance, PTL DEF Spec

-----------------------------------------------------------------------------
(* The passwords.  A configuration loaded while no save was at work and    *)
(* none had been spoilt is the one of the start, as far as passwords go:   *)
(* the form has no field for them.                                         *)

Honest(cfg) == cfg.clean => cfg.password = Admin(base).password /\ cfg.sha256 = Admin(base).sha256

Proper(l) == AuthRequired(Admin(base)) /\ l.clean => VerifyPassword(Admin(base), l.password)

LoginInv == (\A c \in Conn : Honest(conn[c].cfg)) /\ \A l \in logins : Proper(l)

LEMMA HonestIdle == Honest(Idle.cfg)
BY DEF Idle, NoCfg, Honest

LEMMA HonestLoad ==
    ASSUME FileInv
    PROVE  Honest(Loaded)
<1> SUFFICES ASSUME Loaded.clean PROVE Loaded.password = Admin(base).password /\ Loaded.sha256 = Admin(base).sha256
  BY DEF Honest
<1>1. AtRest /\ ~torn /\ ~overlap
  BY DEF Loaded
<1>2. Admin(Text) = Admin(base)
  BY <1>1 DEF FileInv, SavesKeep, Keeps
<1> QED
  BY <1>2 DEF Loaded

LEMMA HonestPassword ==
    ASSUME NEW cfg, Honest(cfg), cfg.clean, NEW pw
    PROVE  /\ AuthRequired(cfg) <=> AuthRequired(Admin(base))
           /\ VerifyPassword(cfg, pw) <=> VerifyPassword(Admin(base), pw)
BY DEF Honest, AuthRequired, VerifyPassword

\* One thread moves, to a configuration as good as the one it had.
LEMMA LoginsStay ==
    ASSUME LoginInv, NEW c \in Conn, OnlyMoves(c), base' = base, logins' = logins, Honest(conn'[c].cfg)
    PROVE  LoginInv'
<1>1. ASSUME NEW d \in Conn PROVE Honest(conn'[d].cfg)
  BY DEF LoginInv, OnlyMoves
<1> QED
  BY <1>1 DEF LoginInv, Honest, Proper

LEMMA LoginKeepsLogins ==
    ASSUME LoginInv, Threads, NEW c \in Conn, Login(c)
    PROVE  LoginInv'
<1> DEFINE cfg == conn[c].cfg
           pw == conn[c].req.password
<1>1. OnlyMoves(c) /\ conn'[c] = Idle /\ base' = base
  BY DEF Login, Respond, OnlyMoves, Threads
<1>2. Honest(cfg)
  BY DEF LoginInv
<1>3. CASE logins' = logins
  BY <1>1, <1>3, HonestIdle, LoginsStay
<1>4. CASE ~AuthRequired(cfg) \/ VerifyPassword(cfg, pw)
  <2>0. CASE UNCHANGED <<sessions, logins>>
    BY <2>0, <1>3
  <2>1. ASSUME NEW token, logins' = logins \cup {[token |-> token, at |-> now, password |-> pw, clean |-> cfg.clean]}
        PROVE  LoginInv'
    <3> DEFINE login == [token |-> token, at |-> now, password |-> pw, clean |-> cfg.clean]
    <3>1. login.password = pw /\ login.clean = cfg.clean /\ logins' = logins \cup {login}
      BY <2>1
    <3> HIDE DEF login
    <3>2. Proper(login)
      BY <1>2, <1>4, <3>1, HonestPassword DEF Proper
    <3>3. \A d \in Conn : Honest(conn'[d].cfg)
      BY <1>1, HonestIdle DEF LoginInv, OnlyMoves
    <3>4. \A l \in logins' : Proper(l)
      BY <3>1, <3>2 DEF LoginInv
    <3> QED
      BY <1>1, <3>3, <3>4 DEF LoginInv, Honest, Proper
  <2> QED
    BY <2>0, <2>1 DEF Login
<1> QED
  BY <1>3, <1>4 DEF Login

LEMMA NextKeepsLogins == LoginInv /\ FileInv /\ IInv /\ [Next]_vars => LoginInv'
<1> SUFFICES ASSUME LoginInv, FileInv, Threads, [Next]_vars PROVE LoginInv'
  BY DEF IInv
<1>0. \A c \in Conn : Honest(conn[c].cfg)
  BY DEF LoginInv
<1>1. CASE Tick \/ UNCHANGED vars
  BY <1>1 DEF Tick, vars, LoginInv, Honest, Proper
<1>2. CASE Crash
  <2>1. UNCHANGED <<base, logins>> /\ \A c \in Conn : conn'[c] = Idle
    BY <1>2 DEF Crash
  <2> QED
    BY <2>1, HonestIdle DEF LoginInv, Honest, Proper
<1>3. ASSUME NEW c \in Conn, Request(c) PROVE LoginInv'
  <2>1. ASSUME NEW kind, NEW token, NEW csrf, NEW pw, NEW form, Accept(c, kind, token, csrf, pw, form)
        PROVE  LoginInv'
    <3> DEFINE r == [kind |-> kind, token |-> token, csrf |-> csrf, password |-> pw, form |-> form]
               t == [Idle EXCEPT !.pc = "load", !.req = r]
    <3>1. OnlyMoves(c) /\ conn'[c] = t /\ base' = base /\ logins' = logins
      BY <2>1 DEF Accept, OnlyMoves, Threads
    <3> HIDE DEF r
    <3>2. t.cfg = Idle.cfg
      <4>1. Idle = [x \in Parts |-> Idle[x]]
        BY DEF Idle, Parts
      <4>2. IsThread([Idle EXCEPT !.pc = "load", !.req = r], "load", r, Idle.cfg, Idle.text, Idle.at)
        BY <4>1, Fields
      <4> QED
        BY <4>2 DEF IsThread
    <3> HIDE DEF t
    <3> QED
      BY <3>1, <3>2, HonestIdle, LoginsStay
  <2> QED
    BY <1>3, <2>1 DEF Request
<1>4. ASSUME NEW c \in Conn, Step(c) PROVE LoginInv'
  <2>1. ASSUME Respond(c), base' = base, logins' = logins PROVE LoginInv'
    <3>1. OnlyMoves(c) /\ conn'[c] = Idle
      BY <2>1 DEF Respond, OnlyMoves, Threads
    <3> QED
      BY <2>1, <3>1, HonestIdle, LoginsStay
  <2>2. ASSUME NEW pc, NEW text, NEW at, OnlyMoves(c),
               IsThread(conn'[c], pc, conn[c].req, conn[c].cfg, text, at), base' = base, logins' = logins
        PROVE  LoginInv'
    <3>1. Honest(conn'[c].cfg)
      BY <1>0, <2>2 DEF IsThread
    <3> QED
      BY <2>2, <3>1, LoginsStay
  <2>3. CASE Load(c)
    <3>1. OnlyMoves(c) /\ IsThread(conn'[c], "route", conn[c].req, Loaded, conn[c].text, conn[c].at)
      BY <2>3, Moves DEF Load
    <3>2. base' = base /\ logins' = logins
      BY <2>3 DEF Load, quiet
    <3> QED
      BY <3>1, <3>2, HonestLoad, LoginsStay DEF IsThread
  <2>4. CASE Page(c) \/ Unauthorized(c) \/ Harmless(c) \/ SaveOpenFails(c)
    BY <2>1, <2>4 DEF Page, Unauthorized, Harmless, SaveOpenFails, quiet
  <2>5. CASE Reboot(c) \/ SaveWrite(c) \/ SaveWriteFails(c)
    BY <2>1, <2>5 DEF Reboot, SaveWrite, SaveWriteFails
  <2>6. CASE Login(c)
    BY <2>6, LoginKeepsLogins
  <2>7. CASE Authorized(c)
    <3>1. OnlyMoves(c) /\ IsThread(conn'[c], "authed", conn[c].req, conn[c].cfg, conn[c].text, now)
      BY <2>7, Moves DEF Authorized
    <3> QED
      BY <2>2, <2>7, <3>1 DEF Authorized, quiet
  <2>8. CASE SaveRead(c)
    <3> DEFINE new == ApplySettings(Text, Updates(conn[c].req.form))
    <3>1. conn' = [conn EXCEPT ![c].pc = "write", ![c].text = new] /\ base' = base /\ logins' = logins
      BY <2>8 DEF SaveRead
    <3> HIDE DEF new
    <3>2. OnlyMoves(c) /\ IsThread(conn'[c], "write", conn[c].req, conn[c].cfg, new, conn[c].at)
      BY <3>1, Moves
    <3> QED
      BY <2>2, <3>1, <3>2
  <2>9. CASE SaveOpen(c)
    <3>1. OnlyMoves(c) /\ IsThread(conn'[c], "writing", conn[c].req, conn[c].cfg, conn[c].text, conn[c].at)
      BY <2>9, Moves DEF SaveOpen
    <3> QED
      BY <2>2, <2>9, <3>1 DEF SaveOpen
  <2> QED
    BY <1>4, <2>3, <2>4, <2>5, <2>6, <2>7, <2>8, <2>9 DEF Step
<1> QED
  BY <1>1, <1>2, <1>3, <1>4 DEF Next

LEMMA LoginInvariance == Spec => []LoginInv
<1>1. Init => LoginInv
  BY HonestIdle DEF Init, LoginInv, Proper
<1>2. LoginInv /\ FileInv /\ IInv /\ [Next]_vars => LoginInv'
  BY NextKeepsLogins
<1> QED
  BY <1>1, <1>2, Invariance, FileInvariance, PTL DEF Spec

-----------------------------------------------------------------------------
(* What is proved of the threads.                                          *)

(* The session table and the threads are well formed: one entry for each   *)
(* token, none from the future, also when every token is the all-zero one  *)
(* (Sessions::insert).                                                     *)
THEOREM HttpdTypes == Spec => []TypeOK
<1>1. ASSUME IInv PROVE TypeOK
  <2>1. sessions \subseteq [token : Token, at : 0 .. now]
    BY <1>1 DEF IInv, SessionInv, Table
  <2> QED
    BY <1>1, <2>1 DEF IInv, SessionInv, Clocks, OneEach, Threads, ThreadShape, TypeOK, Places
<1> QED
  BY <1>1, Invariance, PTL

(* For any number of connections, logins, saves and restarts: if the       *)
(* configured file asks for a password, whoever is let through has a token *)
(* given less than SESSION_TTL before the check to somebody who sent that  *)
(* password, and whoever changes something has sent the token twice        *)
(* (is_authed, csrf_ok, login).  The exceptions are what httpd.rs:15-17    *)
(* does not say: a request, or a login, that loaded the file truncated by  *)
(* a save or spoilt by an earlier one.                                     *)
THEOREM HttpdAuthed == Spec => []AuthedByLogin
<1>1. ASSUME IInv, LoginInv PROVE AuthedByLogin
  <2> SUFFICES ASSUME NEW c \in Conn, conn[c].pc = "authed" \/ Changing(c), AuthRequired(Admin(base)),
                      conn[c].cfg.clean \/ AuthRequired(conn[c].cfg)
               PROVE  /\ \E l \in logins : /\ l.token = conn[c].req.token /\ conn[c].at - l.at < SESSION_TTL
                                           /\ l.clean => VerifyPassword(Admin(base), l.password)
                      /\ Changing(c) => conn[c].req.csrf = conn[c].req.token
    BY DEF AuthedByLogin
  <2>1. AuthRequired(conn[c].cfg)
    BY <1>1 DEF LoginInv, Honest, AuthRequired
  <2>2. /\ \E l \in logins : l.token = conn[c].req.token /\ conn[c].at - l.at < SESSION_TTL
        /\ Changing(c) => conn[c].req.csrf = conn[c].req.token
    BY <1>1, <2>1 DEF IInv, AuthInv, LetThrough, Changing
  <2>3. \A l \in logins : l.clean => VerifyPassword(Admin(base), l.password)
    BY <1>1 DEF LoginInv, Proper
  <2> QED
    BY <2>2, <2>3
<1> QED
  BY <1>1, Invariance, LoginInvariance, PTL

(* However many logins there are, the table never holds two sessions that  *)
(* are SESSION_TTL apart (Sessions::gc).                                   *)
THEOREM HttpdSessions == Spec => []SessionsBounded
<1>1. ASSUME IInv PROVE SessionsBounded
  BY <1>1 DEF IInv, SessionInv
<1> QED
  BY <1>1, Invariance, PTL

-----------------------------------------------------------------------------
(* What is proved of the file.                                             *)

(* Whatever the file and the form are: what a save is about to write gives *)
(* the posted values, and every line it does not replace as it stands in   *)
(* the file, as long as the file is plain and no two saves overlap         *)
(* (save_settings, apply_settings).  Of a replaced line nothing is said:   *)
(* it loses the comment behind its value.                                  *)
THEOREM HttpdSaves == Spec => []SaveMerges
<1>1. ASSUME FileInv PROVE SaveMerges
  <2> SUFFICES ASSUME NEW c \in Conn, conn[c].pc = "write", Plain(Text), ~overlap
               PROVE  Merges(Text, conn[c].text, Updates(conn[c].req.form))
    BY DEF SaveMerges
  <2>1. conn[c].text = ApplySettings(Text, Updates(conn[c].req.form))
    BY <1>1 DEF FileInv, Fresh
  <2>2. Text \in Seq(Line) /\ Sane(conn[c])
    BY <1>1, TextTyped DEF FileInv, Texts
  <2>3. WellFormed(Updates(conn[c].req.form))
    BY <2>2, FormUpdates
  <2>4. Merges(Text, ApplySettings(Text, Updates(conn[c].req.form)), Updates(conn[c].req.form))
    BY <2>2, <2>3, ApplyMerges
  <2> QED
    BY <2>1, <2>4
<1> QED
  BY <1>1, FileInvariance, PTL

(* Over any number of saves and restarts: all lines of a plain file but    *)
(* those of the keys the form manages stay as they are and in their order  *)
(* while saves do not overlap, no write fails and httpd does not die in    *)
(* one (save_settings).                                                    *)
THEOREM HttpdUnmanaged == Spec => []UnmanagedKept
<1>1. ASSUME FileInv PROVE UnmanagedKept
  <2> SUFFICES ASSUME Plain(base), AtRest, ~torn, ~overlap PROVE Unmanaged
    BY DEF UnmanagedKept
  <2>1. Keeps(Text, base)
    BY <1>1 DEF FileInv, SavesKeep
  <2>2. ASSUME NEW k \in (Keys(base) \cup Keys(Text)) \ FormKeys
        PROVE  Get(Text, k.sec, k.key) = Get(base, k.sec, k.key)
    <3>1. k = [sec |-> k.sec, key |-> k.key]
      BY DEF Keys
    <3> QED
      BY <2>1, <3>1 DEF Keeps
  <2> QED
    BY <2>1, <2>2 DEF Unmanaged, Keeps
<1> QED
  BY <1>1, FileInvariance, PTL

=============================================================================
