------------------------------- MODULE Httpd --------------------------------
(***************************************************************************)
(* The admin web UI of src/src/httpd.rs: one thread per connection, the    *)
(* session table they share under a mutex, and the configuration file they *)
(* share without one.                                                      *)
(*                                                                         *)
(* Every request loads the file anew.  A save reads it, changes the text   *)
(* and writes it back with fs::write, which truncates first: between any   *)
(* two of these steps another thread can run, the process can die, and the *)
(* write can fail.                                                         *)
(***************************************************************************)
EXTENDS ConfigFile

CONSTANTS
    Conn,          \* connections served at the same time, one thread each
    Files,         \* texts the configuration file may have at the start
    DEFAULT,       \* config::DEFAULT, used when the file cannot be read
    Password,      \* passwords a client may send
    Forms,         \* settings forms: sets of [name, val]
    SESSION_TTL,   \* lifetime of a session
    MaxTime,       \* bound on the clock
    MaxRequests,   \* bound on the requests of a behaviour
    MaxCrashes     \* bound on the restarts of httpd

NoToken   == -1
ZeroToken == 0           \* what new_token gives when /dev/urandom cannot be read
Token     == 0 .. MaxRequests
Absent    == <<[t |-> "absent"]>>   \* the file does not exist

ASSUME HttpdAssumption ==
    /\ SESSION_TTL \in Nat \ {0} /\ {MaxTime, MaxRequests, MaxCrashes} \subseteq Nat
    /\ Files \subseteq Seq(Line) /\ DEFAULT \in Seq(Line)
    /\ Forms \subseteq SUBSET [name : Word, val : [text : Word, tail : BOOLEAN]]

VARIABLES
    now,       \* the clock
    sessions,  \* Sessions: set of [token, at]
    file,      \* the text on disk
    conn,      \* the threads' local state
    term,      \* SIGTERM was sent to PID 1
    count,     \* requests so far; numbers the tokens too
    crashes,
    base,      \* history: the text at the start
    logins,    \* history: every token handed out, [token, at, password, clean]
    torn,      \* history: a write failed, or httpd died in one
    overlap    \* history: a save read the file while another was between its read and its write

vars == <<now, sessions, file, conn, term, count, crashes, base, logins, torn, overlap>>
quiet == <<now, sessions, file, term, count, crashes, base, logins, torn, overlap>>

NoReq == [kind |-> "none", token |-> NoToken, csrf |-> NoToken, password |-> "", form |-> {}]
NoCfg == [password |-> NoValue, sha256 |-> NoValue, clean |-> FALSE]
Idle  == [pc |-> "idle", req |-> NoReq, cfg |-> NoCfg, text |-> <<>>, at |-> 0]

Init ==
    /\ now = 0 /\ sessions = {} /\ term = FALSE /\ count = 0 /\ crashes = 0
    /\ file \in Files \cup {Absent}
    /\ base = IF file = Absent THEN DEFAULT ELSE file
    /\ conn = [c \in Conn |-> Idle]
    /\ logins = {} /\ torn = FALSE /\ overlap = FALSE

-----------------------------------------------------------------------------
(* Sessions.                                                               *)

\* Mutant: a session does not age.
YoungAlways(t) == TRUE

Young(t) == now - t < SESSION_TTL

\* Mutant: the time of expiry is stored, not the time of issue.
InsertExpiry(token) ==
    {s \in sessions : Young(s.at) /\ s.token # token} \cup {[token |-> token, at |-> now + SESSION_TTL]}

\* Mutant: old sessions are not collected.
InsertNoGc(token) == {s \in sessions : s.token # token} \cup {[token |-> token, at |-> now]}

\* gc, then insert; a token that is there already gets a new time.
Insert(token) == {s \in sessions : Young(s.at) /\ s.token # token} \cup {[token |-> token, at |-> now]}

Valid(token) == \E s \in sessions : s.token = token /\ Young(s.at)

-----------------------------------------------------------------------------
(* Configuration.                                                          *)

\* fs::read_to_string or the built-in text.
Text == IF file = Absent THEN DEFAULT ELSE file

\* What the handlers look at in a configuration.
Admin(text) == [password |-> Get(text, "admin", "password"), sha256 |-> Get(text, "admin", "password_sha256")]

AtRest == \A c \in Conn : conn[c].pc # "writing"

\* Config::load.  History: it was clean when no save had the file truncated and
\* none had spoilt it before.
Loaded ==
    [password |-> Admin(Text).password, sha256 |-> Admin(Text).sha256, clean |-> AtRest /\ ~torn /\ ~overlap]

AuthRequired(cfg) == cfg.password # NoValue \/ cfg.sha256 # NoValue

\* The digest is external: a stored hash is modelled by the password it is of.
VerifyPassword(cfg, supplied) ==
    IF cfg.sha256 # NoValue THEN cfg.sha256 = supplied ELSE cfg.password = supplied

IsAuthed(r, cfg) == AuthRequired(cfg) => r.token # NoToken /\ Valid(r.token)
CsrfOk(r, cfg)   == AuthRequired(cfg) => r.token # NoToken /\ r.csrf = r.token

\* The fields of the form and the keys they set, in the order of save_settings.
Managed == << [name |-> "hostname",     sec |-> "system", key |-> "hostname"],
              [name |-> "lan_ipaddr",   sec |-> "lan",    key |-> "ipaddr"],
              [name |-> "wifi_ssid",    sec |-> "wifi",   key |-> "ssid"],
              [name |-> "wifi_key",     sec |-> "wifi",   key |-> "key"],
              [name |-> "wan_proto",    sec |-> "wan",    key |-> "proto"],
              [name |-> "dhcp_enabled", sec |-> "dhcp",   key |-> "enabled"] >>

ASSUME WordAssumption ==
    {"", "0", "1"} \subseteq Word /\ \A n \in 1 .. Len(Managed) : Managed[n].sec \in Word /\ Managed[n].key \in Word

Field(form, name) ==
    IF \E f \in form : f.name = name THEN (CHOOSE f \in form : f.name = name).val ELSE NotSent

\* A checkbox: present means enabled.
Checked(form, name) ==
    [text |-> IF \E f \in form : f.name = name THEN "1" ELSE "0", tail |-> FALSE]

Updates(form) ==
    [n \in 1 .. Len(Managed) |->
        LET f == Managed[n] IN
        [sec |-> f.sec, key |-> f.key,
         val |-> IF f.name = "dhcp_enabled" THEN Checked(form, f.name) ELSE Field(form, f.name)]]

-----------------------------------------------------------------------------
(* The threads.                                                            *)

\* The response is sent (errors are ignored) and the connection closed.
Respond(c) == conn' = [conn EXCEPT ![c] = Idle]

\* A request was read; one that breaks off is dropped with its connection.
Accept(c, kind, token, csrf, pw, form) ==
    /\ conn[c].pc = "idle" /\ count < MaxRequests
    /\ conn' = [conn EXCEPT ![c] = [Idle EXCEPT !.pc = "load", !.req =
           [kind |-> kind, token |-> token, csrf |-> csrf, password |-> pw, form |-> form]]]
    /\ count' = count + 1
    /\ UNCHANGED <<now, sessions, file, term, crashes, base, logins, torn, overlap>>

\* handle: Config::load(), before the request is looked at.
Load(c) ==
    /\ conn[c].pc = "load"
    /\ conn' = [conn EXCEPT ![c].pc = "route", ![c].cfg = Loaded]
    /\ UNCHANGED quiet

\* The page itself is public, and so is login.
Page(c) ==
    /\ conn[c].pc = "route" /\ conn[c].req.kind = "page"
    /\ Respond(c)
    /\ UNCHANGED quiet

\* A new token is fresh, or all zeros when there is no randomness.
Login(c) ==
    LET r == conn[c].req  cfg == conn[c].cfg IN
    /\ conn[c].pc = "route" /\ r.kind = "login"
    /\ \/ /\ ~AuthRequired(cfg) \/ VerifyPassword(cfg, r.password)
          /\ \E token \in {ZeroToken, count} :
               /\ sessions' = Insert(token)
               /\ logins' = logins \cup {[token |-> token, at |-> now, password |-> r.password, clean |-> cfg.clean]}
       \/ /\ AuthRequired(cfg) /\ ~VerifyPassword(cfg, r.password)
          /\ UNCHANGED <<sessions, logins>>
    /\ Respond(c)
    /\ UNCHANGED <<now, file, term, count, crashes, base, torn, overlap>>

\* "Everything below needs a valid session when auth is configured."
Private(c) == conn[c].pc = "route" /\ conn[c].req.kind \notin {"page", "login"}

Unauthorized(c) ==
    /\ Private(c) /\ ~IsAuthed(conn[c].req, conn[c].cfg)
    /\ Respond(c)
    /\ UNCHANGED quiet

Authorized(c) ==
    /\ Private(c) /\ IsAuthed(conn[c].req, conn[c].cfg)
    /\ conn' = [conn EXCEPT ![c].pc = "authed", ![c].at = now]
    /\ UNCHANGED quiet

\* The three fragments, a path there is not (both "fragment"), and a change
\* without its token.
Harmless(c) ==
    /\ conn[c].pc = "authed"
    /\ conn[c].req.kind \in {"save", "reboot"} => ~CsrfOk(conn[c].req, conn[c].cfg)
    /\ Respond(c)
    /\ UNCHANGED quiet

Reboot(c) ==
    /\ conn[c].pc = "authed" /\ conn[c].req.kind = "reboot" /\ CsrfOk(conn[c].req, conn[c].cfg)
    /\ term' = TRUE
    /\ Respond(c)
    /\ UNCHANGED <<now, sessions, file, count, crashes, base, logins, torn, overlap>>

SaveAllowed(c) == conn[c].pc = "authed" /\ conn[c].req.kind = "save" /\ CsrfOk(conn[c].req, conn[c].cfg)

\* save_settings: the old text is read and the new one computed.
SaveRead(c) ==
    /\ SaveAllowed(c)
    /\ conn' = [conn EXCEPT ![c].pc = "write",
                            ![c].text = ApplySettings(Text, Updates(conn[c].req.form))]
    /\ overlap' = (overlap \/ \E d \in Conn : conn[d].pc \in {"write", "writing"})
    /\ UNCHANGED <<now, sessions, file, term, count, crashes, base, logins, torn>>

\* fs::write: the open truncates.
SaveOpen(c) ==
    /\ conn[c].pc = "write"
    /\ file' = <<>>
    /\ conn' = [conn EXCEPT ![c].pc = "writing"]
    /\ UNCHANGED <<now, sessions, term, count, crashes, base, logins, torn, overlap>>

SaveOpenFails(c) ==
    /\ conn[c].pc = "write"
    /\ Respond(c)
    /\ UNCHANGED quiet

\* Bytes go to the start of the file: what another thread wrote beyond them stays.
Overlay(text) == text \o SubSeq(file, Len(text) + 1, Len(file))

SaveWrite(c) ==
    /\ conn[c].pc = "writing"
    /\ file' = Overlay(conn[c].text)
    /\ Respond(c)
    /\ UNCHANGED <<now, sessions, term, count, crashes, base, logins, torn, overlap>>

\* The disk is full: a part is written, possibly nothing.
SaveWriteFails(c) ==
    /\ conn[c].pc = "writing"
    /\ \E n \in 0 .. Len(conn[c].text) - 1 : file' = Overlay(SubSeq(conn[c].text, 1, n))
    /\ torn' = TRUE
    /\ Respond(c)
    /\ UNCHANGED <<now, sessions, term, count, crashes, base, logins, overlap>>

Tick ==
    /\ now < MaxTime
    /\ now' = now + 1
    /\ UNCHANGED <<sessions, file, conn, term, count, crashes, base, logins, torn, overlap>>

\* httpd dies, or the power fails; sessions are in memory only.
Crash ==
    /\ crashes < MaxCrashes
    /\ crashes' = crashes + 1
    /\ sessions' = {} /\ conn' = [c \in Conn |-> Idle]
    /\ torn' = (torn \/ \E c \in Conn : conn[c].pc = "writing")
    /\ UNCHANGED <<now, file, term, count, base, logins, overlap>>

\* Clients know the tokens handed out and the all-zero one.
Known == {l.token : l \in logins} \cup {NoToken, ZeroToken}

Request(c) ==
    \/ Accept(c, "page", NoToken, NoToken, "", {})
    \/ \E pw \in Password : Accept(c, "login", NoToken, NoToken, pw, {})
    \/ \E token \in Known :
         \/ Accept(c, "fragment", token, NoToken, "", {})
         \/ \E csrf \in {token, NoToken} :
              \/ Accept(c, "reboot", token, csrf, "", {})
              \/ \E form \in Forms : Accept(c, "save", token, csrf, "", form)

Step(c) ==
    \/ Load(c) \/ Page(c) \/ Login(c) \/ Unauthorized(c) \/ Authorized(c) \/ Harmless(c) \/ Reboot(c)
    \/ SaveRead(c) \/ SaveOpen(c) \/ SaveOpenFails(c) \/ SaveWrite(c) \/ SaveWriteFails(c)

Next == Tick \/ Crash \/ \E c \in Conn : Request(c) \/ Step(c)

Spec == Init /\ [][Next]_vars

-----------------------------------------------------------------------------
(* Properties.                                                             *)

(* The threads and the session table are well formed; in particular the    *)
(* table has one entry per token and none from the future, although every  *)
(* token may be the all-zero one.                                          *)
TypeOK ==
    /\ now \in 0 .. MaxTime /\ count \in 0 .. MaxRequests
    /\ sessions \subseteq [token : Token, at : 0 .. now]
    /\ \A s, t \in sessions : s.token = t.token => s = t
    /\ \A c \in Conn :
         /\ conn[c].pc \in {"idle", "load", "route", "authed", "write", "writing"}
         /\ conn[c].req.token \in Token \cup {NoToken} /\ conn[c].at \in 0 .. now

Changing(c) == conn[c].pc \in {"write", "writing"}

(* If the configured file asks for a password, whoever is let through came *)
(* with a token handed out less than SESSION_TTL before the check to       *)
(* somebody who sent that password; whoever changes something brought it   *)
(* as CSRF token too (is_authed, csrf_ok, login, Sessions::valid).  The    *)
(* exceptions are what httpd.rs:15-17 does not say: a request or a login   *)
(* whose load found the file truncated by a save, or spoilt by an earlier  *)
(* one, and no password in it.                                             *)
AuthedByLogin ==
    \A c \in Conn :
        /\ conn[c].pc = "authed" \/ Changing(c)
        /\ AuthRequired(Admin(base)) /\ (conn[c].cfg.clean \/ AuthRequired(conn[c].cfg))
        => /\ \E l \in logins : /\ l.token = conn[c].req.token /\ conn[c].at - l.at < SESSION_TTL
                                /\ l.clean => VerifyPassword(Admin(base), l.password)
           /\ Changing(c) => conn[c].req.csrf = conn[c].req.token

(* Expired sessions are collected only by the next login, so the table may *)
(* hold them; but never more than the logins of one SESSION_TTL            *)
(* (Sessions::gc, Sessions::insert).                                       *)
SessionsBounded ==
    \A s, t \in sessions : s.at - t.at < SESSION_TTL

Slot(u)       == [sec |-> u.sec, key |-> u.key]
Keys(lines)   == {[sec |-> SectionAt(lines, i), key |-> lines[i].name] :
                    i \in {j \in DOMAIN lines : lines[j].t = "kv"}}
FormKeys      == {Slot(Managed[n]) : n \in 1 .. Len(Managed)}

\* The lines of a text, as they stand and in their order, but for those that
\* set one of these keys.
Kept(lines, slots) ==
    LET kept[n \in 0 .. Len(lines)] ==
            IF n = 0 THEN <<>>
            ELSE IF lines[n].t = "kv" /\ [sec |-> SectionAt(lines, n), key |-> lines[n].name] \in slots THEN kept[n - 1]
            ELSE Append(kept[n - 1], lines[n])
    IN kept[Len(lines)]

\* The keys that are really changed: those of a line that is replaced or added.
Changed(updates) == {Slot(updates[n]) : n \in Retained(updates)}

\* `new` is `old` with the updates: read back by Config::parse it gives their
\* values and every other key as before, and no other line is touched or moved.
Merges(old, new, updates) ==
    /\ \A n \in Retained(updates) : Get(new, updates[n].sec, updates[n].key) = updates[n].val.text
    /\ \A k \in (Keys(new) \cup Keys(old)) \ Changed(updates) : Get(new, k.sec, k.key) = Get(old, k.sec, k.key)
    /\ IsPrefix(Kept(old, Changed(updates)), Kept(new, Changed(updates)))
    /\ Plain(new)

(* What apply_settings is for: read back by Config::parse, the new text    *)
(* gives the posted values (up to a `#`), a blank secret and every other   *)
(* key as in the file, and every line that is not replaced stays as it     *)
(* is, comments on lines of their own and comments behind other values     *)
(* included.  A replaced line loses the comment behind its value, which    *)
(* httpd.rs:281-282 does not say.  It holds for files without a comment    *)
(* behind a header and without repetitions, if no two saves overlap.       *)
SaveMerges ==
    \A c \in Conn : conn[c].pc = "write" /\ Plain(Text) /\ ~overlap =>
        Merges(Text, conn[c].text, Updates(conn[c].req.form))

Unmanaged ==
    /\ \A k \in (Keys(base) \cup Keys(Text)) \ FormKeys : Get(Text, k.sec, k.key) = Get(base, k.sec, k.key)
    /\ IsPrefix(Kept(base, FormKeys), Kept(Text, FormKeys))

(* Over any number of saves and restarts of httpd, all lines but those of  *)
(* the keys the form manages (headers, blank lines, comments, other keys   *)
(* and the comments behind them) survive as they are and in their order,   *)
(* unless two saves overlap, a write fails or httpd dies in one            *)
(* (save_settings, apply_settings).                                        *)
UnmanagedKept == Plain(base) /\ AtRest /\ ~torn /\ ~overlap => Unmanaged

=============================================================================
