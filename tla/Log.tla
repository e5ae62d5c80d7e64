-------------------------------- MODULE Log ---------------------------------
(***************************************************************************)
(* The system log of src/src/log.rs: the daemon, which takes datagrams and *)
(* kernel records; `log <text>`, which appends by itself while no daemon   *)
(* is bound to the socket; and `log read`.                                 *)
(*                                                                         *)
(* They share two names, FILE and OLD, and no lock: append looks at the    *)
(* size, renames, opens and writes in four steps.  A line is the number of *)
(* its write; `content` is indexed by file (inode), as a writer keeps the  *)
(* file it has opened when another renames it.                             *)
(***************************************************************************)
EXTENDS Integers, Sequences, FiniteSets

CONSTANTS
    Daemon,      \* the daemon
    Loggers,     \* the processes of `log <text>`
    MAX,         \* lines after which FILE is rotated
    QueueCap,    \* datagrams the socket holds
    MaxLines,    \* bound on the lines written
    MaxRecords,  \* bound on the kernel's records
    MaxDeaths    \* bound on the deaths of the daemon

Writer == Loggers \cup {Daemon}
NoFile == 0
File   == 1 .. Cardinality(Writer) + 1   \* OLD, and one for every writer

ASSUME LogAssumption ==
    /\ Daemon \notin Loggers /\ IsFiniteSet(Loggers)
    /\ MAX \in Nat \ {0} /\ {QueueCap, MaxLines, MaxRecords, MaxDeaths} \subseteq Nat

VARIABLES
    cur, old,     \* the files named FILE and OLD
    content,      \* file -> its lines
    lines,        \* lines written so far
    pc,           \* of every writer
    handle,       \* the file a writer has opened
    up, queued,   \* a daemon is bound to SOCK; datagrams in it
    ring, kpos,   \* kernel records, and how far the daemon has read
    kready,       \* poll reported /dev/kmsg readable
    rpc, out,     \* the reader and what it has read
    deaths,
    overlap,      \* history: two writers were in append together
    failed,       \* history: a rename failed
    rotated       \* history: FILE was renamed since the reader started

files  == <<cur, old, content, lines>>
daemon == <<up, queued, kpos, kready, deaths>>
reader == <<rpc, out>>
hist   == <<overlap, failed, rotated>>
vars   == <<files, pc, handle, daemon, ring, reader, hist>>

Appending(w) == pc[w] \in {"stat", "rename", "open", "write"}
Goto(w, l)   == pc' = [pc EXCEPT ![w] = l]
InFile(f)    == IF f = NoFile THEN <<>> ELSE content[f]

Init ==
    /\ cur = NoFile /\ old = NoFile /\ content = [f \in File |-> <<>>] /\ lines = 0
    /\ pc = [w \in Writer |-> IF w = Daemon THEN "down" ELSE "idle"]
    /\ handle = [w \in Writer |-> NoFile]
    /\ up = FALSE /\ queued = 0 /\ kpos = 0 /\ kready = FALSE /\ deaths = 0 /\ ring = 0
    /\ rpc = "idle" /\ out = <<>>
    /\ overlap = FALSE /\ failed = FALSE /\ rotated = FALSE

-----------------------------------------------------------------------------
(* append.                                                                 *)

Begin(w) ==
    /\ Goto(w, "stat")
    /\ overlap' = (overlap \/ \E v \in Writer \ {w} : Appending(v))

\* Where a writer goes on: the daemon drains /dev/kmsg if poll said so.
After(w) == IF w # Daemon THEN "idle" ELSE IF kready THEN "drain" ELSE "poll"

\* Mutant: the file is rotated when it is larger than MAX.
FullLate == Len(InFile(cur)) > MAX

\* Mutant: an empty file is rotated too.
FullAlways == TRUE

Full == Len(InFile(cur)) >= MAX

Stat(w) ==
    /\ pc[w] = "stat"
    /\ Goto(w, IF Full THEN "rename" ELSE "open")
    /\ UNCHANGED <<files, handle, daemon, ring, reader, hist>>

\* rename(FILE, OLD) drops the file that was OLD.  Without FILE it fails.
Rename(w) ==
    /\ pc[w] = "rename"
    /\ IF cur # NoFile THEN old' = cur /\ cur' = NoFile /\ rotated' = TRUE ELSE UNCHANGED <<old, cur, rotated>>
    /\ Goto(w, "open")
    /\ UNCHANGED <<content, lines, handle, daemon, ring, reader, overlap, failed>>

RenameFails(w) ==
    /\ pc[w] = "rename" /\ Goto(w, "open")
    /\ failed' = TRUE
    /\ UNCHANGED <<files, handle, daemon, ring, reader, overlap, rotated>>

NewFile == CHOOSE f \in File \ ({cur, old} \cup {handle[w] : w \in Writer}) : TRUE

Open(w) ==
    /\ pc[w] = "open"
    /\ IF cur = NoFile
       THEN cur' = NewFile /\ content' = [content EXCEPT ![NewFile] = <<>>]
       ELSE UNCHANGED <<cur, content>>
    /\ handle' = [handle EXCEPT ![w] = cur']
    /\ Goto(w, "write")
    /\ UNCHANGED <<old, lines, daemon, ring, reader, hist>>

\* An open or a write that fails loses the line.
AppendFails(w) ==
    /\ pc[w] \in {"open", "write"}
    /\ Goto(w, After(w)) /\ handle' = [handle EXCEPT ![w] = NoFile]
    /\ UNCHANGED <<files, daemon, ring, reader, hist>>

Write(w) ==
    /\ pc[w] = "write" /\ lines < MaxLines
    /\ lines' = lines + 1
    /\ content' = [content EXCEPT ![handle[w]] = Append(@, lines')]
    /\ Goto(w, After(w)) /\ handle' = [handle EXCEPT ![w] = NoFile]
    /\ UNCHANGED <<cur, old, daemon, ring, reader, hist>>

-----------------------------------------------------------------------------
(* logger: the daemon's socket, else append.                               *)

LogSend(l) ==
    /\ pc[l] = "idle" /\ up /\ queued < QueueCap
    /\ queued' = queued + 1
    /\ UNCHANGED <<files, pc, handle, up, kpos, kready, deaths, ring, reader, hist>>

\* Nobody is bound to SOCK, or the datagram is refused (it may be too long).
LogDirect(l) ==
    /\ pc[l] = "idle"
    /\ Begin(l)
    /\ UNCHANGED <<files, handle, daemon, ring, reader, failed, rotated>>

-----------------------------------------------------------------------------
(* daemon.                                                                 *)

\* A fresh socket, and /dev/kmsg from the first record the kernel still has;
\* on a kernel without it, nothing is ever left to read.
DaemonStart ==
    /\ pc[Daemon] = "down"
    /\ up' = TRUE /\ queued' = 0 /\ kpos' \in {0, MaxRecords} /\ kready' = FALSE
    /\ Goto(Daemon, "poll")
    /\ UNCHANGED <<files, handle, deaths, ring, reader, hist>>

\* One datagram, if there is one; an empty one is skipped.
Poll ==
    /\ pc[Daemon] = "poll" /\ (queued > 0 \/ kpos < ring)
    /\ kready' = (kpos < ring)
    /\ IF queued > 0
       THEN queued' = queued - 1 /\ (Begin(Daemon) \/ (Goto(Daemon, "drain") /\ UNCHANGED overlap))
       ELSE Goto(Daemon, "drain") /\ UNCHANGED <<queued, overlap>>
    /\ UNCHANGED <<files, handle, up, kpos, deaths, ring, reader, failed, rotated>>

\* The next kernel record; an empty one is skipped.  A failed read, also the one
\* that finds no record left, ends the loop.
Drain ==
    /\ pc[Daemon] = "drain"
    /\ \/ /\ kready /\ kpos < ring /\ kpos' = kpos + 1
          /\ Begin(Daemon) \/ UNCHANGED <<pc, overlap>>
          /\ UNCHANGED kready
       \/ Goto(Daemon, "poll") /\ kready' = FALSE /\ UNCHANGED <<kpos, overlap>>
    /\ UNCHANGED <<files, handle, up, queued, deaths, ring, reader, failed, rotated>>

\* The daemon is killed, or returns because poll failed; init starts it again.
DaemonDies ==
    /\ pc[Daemon] # "down" /\ deaths < MaxDeaths
    /\ up' = FALSE /\ queued' = 0 /\ deaths' = deaths + 1
    /\ Goto(Daemon, "down") /\ handle' = [handle EXCEPT ![Daemon] = NoFile]
    /\ UNCHANGED <<files, kpos, kready, ring, reader, hist>>

KernelLogs ==
    /\ ring < MaxRecords /\ ring' = ring + 1
    /\ UNCHANGED <<files, pc, handle, daemon, reader, hist>>

-----------------------------------------------------------------------------
(* read: OLD, then FILE.                                                   *)

\* Mutant: the first file printed is FILE.
ReadOldAsFile ==
    /\ rpc = "idle"
    /\ rpc' = "half" /\ out' = InFile(cur) /\ rotated' = FALSE
    /\ UNCHANGED <<files, pc, handle, daemon, ring, overlap, failed>>

ReadOld ==
    /\ rpc = "idle"
    /\ rpc' = "half" /\ out' = InFile(old) /\ rotated' = FALSE
    /\ UNCHANGED <<files, pc, handle, daemon, ring, overlap, failed>>

ReadFile ==
    /\ rpc = "half"
    /\ rpc' = "done" /\ out' = out \o InFile(cur)
    /\ UNCHANGED <<files, pc, handle, daemon, ring, hist>>

ReadEnds ==
    /\ rpc = "done"
    /\ rpc' = "idle" /\ out' = <<>>
    /\ UNCHANGED <<files, pc, handle, daemon, ring, hist>>

AppendStep(w) == Stat(w) \/ Rename(w) \/ RenameFails(w) \/ Open(w) \/ AppendFails(w) \/ Write(w)

Next ==
    \/ \E w \in Writer : AppendStep(w)
    \/ \E l \in Loggers : LogSend(l) \/ LogDirect(l)
    \/ DaemonStart \/ Poll \/ Drain \/ DaemonDies \/ KernelLogs
    \/ ReadOld \/ ReadFile \/ ReadEnds

Spec == Init /\ [][Next]_vars

-----------------------------------------------------------------------------
(* Properties.                                                             *)

Contiguous(s) == \A i \in 1 .. Len(s) - 1 : s[i + 1] = s[i] + 1
Rising(s)     == \A i \in 1 .. Len(s) - 1 : s[i] < s[i + 1]

(* The log is "size-capped": however writers race between the look at the  *)
(* size and the write, a file exceeds MAX by less than one line for each   *)
(* of them, as long as the rename works (append).                          *)
SizeCapped ==
    ~failed => \A f \in {cur, old} : Len(InFile(f)) <= MAX + Cardinality(Writer) - 1

(* While appends do not overlap, OLD and FILE together hold the last lines *)
(* written, without a gap, and at least MAX of them: one rotation never    *)
(* loses recent lines, also when the daemon dies between rename and open   *)
(* (append).                                                               *)
KeepsRecent ==
    ~overlap =>
        LET all == InFile(old) \o InFile(cur) IN
        /\ Contiguous(all)
        /\ lines > 0 => Len(all) >= 1 /\ all[Len(all)] = lines /\ (all[1] = 1 \/ Len(all) >= MAX)

(* `log read` prints the lines oldest first and none twice, even if FILE   *)
(* is rotated between its two reads; unless it is, none is missing either  *)
(* (read).                                                                 *)
ReadSound ==
    rpc = "done" /\ ~overlap => Rising(out) /\ (~rotated => Contiguous(out))

=============================================================================
