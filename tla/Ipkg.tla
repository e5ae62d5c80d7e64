-------------------------------- MODULE Ipkg --------------------------------
(***************************************************************************)
(* The package manager of src/src/ipkg.rs: the index, the verified         *)
(* download, the extraction file by file, the manifest and the removal.    *)
(* Downloads break off, writes and unlinks fail, the repository publishes  *)
(* new builds, and the process can die (or the power fail) at every step.  *)
(*                                                                         *)
(* A build stands for the bytes of an archive and for its digest (external *)
(* and taken to be injective); every file of it has the build as content.  *)
(*                                                                         *)
(* A member has a name.  It is extracted to the path sanitize makes of the *)
(* name, and removed by handing the name itself to unlink, from whatever   *)
(* directory remove is run in: the two paths need not be the same.         *)
(***************************************************************************)
EXTENDS Integers, Sequences, FiniteSets

CONSTANTS
    Pkg,
    Path,       \* the paths packages install to
    Name,       \* the names of archive members, and what is left of one that is cut
    Dir, Root,  \* directories; / is one of them
    Sanitized,  \* Sanitized[n]: the path a member named n is extracted to
    Resolved,   \* Resolved[n][d]: the path that n names in directory d
    Cuts,       \* Cuts[n]: the names that are beginnings of n
    Build,      \* archives
    Of,         \* Of[b]: the package b is a build of
    Members,    \* Members[b]: the names of its files, in order
    MaxCmds,    \* bound on the commands run
    MaxBuilds   \* bound on the publications

Elsewhere == "elsewhere"   \* a path no package installs to
NoFile  == "nofile"
Partial == "partial"    \* created, and not completely written
NoBuild == "nobuild"
Cut     == "cut"        \* a download that broke off

ASSUME IpkgAssumption ==
    /\ Of \in [Build -> Pkg] /\ {NoFile, Partial, NoBuild, Cut} \cap Build = {}
    /\ Members \in [Build -> Seq(Name)] /\ Root \in Dir /\ Elsewhere \notin Path
    /\ Sanitized \in [Name -> Path] /\ Cuts \in [Name -> SUBSET Name]
    /\ Resolved \in [Name -> [Dir -> Path \cup {Elsewhere}]]
    /\ MaxCmds \in Nat /\ MaxBuilds \in Nat

VARIABLES
    repo,       \* the build of each package on the server
    index,      \* one [st, build] per package; no index is like an empty one
    fs,         \* content of the paths packages install to
    manifest,   \* <name>.list: [has, names, build]; build is history
    pc, pkg, cwd,
    entry,      \* the index entry install works with
    todo,       \* members still to extract or to remove
    done,       \* names extracted so far
    rc, cmds, published,
    listed,     \* history: builds an index has vouched for
    stray,      \* history: paths an incident has left without a manifest
    touched,    \* history: [pkg, path] changed by something else than pkg's last install
    misled      \* history: paths unlinked under a name that was extracted to another path

vars == <<repo, index, fs, manifest, pc, pkg, cwd, entry, todo, done, rc, cmds, published, listed, stray, touched, misled>>
hist == <<listed, stray, touched, misled>>
cmd  == <<pkg, cwd, cmds>>
net  == <<repo, published>>

NoList  == [has |-> FALSE, names |-> <<>>, build |-> NoBuild]
NoEntry == [st |-> "absent", build |-> NoBuild]
Named(list) == {Sanitized[list.names[i]] : i \in DOMAIN list.names}

Init ==
    /\ repo \in {r \in [Pkg -> Build] : \A p \in Pkg : Of[r[p]] = p}
    /\ index = [p \in Pkg |-> NoEntry] /\ fs = [f \in Path |-> NoFile] /\ manifest = [p \in Pkg |-> NoList]
    /\ pc = "idle" /\ pkg \in Pkg /\ cwd = Root /\ entry = NoEntry
    /\ todo = <<>> /\ done = <<>> /\ rc = 0
    /\ cmds = 0 /\ published = 0
    /\ listed = {} /\ stray = {} /\ touched = {} /\ misled = {}

Exit(code) == pc' = "idle" /\ rc' = code /\ todo' = <<>> /\ done' = <<>> /\ entry' = NoEntry

\* A command is typed in some directory (only remove depends on it).
Start(at, p, dir) ==
    /\ pc = "idle" /\ cmds < MaxCmds
    /\ pc' = at /\ pkg' = p /\ cwd' = dir /\ cmds' = cmds + 1
    /\ UNCHANGED <<net, index, fs, manifest, entry, todo, done, rc, hist>>

-----------------------------------------------------------------------------
(* update.                                                                 *)

\* The index as served, and as it looks when the transfer breaks off: stanzas
\* are missing, and the last may lack its SHA256sum.
Served == [p \in Pkg |-> [st |-> "hashed", build |-> repo[p]]]
CutIndex(kept, last) ==
    [p \in Pkg |-> IF p \in kept THEN Served[p]
                  ELSE IF p = last THEN [st |-> "nohash", build |-> repo[p]] ELSE NoEntry]

\* http_get has no length to compare with: a cut body is written like a whole
\* one.  A failed write goes unnoticed and leaves nothing or the old index.
Update ==
    /\ pc = "update"
    /\ \/ index' \in {Served, [p \in Pkg |-> NoEntry], index}
       \/ \E kept \in SUBSET Pkg, last \in Pkg : index' = CutIndex(kept, last)
    /\ Exit(0)
    /\ listed' = listed \cup {index'[p].build : p \in {q \in Pkg : index'[q].st = "hashed"}}
    /\ UNCHANGED <<cmd, net, fs, manifest, stray, touched, misled>>

UpdateFails ==
    /\ pc = "update" /\ Exit(1)
    /\ UNCHANGED <<cmd, net, index, fs, manifest, hist>>

-----------------------------------------------------------------------------
(* install.                                                                *)

ReadIndex ==
    /\ pc = "install"
    /\ IF index[pkg].st = "absent" THEN Exit(1)
       ELSE pc' = "download" /\ entry' = index[pkg] /\ UNCHANGED <<rc, todo, done>>
    /\ UNCHANGED <<cmd, net, index, fs, manifest, hist>>

\* Mutant: without a digest in the index, the archive is taken as it comes.
VerifiedIfHashed(blob) == entry.st = "hashed" => blob = entry.build

\* Size, then digest; without a digest the archive is refused.
Verified(blob) == entry.st = "hashed" /\ blob = entry.build

\* What arrives is the repository's build of the moment, or a part of it.
Download ==
    /\ pc = "download"
    /\ \E blob \in {repo[pkg], Cut} :
         IF Verified(blob)
         THEN /\ pc' = "extract" /\ todo' = (IF blob = Cut THEN <<>> ELSE Members[blob]) /\ done' = <<>>
              /\ entry' = [entry EXCEPT !.build = blob]
              /\ UNCHANGED rc
         ELSE Exit(1)
    /\ UNCHANGED <<cmd, net, index, fs, manifest, hist>>

DownloadFails ==
    /\ pc = "download" /\ Exit(1)
    /\ UNCHANGED <<cmd, net, index, fs, manifest, hist>>

Target   == Sanitized[Head(todo)]
Disturb  == touched \cup {[pkg |-> p, path |-> Target] : p \in {q \in Pkg : q = pkg \/ Target \in Named(manifest[q])}}

\* File::create truncates or creates.
ExtractCreate ==
    /\ pc = "extract" /\ todo # <<>>
    /\ fs' = [fs EXCEPT ![Target] = Partial] /\ pc' = "extracting"
    /\ touched' = Disturb /\ stray' = stray \cup {Target} /\ misled' = misled \ {Target}
    /\ UNCHANGED <<cmd, net, index, manifest, entry, todo, done, rc, listed>>

ExtractWrite ==
    /\ pc = "extracting"
    /\ fs' = [fs EXCEPT ![Target] = entry.build] /\ pc' = "extract"
    /\ todo' = Tail(todo) /\ done' = Append(done, Head(todo))
    /\ UNCHANGED <<cmd, net, index, manifest, entry, rc, hist>>

\* Mutant: an error is ignored and the file counted as written.
ExtractFailsIgnored ==
    /\ pc \in {"extract", "extracting"} /\ todo # <<>>
    /\ pc' = "extract" /\ todo' = Tail(todo) /\ done' = Append(done, Head(todo))
    /\ UNCHANGED <<cmd, net, index, fs, manifest, entry, rc, hist>>

\* An error of create or write ends the extraction; no manifest is written.
ExtractFails ==
    /\ pc \in {"extract", "extracting"} /\ todo # <<>>
    /\ Exit(1)
    /\ UNCHANGED <<cmd, net, index, fs, manifest, hist>>

\* The manifest replaces that of an earlier build.
ListNames(names, whole) ==
    /\ manifest' = [manifest EXCEPT ![pkg] = [has |-> TRUE, names |-> names, build |-> entry.build]]
    /\ stray' = (stray \cup Named(manifest[pkg])) \ Named(manifest'[pkg])
    /\ touched' = {t \in touched : t.pkg # pkg} \cup
                  {[pkg |-> pkg, path |-> Sanitized[names[i]]] : i \in DOMAIN names \ 1 .. whole}

FirstDone(n) == [i \in 1 .. n |-> done[i]]

\* Its write may fail, or be cut short by a crash, and install says "installed" all
\* the same: that leaves the old list, or the first names and a part of the next.
\* (<name>.control is written too; nothing reads it.)
WriteManifest ==
    /\ pc = "extract" /\ todo = <<>>
    /\ \/ ListNames(done, Len(done))
       \/ \E n \in 0 .. Len(done) - 1 :
             \/ ListNames(FirstDone(n), n)
             \/ \E part \in Cuts[done[n + 1]] : ListNames(Append(FirstDone(n), part), n)
       \/ UNCHANGED <<manifest, stray, touched>>
    /\ Exit(0)
    /\ UNCHANGED <<cmd, net, index, fs, listed, misled>>

-----------------------------------------------------------------------------
(* remove.                                                                 *)

ReadManifest ==
    /\ pc = "remove"
    /\ IF manifest[pkg].has THEN pc' = "removing" /\ todo' = manifest[pkg].names /\ UNCHANGED <<rc, done, entry>>
       ELSE Exit(1)
    /\ UNCHANGED <<cmd, net, index, fs, manifest, hist>>

\* The name is unlinked as it is spelt, a relative one from the current directory:
\* that may be another file than the one that was extracted.
Unlinked == Resolved[Head(todo)][cwd]

\* Errors are ignored.
RemoveFile ==
    /\ pc = "removing" /\ todo # <<>>
    /\ \/ /\ Unlinked = Target
          /\ fs' = [fs EXCEPT ![Target] = NoFile]
          /\ touched' = Disturb /\ stray' = stray \ {Target} /\ UNCHANGED misled
       \/ /\ Unlinked \in Path \ {Target}
          /\ fs' = [fs EXCEPT ![Unlinked] = NoFile]
          /\ misled' = misled \cup {Unlinked} /\ stray' = (stray \cup {Target}) \ {Unlinked}
          /\ UNCHANGED touched
       \/ /\ stray' = stray \cup {Target}
          /\ UNCHANGED <<fs, touched, misled>>
    /\ todo' = Tail(todo)
    /\ UNCHANGED <<cmd, net, index, manifest, pc, entry, done, rc, listed>>

\* Mutant: the manifest goes first.
ListRemovable == pc = "removing"

\* The manifest goes last.
AllRemoved == pc = "removing" /\ todo = <<>>

RemoveList ==
    /\ AllRemoved
    /\ \/ manifest' = [manifest EXCEPT ![pkg] = NoList] \/ UNCHANGED manifest
    /\ Exit(0)
    /\ UNCHANGED <<cmd, net, index, fs, hist>>

-----------------------------------------------------------------------------
\* The process is killed, or the power fails.
Crash ==
    /\ pc # "idle" /\ Exit(-1)
    /\ UNCHANGED <<cmd, net, index, fs, manifest, hist>>

Publish ==
    /\ published < MaxBuilds
    /\ \E b \in Build : repo[Of[b]] # b /\ repo' = [repo EXCEPT ![Of[b]] = b]
    /\ published' = published + 1
    /\ UNCHANGED <<index, fs, manifest, pc, pkg, cwd, entry, todo, done, rc, cmds, hist>>

Step ==
    \/ Update \/ UpdateFails \/ ReadIndex \/ Download \/ DownloadFails \/ ExtractCreate \/ ExtractWrite
    \/ ExtractFails \/ WriteManifest \/ ReadManifest \/ RemoveFile \/ RemoveList \/ Crash

Next ==
    \/ Step \/ Publish
    \/ \E p \in Pkg : \/ Start("update", p, Root) \/ Start("install", p, Root)
                      \/ \E dir \in Dir : Start("remove", p, dir)

Spec == Init /\ [][Next]_vars

-----------------------------------------------------------------------------
(* Properties.                                                             *)

(* Every file a package put on the disk is, byte for byte, one of a build  *)
(* of some package whose digest an index on this device has named, however *)
(* index and repository changed in between (install: "never fetch an       *)
(* unverified blob").                                                      *)
OnlyVerified ==
    /\ \A f \in Path : fs[f] \notin {NoFile, Partial} => fs[f] \in listed
    /\ \A p \in Pkg : manifest[p].build # NoBuild => manifest[p].build \in listed /\ Of[manifest[p].build] = p

(* No file leaks: what is on the disk is named by a manifest, so that a    *)
(* remove can still find it, unless its extraction failed or was cut off,  *)
(* an upgrade or a manifest that was not written completely dropped it,    *)
(* its unlink failed, or its name did not lead remove back to it.  In      *)
(* particular a remove that dies half way can be repeated (extract_ustar,  *)
(* install, remove).                                                       *)
Accounted ==
    \A f \in Path : fs[f] # NoFile => f \in stray \/ \E p \in Pkg : f \in Named(manifest[p])

(* What a manifest names, also one that was written in part, is on the     *)
(* disk, whole and from the build that was installed last, with three      *)
(* exceptions: another package shares the path; an install or a remove of  *)
(* the package was begun since, or its last name was cut; or a remove has  *)
(* unlinked the path under a name that was extracted to another one, as it *)
(* does with relative names from another directory and with names that     *)
(* hold ".." (install, extract_ustar, sanitize, remove).                   *)
InstalledWhole ==
    \A p \in Pkg : \A f \in Named(manifest[p]) :
        [pkg |-> p, path |-> f] \notin touched /\ f \notin misled => fs[f] = manifest[p].build
=============================================================================
