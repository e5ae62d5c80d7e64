----------------------------- MODULE IpkgProofs -----------------------------
(***************************************************************************)
(* What the package manager keeps true for every set of packages, builds   *)
(* and archives, with failures and crashes at every step (Ipkg).           *)
(*                                                                         *)
(* The properties speak of files and manifests; they are inductive only    *)
(* together with what the commands hold in memory: the entry install has   *)
(* verified, the members it has written, and the names remove has still    *)
(* to look at.                                                             *)
(***************************************************************************)
EXTENDS Ipkg, SequenceTheorems, TLAPS

\* The paths a list of names is extracted to.
Paths(s) == {Sanitized[s[i]] : i \in DOMAIN s}

LEMMA PathsEmpty == Paths(<<>>) = {}
BY DEF Paths

LEMMA PathsHead ==
    ASSUME NEW s \in Seq(Name), s # <<>>
    PROVE  /\ Head(s) \in Name /\ Sanitized[Head(s)] \in Path /\ Tail(s) \in Seq(Name)
           /\ Paths(s) = {Sanitized[Head(s)]} \cup Paths(Tail(s))
<1>1. Len(s) \in Nat \ {0} /\ DOMAIN s = 1 .. Len(s) /\ Head(s) = s[1]
    OBVIOUS
<1>2. /\ Tail(s) \in Seq(Name) /\ DOMAIN Tail(s) = 1 .. Len(s) - 1
      /\ \A i \in 1 .. Len(s) - 1 : Tail(s)[i] = s[i + 1]
    BY <1>1
<1>3. Head(s) \in Name
    BY <1>1
<1>4. ASSUME NEW i \in 1 .. Len(s) PROVE i = 1 \/ (i - 1 \in 1 .. Len(s) - 1 /\ Tail(s)[i - 1] = s[i])
    BY <1>1, <1>2
<1>5. \A i \in 1 .. Len(s) - 1 : i + 1 \in 1 .. Len(s)
    BY <1>1
<1>6. Paths(s) \subseteq {Sanitized[Head(s)]} \cup Paths(Tail(s))
  <2> SUFFICES ASSUME NEW i \in 1 .. Len(s) PROVE Sanitized[s[i]] \in {Sanitized[Head(s)]} \cup Paths(Tail(s))
    BY <1>1 DEF Paths
  <2>1. CASE i = 1
    BY <1>1, <2>1
  <2>2. CASE i # 1
    BY <1>2, <1>4, <2>2 DEF Paths
  <2> QED
    BY <2>1, <2>2
<1>7. {Sanitized[Head(s)]} \cup Paths(Tail(s)) \subseteq Paths(s)
    BY <1>1, <1>2, <1>5 DEF Paths
<1> QED
    BY <1>2, <1>3, <1>6, <1>7, IpkgAssumption

LEMMA PathsAppend ==
    ASSUME NEW s \in Seq(Name), NEW m \in Name
    PROVE  Append(s, m) \in Seq(Name) /\ Paths(Append(s, m)) = Paths(s) \cup {Sanitized[m]}
<1>1. /\ Append(s, m) \in Seq(Name) /\ DOMAIN s = 1 .. Len(s) /\ Len(s) \in Nat
      /\ DOMAIN Append(s, m) = 1 .. Len(s) + 1
      /\ Append(s, m)[Len(s) + 1] = m
      /\ \A i \in 1 .. Len(s) : Append(s, m)[i] = s[i]
    OBVIOUS
<1>2. 1 .. Len(s) + 1 = 1 .. Len(s) \cup {Len(s) + 1}
    BY <1>1
<1> QED
    BY <1>1, <1>2 DEF Paths

LEMMA PathsType == ASSUME NEW s \in Seq(Name) PROVE Paths(s) \subseteq Path
<1> SUFFICES ASSUME NEW i \in DOMAIN s PROVE Sanitized[s[i]] \in Path
    BY DEF Paths
<1>1. s[i] \in Name
    OBVIOUS
<1> QED
    BY <1>1, IpkgAssumption

-----------------------------------------------------------------------------
(* The inductive invariant.                                                *)

Entry == [st : {"absent", "nohash", "hashed"}, build : Build \cup {NoBuild}]

\* A hashed entry for package p names a build of p that an index has vouched for.
Vouched(e, p) == e.st = "hashed" => e.build \in Build /\ e.build \in listed /\ Of[e.build] = p

Types ==
    /\ repo \in [Pkg -> Build] /\ \A p \in Pkg : Of[repo[p]] = p
    /\ index \in [Pkg -> Entry]
    /\ fs \in [Path -> Build \cup {NoFile, Partial}]
    /\ manifest \in [Pkg -> [has : BOOLEAN, names : Seq(Name), build : Build \cup {NoBuild}]]
    /\ pkg \in Pkg /\ entry \in Entry
    /\ todo \in Seq(Name) /\ done \in Seq(Name)
    /\ pc = "extracting" => todo # <<>>

Vouching ==
    /\ \A p \in Pkg : Vouched(index[p], p)
    /\ pc = "download" => Vouched(entry, pkg)
    /\ pc \in {"extract", "extracting"} => entry.st = "hashed" /\ Vouched(entry, pkg)

\* The file being written is known to be in the way of whoever names it.
InHand ==
    pc = "extracting" =>
        /\ Target \in stray
        /\ \A q \in Pkg : Target \in Named(manifest[q]) => [pkg |-> q, path |-> Target] \in touched

\* What was extracted so far is there, but for a path that is written again.
Extracted ==
    pc \in {"extract", "extracting"} =>
        \A f \in Paths(done) : fs[f] = entry.build \/ (pc = "extracting" /\ f = Target)

\* What remove has passed is gone or accounted for.
Removed ==
    pc = "removing" =>
        \A f \in Named(manifest[pkg]) : f \in Paths(todo) \/ fs[f] = NoFile \/ f \in stray

IpkgInv == Types /\ Vouching /\ InHand /\ Extracted /\ Removed /\ OnlyVerified /\ Accounted /\ InstalledWhole

LEMMA Marks == {NoFile, Partial, NoBuild, Cut} \cap Build = {} /\ NoFile # Partial
BY IpkgAssumption DEF NoFile, Partial

LEMMA IpkgInit == Init => IpkgInv
<1> SUFFICES ASSUME Init PROVE IpkgInv
    OBVIOUS
<1> USE DEF Init
<1>1. <<>> \in Seq(Name) /\ NoEntry \in Entry
    BY DEF NoEntry, Entry
<1>2. /\ NoList \in [has : BOOLEAN, names : Seq(Name), build : Build \cup {NoBuild}]
      /\ Named(NoList) = {} /\ NoList.build = NoBuild
    BY <1>1 DEF NoList, Named
<1>3. Types
    BY <1>1, <1>2 DEF Types
<1>4. Vouching /\ InHand /\ Extracted /\ Removed
    BY DEF Vouching, Vouched, NoEntry, InHand, Extracted, Removed
<1>5. OnlyVerified /\ Accounted /\ InstalledWhole
    BY <1>2 DEF OnlyVerified, Accounted, InstalledWhole
<1> QED
    BY <1>3, <1>4, <1>5 DEF IpkgInv

-----------------------------------------------------------------------------
(* The steps.                                                              *)

\* Nothing on the disk changes, and no history.
Disk == UNCHANGED <<fs, manifest, hist>>

LEMMA DiskKeeps ==
    ASSUME IpkgInv, Disk
    PROVE  OnlyVerified' /\ Accounted' /\ InstalledWhole'
BY DEF IpkgInv, Disk, hist, OnlyVerified, Accounted, InstalledWhole, Named

\* A command that ends with the disk as it is.
LEMMA ExitInv ==
    ASSUME IpkgInv, Disk, UNCHANGED <<repo, index, pkg>>, NEW code, Exit(code)
    PROVE  IpkgInv'
<1>1. pc' = "idle" /\ todo' = <<>> /\ done' = <<>> /\ entry' = NoEntry
    BY DEF Exit
<1>2. <<>> \in Seq(Name) /\ NoEntry \in Entry
    BY DEF NoEntry, Entry
<1>3. Types'
    BY <1>1, <1>2 DEF IpkgInv, Types, Disk
<1>4. Vouching' /\ InHand' /\ Extracted' /\ Removed'
    BY <1>1 DEF IpkgInv, Vouching, Vouched, InHand, Extracted, Removed, Disk, hist
<1> QED
    BY <1>3, <1>4, DiskKeeps DEF IpkgInv

\* The failures, and the death of the process.
LEMMA EndsInv == IpkgInv /\ (UpdateFails \/ DownloadFails \/ ExtractFails \/ Crash) => IpkgInv'
<1> SUFFICES ASSUME IpkgInv, UpdateFails \/ DownloadFails \/ ExtractFails \/ Crash PROVE IpkgInv'
    OBVIOUS
<1>1. Disk /\ UNCHANGED <<repo, index, pkg>> /\ (Exit(1) \/ Exit(-1))
    BY DEF UpdateFails, DownloadFails, ExtractFails, Crash, Disk, cmd, net
<1> QED
    BY <1>1, ExitInv

\* A command is typed.
LEMMA StartInv ==
    ASSUME IpkgInv, NEW at \in {"update", "install", "remove"}, NEW p \in Pkg, NEW dir, Start(at, p, dir)
    PROVE  IpkgInv'
<1>1. /\ Disk /\ pc' = at /\ pkg' = p /\ UNCHANGED <<repo, index, entry, todo, done>>
    BY DEF Start, Disk, net
<1>2. Types'
    BY <1>1 DEF IpkgInv, Types, Disk
<1>3. Vouching' /\ InHand' /\ Extracted' /\ Removed'
    BY <1>1 DEF IpkgInv, Vouching, Vouched, InHand, Extracted, Removed, Disk, hist
<1> QED
    BY <1>1, <1>2, <1>3, DiskKeeps DEF IpkgInv

\* The repository publishes a build.
LEMMA PublishInv == IpkgInv /\ Publish => IpkgInv'
<1> SUFFICES ASSUME IpkgInv, Publish PROVE IpkgInv'
    OBVIOUS
<1>1. Disk /\ UNCHANGED <<index, pc, pkg, entry, todo, done>>
    BY DEF Publish, Disk
<1>2. PICK b \in Build : repo' = [repo EXCEPT ![Of[b]] = b]
    BY DEF Publish
<1>3. repo' \in [Pkg -> Build] /\ \A p \in Pkg : Of[repo'[p]] = p
    BY <1>2, IpkgAssumption DEF IpkgInv, Types
<1>4. Types'
    BY <1>1, <1>3 DEF IpkgInv, Types, Disk
<1>5. Vouching' /\ InHand' /\ Extracted' /\ Removed'
    BY <1>1 DEF IpkgInv, Vouching, Vouched, InHand, Extracted, Removed, Disk, hist, Target, Named
<1> QED
    BY <1>1, <1>4, <1>5, DiskKeeps DEF IpkgInv

\* update: whatever arrives, a hashed entry is the repository's build of its
\* package, and the index vouches for it.
LEMMA UpdateInv == IpkgInv /\ Update => IpkgInv'
<1> SUFFICES ASSUME IpkgInv, Update PROVE IpkgInv'
    OBVIOUS
<1> USE DEF Update
<1>1. /\ UNCHANGED <<fs, manifest, stray, touched, misled, repo, pkg>> /\ pc' = "idle"
      /\ todo' = <<>> /\ done' = <<>> /\ entry' = NoEntry
      /\ listed' = listed \cup {index'[p].build : p \in {q \in Pkg : index'[q].st = "hashed"}}
    BY DEF Exit, cmd, net
<1>2. /\ index' \in [Pkg -> Entry]
      /\ \A p \in Pkg : index'[p].st = "hashed" => index'[p].build \in Build /\ Of[index'[p].build] = p
  <2>0. repo \in [Pkg -> Build] /\ (\A p \in Pkg : Of[repo[p]] = p) /\ NoEntry \in Entry /\ NoEntry.st # "hashed"
    BY DEF IpkgInv, Types, NoEntry, Entry
  <2>1. CASE index' = index
    BY <2>1 DEF IpkgInv, Types, Vouching, Vouched
  <2>2. CASE index' = Served
    BY <2>0, <2>2 DEF Served, Entry
  <2>3. CASE index' = [p \in Pkg |-> NoEntry]
    BY <2>0, <2>3
  <2>4. CASE \E kept \in SUBSET Pkg, last \in Pkg : index' = CutIndex(kept, last)
    <3>1. PICK kept \in SUBSET Pkg, last \in Pkg : index' = CutIndex(kept, last)
        BY <2>4
    <3>2. \A p \in Pkg : /\ Served[p] \in Entry /\ Served[p].build = repo[p]
                         /\ [st |-> "nohash", build |-> repo[p]] \in Entry
                         /\ [st |-> "nohash", build |-> repo[p]].st # "hashed"
        BY <2>0 DEF Served, Entry
    <3> QED
        BY <2>0, <3>1, <3>2 DEF CutIndex
  <2> QED
    BY <2>1, <2>2, <2>3, <2>4
<1>3. \A p \in Pkg : Vouched(index[p], p)'
    BY <1>1, <1>2 DEF Vouched
<1>4. <<>> \in Seq(Name) /\ NoEntry \in Entry
    BY DEF NoEntry, Entry
<1>5. Types'
    BY <1>1, <1>2, <1>4 DEF IpkgInv, Types
<1>6. Vouching' /\ InHand' /\ Extracted' /\ Removed'
    BY <1>1, <1>3 DEF Vouching, InHand, Extracted, Removed
<1>7. OnlyVerified' /\ Accounted' /\ InstalledWhole'
    BY <1>1 DEF IpkgInv, OnlyVerified, Accounted, InstalledWhole, Named
<1> QED
    BY <1>5, <1>6, <1>7 DEF IpkgInv

\* install: the entry of the index, or an error.
LEMMA ReadIndexInv == IpkgInv /\ ReadIndex => IpkgInv'
<1> SUFFICES ASSUME IpkgInv, ReadIndex PROVE IpkgInv'
    OBVIOUS
<1>1. Disk /\ UNCHANGED <<repo, index, pkg>>
    BY DEF ReadIndex, Disk, cmd, net
<1>2. CASE index[pkg].st = "absent"
    BY <1>1, <1>2, ExitInv DEF ReadIndex
<1>3. CASE index[pkg].st # "absent"
  <2>1. pc' = "download" /\ entry' = index[pkg] /\ UNCHANGED <<todo, done>>
    BY <1>3 DEF ReadIndex
  <2>2. Types'
    BY <1>1, <2>1 DEF IpkgInv, Types, Disk
  <2>3. Vouching' /\ InHand' /\ Extracted' /\ Removed'
    BY <1>1, <2>1 DEF IpkgInv, Types, Vouching, Vouched, InHand, Extracted, Removed, Disk, hist
  <2> QED
    BY <1>1, <2>2, <2>3, DiskKeeps DEF IpkgInv
<1> QED
    BY <1>2, <1>3

\* install: only a verified archive is unpacked.
LEMMA DownloadInv == IpkgInv /\ Download => IpkgInv'
<1> SUFFICES ASSUME IpkgInv, Download PROVE IpkgInv'
    OBVIOUS
<1>1. Disk /\ UNCHANGED <<repo, index, pkg>> /\ pc = "download"
    BY DEF Download, Disk, cmd, net
<1>2. PICK blob \in {repo[pkg], Cut} :
         IF Verified(blob)
         THEN /\ pc' = "extract" /\ todo' = (IF blob = Cut THEN <<>> ELSE Members[blob]) /\ done' = <<>>
              /\ entry' = [entry EXCEPT !.build = blob]
              /\ UNCHANGED rc
         ELSE Exit(1)
    BY DEF Download
<1>3. CASE ~Verified(blob)
    BY <1>1, <1>2, <1>3, ExitInv
<1>4. CASE Verified(blob)
  <2>1. entry.st = "hashed" /\ blob = entry.build /\ Vouched(entry, pkg) /\ entry.build \in Build /\ entry \in Entry
    BY <1>1, <1>4 DEF Verified, IpkgInv, Vouching, Vouched, Types
  <2>2. entry' = entry /\ pc' = "extract" /\ done' = <<>> /\ todo' = Members[blob]
    BY <1>2, <1>4, <2>1, Marks DEF Entry
  <2>3. todo' \in Seq(Name) /\ done' \in Seq(Name) /\ Paths(done)' = {}
    <3>1. Members[blob] \in Seq(Name)
        BY <2>1, IpkgAssumption
    <3>2. Paths(done)' = {}
        BY <2>2 DEF Paths
    <3> QED
        BY <2>2, <3>1, <3>2
  <2>4. Types'
    BY <1>1, <2>2, <2>3 DEF IpkgInv, Types, Disk
  <2>5. Vouching' /\ InHand' /\ Extracted' /\ Removed'
    BY <1>1, <2>1, <2>2, <2>3 DEF IpkgInv, Vouching, Vouched, InHand, Extracted, Removed, Disk, hist
  <2> QED
    BY <1>1, <2>4, <2>5, DiskKeeps DEF IpkgInv
<1> QED
    BY <1>3, <1>4

\* What a step that touches the current target says about the others.
LEMMA DisturbFacts ==
    ASSUME Types, NEW f \in Path, f = Target
    PROVE  /\ touched \subseteq Disturb
           /\ \A q \in Pkg : f \in Named(manifest[q]) => [pkg |-> q, path |-> f] \in Disturb
BY DEF Disturb

\* extract_ustar: a file is created or truncated.
LEMMA ExtractCreateInv == IpkgInv /\ ExtractCreate => IpkgInv'
<1> SUFFICES ASSUME IpkgInv, ExtractCreate PROVE IpkgInv'
    OBVIOUS
<1>1. /\ UNCHANGED <<repo, index, manifest, pkg, entry, todo, done, listed>>
      /\ pc = "extract" /\ pc' = "extracting" /\ todo # <<>>
      /\ fs' = [fs EXCEPT ![Target] = Partial]
      /\ touched' = Disturb /\ stray' = stray \cup {Target} /\ misled' = misled \ {Target}
    BY DEF ExtractCreate, cmd, net
<1>2. /\ Types /\ Target \in Path /\ Target' = Target
      /\ fs \in [Path -> Build \cup {NoFile, Partial}] /\ Paths(done) \subseteq Path /\ Paths(done)' = Paths(done)
      /\ \A q \in Pkg : Named(manifest[q])' = Named(manifest[q]) /\ Named(manifest[q]) \subseteq Path
  <2>1. \A q \in Pkg : Named(manifest[q]) = Paths(manifest[q].names) /\ manifest[q].names \in Seq(Name)
    BY DEF Named, Paths, IpkgInv, Types
  <2>2. \A q \in Pkg : Named(manifest[q]) \subseteq Path
    BY <2>1, PathsType
  <2>3. Named(manifest[pkg])' = Named(manifest[pkg]) /\ \A q \in Pkg : Named(manifest[q])' = Named(manifest[q])
    BY <1>1 DEF Named
  <2> QED
    BY <1>1, <2>2, <2>3, PathsHead, PathsType DEF IpkgInv, Types, Target, Paths
<1>3. \A f \in Path : fs'[f] = IF f = Target THEN Partial ELSE fs[f]
    BY <1>1, <1>2
<1>4. /\ touched \subseteq touched'
      /\ \A q \in Pkg : Target \in Named(manifest[q]) => [pkg |-> q, path |-> Target] \in touched'
    BY <1>1, <1>2, DisturbFacts
<1>5. Types'
    BY <1>1, <1>2 DEF Types
<1>6. Vouching' /\ InHand' /\ Removed'
    BY <1>1, <1>2, <1>4 DEF IpkgInv, Vouching, Vouched, InHand, Removed
<1>7. Extracted'
    BY <1>1, <1>2, <1>3 DEF IpkgInv, Extracted
<1>8. OnlyVerified'
    BY <1>1, <1>2, <1>3 DEF IpkgInv, OnlyVerified
<1>9. Accounted'
    BY <1>1, <1>2, <1>3 DEF IpkgInv, Accounted
<1>10. InstalledWhole'
    BY <1>1, <1>2, <1>3, <1>4 DEF IpkgInv, InstalledWhole
<1> QED
    BY <1>5, <1>6, <1>7, <1>8, <1>9, <1>10 DEF IpkgInv

\* extract_ustar: the file is complete.
LEMMA ExtractWriteInv == IpkgInv /\ ExtractWrite => IpkgInv'
<1> SUFFICES ASSUME IpkgInv, ExtractWrite PROVE IpkgInv'
    OBVIOUS
<1>1. /\ UNCHANGED <<repo, index, manifest, pkg, entry, listed, stray, touched, misled>>
      /\ pc = "extracting" /\ pc' = "extract"
      /\ fs' = [fs EXCEPT ![Target] = entry.build]
      /\ todo' = Tail(todo) /\ done' = Append(done, Head(todo))
    BY DEF ExtractWrite, cmd, net, hist
<1>2. /\ Types /\ todo # <<>> /\ Target \in Path /\ Head(todo) \in Name /\ Sanitized[Head(todo)] = Target
      /\ fs \in [Path -> Build \cup {NoFile, Partial}] /\ Paths(done) \subseteq Path
      /\ todo' \in Seq(Name) /\ done' \in Seq(Name) /\ Paths(done)' = Paths(done) \cup {Target}
  <2>1. Types /\ todo \in Seq(Name) /\ todo # <<>> /\ done \in Seq(Name)
    BY <1>1 DEF IpkgInv, Types
  <2>2. /\ Head(todo) \in Name /\ Target = Sanitized[Head(todo)] /\ Target \in Path /\ Tail(todo) \in Seq(Name)
    BY <2>1, PathsHead DEF Target
  <2>3. Append(done, Head(todo)) \in Seq(Name) /\ Paths(Append(done, Head(todo))) = Paths(done) \cup {Target}
    BY <2>1, <2>2, PathsAppend
  <2>4. Paths(done)' = Paths(Append(done, Head(todo)))
    BY <1>1 DEF Paths
  <2> QED
    BY <1>1, <2>1, <2>2, <2>3, <2>4, PathsType DEF Types
<1>3. entry.build \in Build /\ entry.build \in listed
    BY <1>1 DEF IpkgInv, Vouching, Vouched
<1>4. \A f \in Path : fs'[f] = IF f = Target THEN entry.build ELSE fs[f]
    BY <1>1, <1>2
<1>5. \A q \in Pkg : Named(manifest[q])' = Named(manifest[q]) /\ Named(manifest[q]) \subseteq Path
  <2>1. \A q \in Pkg : Named(manifest[q]) = Paths(manifest[q].names) /\ manifest[q].names \in Seq(Name)
    BY DEF Named, Paths, IpkgInv, Types
  <2> QED
    BY <1>1, <2>1, PathsType DEF Named
<1>6. Types'
    BY <1>1, <1>2, <1>3 DEF Types
<1>7. Vouching' /\ InHand' /\ Removed'
    BY <1>1 DEF IpkgInv, Vouching, Vouched, InHand, Removed
<1>8. Extracted'
    BY <1>1, <1>2, <1>4 DEF IpkgInv, Extracted
<1>9. OnlyVerified'
    BY <1>1, <1>3, <1>4 DEF IpkgInv, OnlyVerified
<1>10. Accounted'
    BY <1>1, <1>2, <1>4, <1>5 DEF IpkgInv, Accounted, InHand
<1>11. InstalledWhole'
    BY <1>1, <1>2, <1>4, <1>5 DEF IpkgInv, InstalledWhole, InHand
<1> QED
    BY <1>6, <1>7, <1>8, <1>9, <1>10, <1>11 DEF IpkgInv

\* The manifests other than the one that is written keep their names.
LEMMA NamedOther ==
    ASSUME Types, NEW list, list \in [has : BOOLEAN, names : Seq(Name), build : Build \cup {NoBuild}],
           manifest' = [manifest EXCEPT ![pkg] = list]
    PROVE  /\ manifest'[pkg] = list
           /\ \A q \in Pkg : q # pkg => manifest'[q] = manifest[q]
           /\ manifest' \in [Pkg -> [has : BOOLEAN, names : Seq(Name), build : Build \cup {NoBuild}]]
BY DEF Types

\* install: the manifest.
LEMMA WriteManifestInv == IpkgInv /\ WriteManifest => IpkgInv'
<1> SUFFICES ASSUME IpkgInv, WriteManifest PROVE IpkgInv'
    OBVIOUS
<1> DEFINE list(names) == [has |-> TRUE, names |-> names, build |-> entry.build]
<1>1. /\ UNCHANGED <<repo, index, fs, pkg, listed, misled>> /\ Exit(0)
      /\ pc = "extract" /\ pc' = "idle" /\ todo' = <<>> /\ done' = <<>> /\ entry' = NoEntry
    BY DEF WriteManifest, cmd, net, Exit
<1>2. \/ ListNames(done, Len(done))
      \/ \E n \in 0 .. Len(done) - 1 :
            \/ ListNames(FirstDone(n), n)
            \/ \E part \in Cuts[done[n + 1]] : ListNames(Append(FirstDone(n), part), n)
      \/ UNCHANGED <<manifest, stray, touched>>
    BY DEF WriteManifest
<1>3. CASE UNCHANGED <<manifest, stray, touched>>
    BY <1>1, <1>3, ExitInv DEF Disk, hist
<1>4. ASSUME NEW names \in Seq(Name), NEW whole \in Nat, ListNames(names, whole),
             \A i \in DOMAIN names : i <= whole => fs[Sanitized[names[i]]] = entry.build
      PROVE  IpkgInv'
  <2>0. /\ manifest' = [manifest EXCEPT ![pkg] = list(names)]
        /\ stray' = (stray \cup Named(manifest[pkg])) \ Named(manifest'[pkg])
        /\ touched' = {t \in touched : t.pkg # pkg} \cup
                      {[pkg |-> pkg, path |-> Sanitized[names[i]]] : i \in DOMAIN names \ 1 .. whole}
    BY <1>4 DEF ListNames
  <2>1. Types /\ entry.build \in Build /\ entry.build \in listed /\ Of[entry.build] = pkg /\ entry.build # NoBuild
    BY <1>1, Marks DEF IpkgInv, Vouching, Vouched
  <2>2. /\ list(names) \in [has : BOOLEAN, names : Seq(Name), build : Build \cup {NoBuild}]
        /\ list(names).names = names /\ list(names).build = entry.build
    BY <2>1
  <2> HIDE DEF list
  <2>3. /\ manifest'[pkg] = list(names)
        /\ \A q \in Pkg : q # pkg => manifest'[q] = manifest[q]
        /\ manifest' \in [Pkg -> [has : BOOLEAN, names : Seq(Name), build : Build \cup {NoBuild}]]
    BY <2>0, <2>1, <2>2, NamedOther
  <2>4. /\ Named(manifest'[pkg]) = Paths(names)
        /\ \A q \in Pkg : q # pkg => Named(manifest'[q]) = Named(manifest[q])
    BY <2>2, <2>3 DEF Named, Paths
  <2>5. <<>> \in Seq(Name) /\ NoEntry \in Entry
    BY DEF NoEntry, Entry
  <2>6. Types'
    BY <1>1, <2>1, <2>3, <2>5 DEF Types
  <2>7. Vouching' /\ InHand' /\ Extracted' /\ Removed'
    BY <1>1 DEF IpkgInv, Vouching, Vouched, InHand, Extracted, Removed
  <2>8. OnlyVerified'
    BY <1>1, <2>1, <2>2, <2>3 DEF IpkgInv, OnlyVerified
  <2>9. Accounted'
    <3> SUFFICES ASSUME NEW f \in Path, fs[f] # NoFile
                 PROVE  f \in stray' \/ \E p \in Pkg : f \in Named(manifest'[p])
        BY <1>1 DEF Accounted
    <3>1. pkg \in Pkg
        BY <2>1 DEF Types
    <3>2. f \in stray \/ \E p \in Pkg : f \in Named(manifest[p])
        BY DEF IpkgInv, Accounted
    <3>3. CASE f \in Paths(names)
        BY <2>4, <3>1, <3>3
    <3>4. CASE f \notin Paths(names)
        BY <2>0, <2>4, <3>2, <3>4
    <3> QED
        BY <3>3, <3>4
  <2>10. InstalledWhole'
    <3> SUFFICES ASSUME NEW p \in Pkg, NEW f \in Named(manifest'[p]),
                        [pkg |-> p, path |-> f] \notin touched', f \notin misled
                 PROVE  fs[f] = manifest'[p].build
        BY <1>1 DEF InstalledWhole
    <3>1. CASE p = pkg
      <4>1. PICK i \in DOMAIN names : f = Sanitized[names[i]]
          BY <2>4, <3>1 DEF Paths
      <4>2. i \in 1 .. whole
          BY <2>0, <3>1, <4>1
      <4> QED
          BY <1>4, <2>2, <2>3, <3>1, <4>1, <4>2
    <3>2. CASE p # pkg
      <4>1. [pkg |-> p, path |-> f] \notin touched
          BY <2>0, <3>2
      <4> QED
          BY <2>3, <2>4, <3>2, <4>1 DEF IpkgInv, InstalledWhole
    <3> QED
        BY <3>1, <3>2
  <2> QED
    BY <2>6, <2>7, <2>8, <2>9, <2>10 DEF IpkgInv
<1> HIDE DEF list
<1>5. done \in Seq(Name) /\ DOMAIN done = 1 .. Len(done) /\ Len(done) \in Nat
    BY DEF IpkgInv, Types
<1>6. \A i \in 1 .. Len(done) : fs[Sanitized[done[i]]] = entry.build
    BY <1>1, <1>5 DEF IpkgInv, Extracted, Paths
<1>7. CASE ListNames(done, Len(done))
    BY <1>4, <1>5, <1>6, <1>7
<1>8. ASSUME NEW n \in 0 .. Len(done) - 1,
             ListNames(FirstDone(n), n) \/ \E part \in Cuts[done[n + 1]] : ListNames(Append(FirstDone(n), part), n)
      PROVE  IpkgInv'
  <2>1. n \in Nat /\ n <= Len(done) /\ n + 1 \in 1 .. Len(done) /\ done[n + 1] \in Name
    BY <1>5
  <2>2. \A i \in 1 .. n : i \in 1 .. Len(done) /\ done[i] \in Name
    BY <1>5, <2>1
  <2>3. FirstDone(n) \in [1 .. n -> Name]
    BY <2>2 DEF FirstDone
  <2>4. FirstDone(n) \in Seq(Name)
    BY <2>1, <2>3, SeqDef, Zenon
  <2>5. Len(FirstDone(n)) = n
    BY <2>1, <2>3, <2>4, LenProperties
  <2>6. \A i \in 1 .. n : FirstDone(n)[i] = done[i]
    BY DEF FirstDone
  <2>7. DOMAIN FirstDone(n) = 1 .. n
    BY DEF FirstDone
  <2> HIDE DEF FirstDone
  <2>8. CASE ListNames(FirstDone(n), n)
    BY <1>4, <1>6, <2>1, <2>2, <2>4, <2>6, <2>7, <2>8
  <2>9. ASSUME NEW part \in Cuts[done[n + 1]], ListNames(Append(FirstDone(n), part), n)
        PROVE  IpkgInv'
    <3>1. part \in Name
        BY <2>1, IpkgAssumption
    <3>2. /\ Append(FirstDone(n), part) \in Seq(Name)
          /\ \A i \in 1 .. n : Append(FirstDone(n), part)[i] = FirstDone(n)[i]
          /\ \A i \in DOMAIN Append(FirstDone(n), part) : i \in Nat /\ i >= 1
        BY <2>1, <2>4, <2>5, <3>1
    <3>3. \A i \in DOMAIN Append(FirstDone(n), part) :
              i <= n => fs[Sanitized[Append(FirstDone(n), part)[i]]] = entry.build
        BY <1>6, <2>1, <2>2, <2>6, <3>2
    <3> QED
        BY <1>4, <2>1, <2>9, <3>2, <3>3
  <2> QED
    BY <1>8, <2>8, <2>9
<1> QED
    BY <1>2, <1>3, <1>7, <1>8

\* remove: the manifest is read.
LEMMA ReadManifestInv == IpkgInv /\ ReadManifest => IpkgInv'
<1> SUFFICES ASSUME IpkgInv, ReadManifest PROVE IpkgInv'
    OBVIOUS
<1>1. Disk /\ UNCHANGED <<repo, index, pkg>>
    BY DEF ReadManifest, Disk, cmd, net
<1>2. CASE ~manifest[pkg].has
    BY <1>1, <1>2, ExitInv DEF ReadManifest
<1>3. CASE manifest[pkg].has
  <2>1. pc' = "removing" /\ todo' = manifest[pkg].names /\ UNCHANGED <<done, entry>>
    BY <1>3 DEF ReadManifest
  <2>2. Types'
    BY <1>1, <2>1 DEF IpkgInv, Types, Disk
  <2>3. Named(manifest[pkg])' = Paths(todo)'
    BY <1>1, <2>1 DEF Disk, Named, Paths
  <2>4. Vouching' /\ InHand' /\ Extracted' /\ Removed'
    BY <1>1, <2>1, <2>3 DEF IpkgInv, Vouching, Vouched, InHand, Extracted, Removed, Disk, hist
  <2> QED
    BY <1>1, <2>2, <2>4, DiskKeeps DEF IpkgInv
<1> QED
    BY <1>2, <1>3

\* remove: one name.
LEMMA RemoveFileInv == IpkgInv /\ RemoveFile => IpkgInv'
<1> SUFFICES ASSUME IpkgInv, RemoveFile PROVE IpkgInv'
    OBVIOUS
<1>1. /\ UNCHANGED <<repo, index, manifest, pkg, pc, entry, done, listed>>
      /\ pc = "removing" /\ todo # <<>> /\ todo' = Tail(todo)
    BY DEF RemoveFile, cmd, net
<1>0. \/ /\ fs' = [fs EXCEPT ![Target] = NoFile]
         /\ touched' = Disturb /\ stray' = stray \ {Target} /\ misled' = misled
      \/ \E f \in Path \ {Target} :
            /\ fs' = [fs EXCEPT ![f] = NoFile] /\ touched' = touched
            /\ misled' = misled \cup {f} /\ stray' = (stray \cup {Target}) \ {f}
      \/ stray' = stray \cup {Target} /\ fs' = fs /\ touched' = touched /\ misled' = misled
    BY DEF RemoveFile
<1>2. /\ Types /\ Target \in Path /\ Tail(todo) \in Seq(Name)
      /\ fs \in [Path -> Build \cup {NoFile, Partial}] /\ pkg \in Pkg
      /\ Paths(todo) = {Target} \cup Paths(Tail(todo)) /\ Paths(todo)' = Paths(Tail(todo))
  <2>1. Types /\ todo \in Seq(Name) /\ todo # <<>>
    BY <1>1 DEF IpkgInv, Types
  <2>2. Paths(todo)' = Paths(Tail(todo))
    BY <1>1 DEF Paths
  <2> QED
    BY <2>1, <2>2, PathsHead DEF Types, Target
<1>3. \A q \in Pkg : Named(manifest[q])' = Named(manifest[q]) /\ Named(manifest[q]) \subseteq Path
  <2>1. \A q \in Pkg : Named(manifest[q]) = Paths(manifest[q].names) /\ manifest[q].names \in Seq(Name)
    BY DEF Named, Paths, IpkgInv, Types
  <2> QED
    BY <1>1, <2>1, PathsType DEF Named
<1>4. Named(manifest[pkg])' = Named(manifest[pkg]) /\ Named(manifest[pkg]) \subseteq Path
    BY <1>1, <1>2, <1>3 DEF Named
<1>5. Types'
    BY <1>0, <1>1, <1>2 DEF Types
<1>6. Vouching' /\ InHand' /\ Extracted'
    BY <1>1 DEF IpkgInv, Vouching, Vouched, InHand, Extracted
<1>7. \A f \in Path : \/ fs'[f] = NoFile
                      \/ fs'[f] = fs[f] /\ (f \in stray => f \in stray') /\ (f = Target => f \in stray')
    BY <1>0, <1>2
<1>8. touched \subseteq touched' /\ misled \subseteq misled'
    BY <1>0, <1>2, DisturbFacts
<1>9. \A f \in Path : \/ fs'[f] = fs[f] \/ f \in misled'
                      \/ \A q \in Pkg : f \in Named(manifest[q]) => [pkg |-> q, path |-> f] \in touched'
    BY <1>0, <1>2, DisturbFacts
<1>10. Removed'
    BY <1>1, <1>2, <1>4, <1>7 DEF IpkgInv, Removed
<1>11. OnlyVerified'
    BY <1>1, <1>2, <1>7 DEF IpkgInv, OnlyVerified
<1>12. Accounted'
    BY <1>1, <1>2, <1>3, <1>7 DEF IpkgInv, Accounted
<1>13. InstalledWhole'
    BY <1>1, <1>2, <1>3, <1>8, <1>9 DEF IpkgInv, InstalledWhole
<1> QED
    BY <1>5, <1>6, <1>10, <1>11, <1>12, <1>13 DEF IpkgInv

\* remove: the manifest goes last.
LEMMA RemoveListInv == IpkgInv /\ RemoveList => IpkgInv'
<1> SUFFICES ASSUME IpkgInv, RemoveList PROVE IpkgInv'
    OBVIOUS
<1>1. /\ UNCHANGED <<repo, index, pkg, fs, listed, stray, touched, misled>> /\ Exit(0)
      /\ pc = "removing" /\ todo = <<>>
      /\ pc' = "idle" /\ todo' = <<>> /\ done' = <<>> /\ entry' = NoEntry
    BY DEF RemoveList, AllRemoved, cmd, net, hist, Exit
<1>2. CASE UNCHANGED manifest
    BY <1>1, <1>2, ExitInv DEF Disk, hist
<1>3. CASE manifest' = [manifest EXCEPT ![pkg] = NoList]
  <2>1. /\ NoList \in [has : BOOLEAN, names : Seq(Name), build : Build \cup {NoBuild}]
        /\ Named(NoList) = {} /\ NoList.build = NoBuild
    BY DEF NoList, Named
  <2>2. /\ manifest'[pkg] = NoList
        /\ \A q \in Pkg : q # pkg => manifest'[q] = manifest[q]
        /\ manifest' \in [Pkg -> [has : BOOLEAN, names : Seq(Name), build : Build \cup {NoBuild}]]
    BY <1>3, <2>1, NamedOther DEF IpkgInv
  <2>3. <<>> \in Seq(Name) /\ NoEntry \in Entry
    BY DEF NoEntry, Entry
  <2>4. Types'
    BY <1>1, <2>2, <2>3 DEF IpkgInv, Types
  <2>5. Vouching' /\ InHand' /\ Extracted' /\ Removed'
    BY <1>1 DEF IpkgInv, Vouching, Vouched, InHand, Extracted, Removed
  <2>6. OnlyVerified'
    BY <1>1, <2>1, <2>2 DEF IpkgInv, OnlyVerified
  <2>7. \A f \in Named(manifest[pkg]) : fs[f] = NoFile \/ f \in stray
    BY <1>1, PathsEmpty DEF IpkgInv, Removed
  <2>8. Accounted'
    <3> SUFFICES ASSUME NEW f \in Path, fs[f] # NoFile, f \notin stray
                 PROVE  \E p \in Pkg : f \in Named(manifest'[p])
        BY <1>1 DEF Accounted
    <3>1. PICK p \in Pkg : f \in Named(manifest[p])
        BY DEF IpkgInv, Accounted
    <3>2. p # pkg
        BY <2>7, <3>1
    <3> QED
        BY <2>2, <3>1, <3>2
  <2>9. InstalledWhole'
    BY <1>1, <2>1, <2>2 DEF IpkgInv, InstalledWhole
  <2> QED
    BY <2>4, <2>5, <2>6, <2>8, <2>9 DEF IpkgInv
<1> QED
    BY <1>2, <1>3 DEF RemoveList

LEMMA IpkgNext == IpkgInv /\ [Next]_vars => IpkgInv'
<1> SUFFICES ASSUME IpkgInv, [Next]_vars PROVE IpkgInv'
    OBVIOUS
<1>1. CASE Step
    BY <1>1, UpdateInv, EndsInv, ReadIndexInv, DownloadInv, ExtractCreateInv, ExtractWriteInv, WriteManifestInv,
       ReadManifestInv, RemoveFileInv, RemoveListInv DEF Step
<1>2. CASE Publish
    BY <1>2, PublishInv
<1>3. ASSUME NEW p \in Pkg, \/ Start("update", p, Root) \/ Start("install", p, Root)
                            \/ \E dir \in Dir : Start("remove", p, dir)
      PROVE  IpkgInv'
    BY <1>3, StartInv
<1>4. CASE UNCHANGED vars
  <2>1. Disk /\ UNCHANGED <<repo, index, pc, pkg, entry, todo, done>>
    BY <1>4 DEF vars, Disk, hist
  <2>2. Types'
    BY <2>1 DEF IpkgInv, Types, Disk
  <2>3. Vouching' /\ InHand' /\ Extracted' /\ Removed'
    BY <2>1 DEF IpkgInv, Vouching, Vouched, InHand, Extracted, Removed, Disk, hist, Target, Named, Paths
  <2> QED
    BY <2>1, <2>2, <2>3, DiskKeeps DEF IpkgInv
<1> QED
    BY <1>1, <1>2, <1>3, <1>4 DEF Next

LEMMA IpkgInvariance == Spec => []IpkgInv
BY IpkgInit, IpkgNext, PTL DEF Spec

-----------------------------------------------------------------------------
(* Results.                                                                *)

(* For every repository and every sequence of updates, downloads that      *)
(* break off and publications: what install puts on the disk was verified  *)
(* against a digest an index has named for that package (ipkg.rs:          *)
(* install).                                                               *)
THEOREM IpkgVerified == Spec => []OnlyVerified
BY IpkgInvariance, PTL DEF IpkgInv

(* Files are never lost track of, wherever a command dies: each is named   *)
(* by a manifest unless one of the known incidents left it behind          *)
(* (ipkg.rs: extract_ustar, install, remove).                              *)
THEOREM IpkgAccounted == Spec => []Accounted
BY IpkgInvariance, PTL DEF IpkgInv

(* What a manifest names is on the disk as the last install wrote it, even *)
(* for archives that name a path twice, packages that share paths and      *)
(* manifests that were written in part; not proved, and not true, for      *)
(* paths that remove unlinked under a name extracted to another path: what *)
(* a relative name means in the current directory, or one with ".."        *)
(* (ipkg.rs: install, extract_ustar, sanitize, remove).                    *)
THEOREM IpkgWhole == Spec => []InstalledWhole
BY IpkgInvariance, PTL DEF IpkgInv

=============================================================================
