----------------------------- MODULE LogProofs ------------------------------
(***************************************************************************)
(* Proofs about Log, for any number of loggers, any size of the log and    *)
(* any number of lines.                                                    *)
(*                                                                         *)
(* None of the three properties is inductive.  SizeCapped needs the        *)
(* writers that will write without another look at the size: the lines of  *)
(* a file and those that are still to come to it stay within the cap       *)
(* together.  KeepsRecent and ReadSound need to know which number every    *)
(* line has: that of the last line, less its distance from the end.        *)
(***************************************************************************)
EXTENDS Log, FiniteSetTheorems, SequenceTheorems, TLAPS

Away   == {"down", "idle", "poll", "drain"}
Places == Away \cup {"stat", "rename", "open", "write"}

Names ==
    /\ cur \in File \cup {NoFile} /\ old \in File \cup {NoFile} /\ (cur = old => cur = NoFile)
    /\ content \in [File -> Seq(Nat)] /\ lines \in Nat

Writers ==
    /\ pc \in [Writer -> Places] /\ handle \in [Writer -> File \cup {NoFile}]
    /\ \A w \in Writer : pc[w] = "write" <=> handle[w] # NoFile

Types == Names /\ Writers /\ out \in Seq(Nat)

\* The writers that will write to f, and those that will open whatever is FILE.
Behind(f) == {w \in Writer : pc[w] = "write" /\ handle[w] = f}
Coming    == {w \in Writer : pc[w] = "open"}
Room      == MAX + Cardinality(Writer) - 1

Capped ==
    ~failed => /\ Len(InFile(cur)) + Cardinality(Behind(cur) \cup Coming) <= Room
               /\ Len(InFile(old)) + Cardinality(Behind(old)) <= Room

\* Without overlap there is one writer; what it has seen is still so.
Alone == \A v, w \in Writer : Appending(v) /\ Appending(w) => v = w

Steady == \A w \in Writer : /\ pc[w] = "write" => handle[w] = cur
                            /\ pc[w] = "rename" => Len(InFile(cur)) >= MAX

\* The lines of s are those that end with number `top`.
EndsAt(s, top) == \A i \in 1 .. Len(s) : s[i] = top - (Len(s) - i)

Numbered ==
    LET a == Len(InFile(old))  b == Len(InFile(cur)) IN
    /\ EndsAt(InFile(old), lines - b) /\ EndsAt(InFile(cur), lines)
    /\ a + b <= lines /\ (a + b = lines \/ a + b >= MAX)

\* What the reader has of OLD ends before FILE, just before it unless it was rotated.
HalfRead ==
    rpc = "half" => \E top \in Int : /\ top <= lines - Len(InFile(cur))
                                     /\ ~rotated => top = lines - Len(InFile(cur))
                                     /\ EndsAt(out, top)

Ordered == ~overlap => Alone /\ Steady /\ Numbered /\ HalfRead

IInv == Types /\ Capped /\ Ordered /\ ReadSound

-----------------------------------------------------------------------------
(* Writers and files are finite.                                           *)

LEMMA Sizes ==
    /\ IsFiniteSet(Writer) /\ Cardinality(Writer) \in Nat /\ Daemon \in Writer
    /\ MAX \in Nat /\ MAX >= 1 /\ Room \in Nat /\ Cardinality(Writer) <= Room
    /\ NoFile \notin File
<1>1. IsFiniteSet(Loggers) /\ Daemon \notin Loggers /\ MAX \in Nat /\ MAX >= 1
  BY LogAssumption
<1>2. IsFiniteSet(Writer) /\ Cardinality(Writer) = Cardinality(Loggers) + 1
  BY <1>1, FS_AddElement DEF Writer
<1>3. Cardinality(Loggers) \in Nat
  BY <1>1, FS_CardinalityType
<1> QED
  BY <1>1, <1>2, <1>3 DEF Room, Writer, File, NoFile

LEMMA Counted ==
    ASSUME NEW S, S \subseteq Writer
    PROVE  IsFiniteSet(S) /\ Cardinality(S) \in Nat /\ Cardinality(S) <= Cardinality(Writer)
BY Sizes, FS_Subset, FS_CardinalityType

LEMMA Fewer ==
    ASSUME NEW S, NEW T, S \subseteq Writer, T \subseteq S
    PROVE  Cardinality(T) <= Cardinality(S)
BY Counted, FS_Subset

LEMMA OneLess ==
    ASSUME NEW S, S \subseteq Writer, NEW w \in S
    PROVE  Cardinality(S \ {w}) = Cardinality(S) - 1
BY Counted, FS_RemoveElement

\* A writer that opens finds an unused file: each of the others has one at most.
LEMMA FreeFile ==
    ASSUME Writers, NEW w \in Writer, pc[w] = "open"
    PROVE  File \ ({NoFile, old} \cup {handle[v] : v \in Writer}) # {}
<1> SUFFICES ASSUME \A f \in File : f = old \/ \E v \in Writer : handle[v] = f
             PROVE  FALSE
  BY Sizes
<1> DEFINE g == [f \in File |-> IF f = old THEN w ELSE CHOOSE v \in Writer : handle[v] = f]
<1>1. \A f \in File : f # old => g[f] \in Writer /\ handle[g[f]] = f
  OBVIOUS
<1>2. handle[w] = NoFile
  BY DEF Writers
<1>3. \A f \in File : f = old => g[f] = w
  OBVIOUS
<1>4. g \in [File -> Writer]
  BY <1>1, <1>3
<1>5. IsFiniteSet(File) /\ Cardinality(File) = Cardinality(Writer) + 1
  <2> DEFINE n == Cardinality(Writer) + 1
  <2>1. 1 \in Int /\ n \in Int /\ ~(1 > n) /\ n - 1 + 1 = n
    BY Sizes
  <2> HIDE DEF n
  <2>2. IsFiniteSet(1 .. n) /\ Cardinality(1 .. n) = n
    BY <2>1, FS_Interval
  <2> QED
    BY <2>2 DEF File, n
<1>6. Cardinality(Writer) < Cardinality(File)
  BY <1>5, Sizes
<1> HIDE DEF g
<1>7. PICK x, y \in File : x # y /\ g[x] = g[y]
  BY <1>4, <1>5, <1>6, Sizes, FS_PigeonHole
<1> QED
  BY <1>1, <1>2, <1>3, <1>7, Sizes

LEMMA NewFileFree ==
    ASSUME Writers, NEW w \in Writer, pc[w] = "open", cur = NoFile
    PROVE  NewFile \in File /\ NewFile # NoFile /\ NewFile # old /\ \A v \in Writer : handle[v] # NewFile
<1>1. \E f : f \in File \ ({cur, old} \cup {handle[v] : v \in Writer})
  BY FreeFile
<1>2. NewFile \in File \ ({cur, old} \cup {handle[v] : v \in Writer})
  BY <1>1 DEF NewFile
<1> QED
  BY <1>2, Sizes

-----------------------------------------------------------------------------
LEMMA InitIInv == Init => IInv
<1> SUFFICES ASSUME Init PROVE IInv
  OBVIOUS
<1>1. Types
  BY Sizes DEF Init, Types, Names, Writers, Places, Away
<1>2. InFile(cur) = <<>> /\ InFile(old) = <<>> /\ lines = 0 /\ Len(<<>>) = 0
  BY DEF Init, InFile
<1>3. \A w \in Writer : pc[w] \in Away
  BY DEF Init, Away
<1>4. Capped
  <2>1. Behind(cur) \cup Coming = {} /\ Behind(old) = {}
    BY <1>3 DEF Behind, Coming, Away
  <2>2. Cardinality({}) = 0
    BY FS_EmptySet
  <2>3. Len(InFile(cur)) = 0 /\ Len(InFile(old)) = 0 /\ Room >= 0 + 0
    BY <1>2, Sizes
  <2> QED
    BY <2>1, <2>2, <2>3 DEF Capped
<1>5. Alone /\ Steady
  BY <1>3 DEF Alone, Steady, Appending, Away
<1>6. Numbered
  BY <1>2 DEF Numbered, EndsAt
<1>7. rpc = "idle"
  BY DEF Init
<1> QED
  BY <1>1, <1>4, <1>5, <1>6, <1>7 DEF IInv, Ordered, HalfRead, ReadSound

-----------------------------------------------------------------------------
(* What a step of one writer leaves alone.                                 *)

LEMMA Moved ==
    ASSUME Writers, NEW w \in Writer, NEW l, Goto(w, l)
    PROVE  pc'[w] = l /\ \A v \in Writer \ {w} : pc'[v] = pc[v]
BY DEF Writers, Goto

\* One writer stays alone: it was appending already, or stops, or it is the
\* first (Begin).
LEMMA StaysAlone ==
    ASSUME Writers, Ordered, NEW w \in Writer, NEW l \in Places, Goto(w, l),
           \/ Appending(w) /\ overlap' = overlap
           \/ l \in Away /\ overlap' = overlap
           \/ Begin(w)
    PROVE  ~overlap' => ~overlap /\ Alone'
<1> SUFFICES ASSUME ~overlap' PROVE ~overlap /\ Alone'
  OBVIOUS
<1>1. pc'[w] = l /\ \A v \in Writer \ {w} : pc'[v] = pc[v]
  BY Moved
<1>2. \A v \in Writer \ {w} : Appending(v)' <=> Appending(v)
  BY <1>1 DEF Appending
<1>3. ~overlap
  BY DEF Begin
<1>4. Alone
  BY <1>3 DEF Ordered
<1>5. CASE Appending(w)
  BY <1>2, <1>3, <1>4, <1>5 DEF Alone
<1>6. CASE l \in Away
  <2>1. ~Appending(w)'
    BY <1>1, <1>6 DEF Appending, Away
  <2> QED
    BY <1>2, <1>3, <1>4, <2>1 DEF Alone
<1>7. CASE Begin(w)
  <2>1. \A v \in Writer \ {w} : ~Appending(v)
    BY <1>7 DEF Begin
  <2> QED
    BY <1>2, <1>3, <2>1 DEF Alone
<1> QED
  BY <1>3, <1>5, <1>6, <1>7

\* A writer lets go of its file, or had none; it is away, or about to look.
Turns(w, l) ==
    /\ Goto(w, l) /\ l \in Away \cup {"stat"}
    /\ handle' = [handle EXCEPT ![w] = NoFile]
    /\ UNCHANGED files /\ failed' = failed

LEMMA TurnKeeps ==
    ASSUME Types, Capped, Ordered, NEW w \in Writer, NEW l, Turns(w, l), UNCHANGED <<reader, rotated>>,
           ~overlap' => ~overlap /\ Alone'
    PROVE  Types' /\ Capped' /\ Ordered'
<1>0. Writers /\ Goto(w, l) /\ l \in Places /\ l \notin {"rename", "open", "write"}
  BY DEF Types, Turns, Places, Away
<1>1. pc'[w] = l /\ \A v \in Writer \ {w} : pc'[v] = pc[v]
  BY <1>0, Moved
<1>2. handle'[w] = NoFile /\ \A v \in Writer \ {w} : handle'[v] = handle[v]
  BY <1>0 DEF Turns, Writers
<1>3. cur' = cur /\ old' = old /\ content' = content /\ lines' = lines /\ failed' = failed /\ out' = out
      /\ rpc' = rpc /\ rotated' = rotated
  BY DEF Turns, files, reader
<1>4. \A f : InFile(f)' = InFile(f)
  BY <1>3 DEF InFile
<1>5. Writers'
  <2>1. pc' \in [Writer -> Places] /\ handle' \in [Writer -> File \cup {NoFile}]
    BY <1>0 DEF Writers, Goto, Turns
  <2> QED
    BY <2>1, <1>0, <1>1, <1>2 DEF Writers
<1>6. Types'
  BY <1>3, <1>5 DEF Types, Names
<1>7. Capped'
  <2>1. Behind(cur)' \subseteq Behind(cur) /\ Behind(old)' \subseteq Behind(old) /\ Coming' \subseteq Coming
    BY <1>0, <1>1, <1>2, <1>3 DEF Behind, Coming
  <2>2. Behind(cur) \cup Coming \subseteq Writer /\ Behind(old) \subseteq Writer
    BY DEF Behind, Coming
  <2> DEFINE S == Behind(cur) \cup Coming  T == Behind(cur)' \cup Coming'
             U == Behind(old)  V == Behind(old)'
  <2>3. T \subseteq S /\ S \subseteq Writer /\ V \subseteq U /\ U \subseteq Writer
    BY <2>1, <2>2
  <2>4. InFile(cur)' = InFile(cur) /\ InFile(old)' = InFile(old)
    BY <1>3, <1>4 DEF InFile
  <2>5. InFile(cur) \in Seq(Nat) /\ InFile(old) \in Seq(Nat)
    BY DEF Types, Names, InFile
  <2>6. ~failed => Len(InFile(cur)) + Cardinality(S) <= Room /\ Len(InFile(old)) + Cardinality(U) <= Room
    BY DEF Capped
  <2>7. (~failed' => Len(InFile(cur)') + Cardinality(T) <= Room /\ Len(InFile(old)') + Cardinality(V) <= Room)
        => Capped'
    BY DEF Capped, Room
  <2> HIDE DEF S, T, U, V
  <2>8. Cardinality(T) <= Cardinality(S) /\ Cardinality(V) <= Cardinality(U)
    BY <2>3, Fewer
  <2>9. Cardinality(T) \in Nat /\ Cardinality(S) \in Nat /\ Cardinality(V) \in Nat /\ Cardinality(U) \in Nat
    BY <2>3, Counted
  <2>10. Len(InFile(cur)) \in Nat /\ Len(InFile(old)) \in Nat /\ Room \in Nat
    BY <2>5, Sizes
  <2> QED
    BY <1>3, <2>4, <2>6, <2>7, <2>8, <2>9, <2>10
<1>8. Ordered'
  <2> SUFFICES ASSUME ~overlap' PROVE Alone' /\ Steady' /\ Numbered' /\ HalfRead'
    BY DEF Ordered
  <2>1. Alone' /\ Steady /\ Numbered /\ HalfRead
    BY DEF Ordered
  <2>2. Steady'
    BY <1>0, <1>1, <1>2, <1>3, <2>1 DEF Steady, InFile
  <2>3. InFile(cur)' = InFile(cur) /\ InFile(old)' = InFile(old)
    BY <1>3, <1>4 DEF InFile
  <2>4. Numbered'
    BY <1>3, <2>1, <2>3 DEF Numbered, EndsAt
  <2>5. HalfRead'
    BY <1>3, <2>1, <2>3 DEF HalfRead, EndsAt
  <2> QED
    BY <2>1, <2>2, <2>4, <2>5
<1> QED
  BY <1>6, <1>7, <1>8

-----------------------------------------------------------------------------
(* The steps of append.                                                    *)

LEMMA SeqFacts ==
    ASSUME Types
    PROVE  /\ InFile(cur) \in Seq(Nat) /\ InFile(old) \in Seq(Nat)
           /\ Len(InFile(cur)) \in Nat /\ Len(InFile(old)) \in Nat
           /\ cur = NoFile => Len(InFile(cur)) = 0
<1>1. InFile(cur) \in Seq(Nat) /\ InFile(old) \in Seq(Nat)
  BY DEF Types, Names, InFile
<1>2. cur = NoFile => InFile(cur) = <<>>
  BY DEF InFile
<1> QED
  BY <1>1, <1>2

\* Capped in the next state, from the sets and lengths it counts.
LEMMA CappedNext ==
    ASSUME NEW S, NEW U, NEW a, NEW b,
           Behind(cur)' \cup Coming' = S, Behind(old)' = U, Len(InFile(cur)') = b, Len(InFile(old)') = a,
           ~failed' => b + Cardinality(S) <= Room /\ a + Cardinality(U) <= Room
    PROVE  Capped'
BY DEF Capped, Room

LEMMA EndsAtAppend ==
    ASSUME NEW s \in Seq(Nat), NEW top \in Nat, EndsAt(s, top)
    PROVE  /\ EndsAt(Append(s, top + 1), top + 1)
           /\ Append(s, top + 1) \in Seq(Nat) /\ Len(Append(s, top + 1)) = Len(s) + 1
<1>1. /\ Append(s, top + 1) \in Seq(Nat) /\ Len(Append(s, top + 1)) = Len(s) + 1 /\ Len(s) \in Nat
      /\ \A i \in 1 .. Len(s) : Append(s, top + 1)[i] = s[i]
      /\ Append(s, top + 1)[Len(s) + 1] = top + 1
  OBVIOUS
<1>2. ASSUME NEW i \in 1 .. Len(s) + 1
      PROVE  Append(s, top + 1)[i] = top + 1 - (Len(s) + 1 - i)
  <2>1. CASE i \in 1 .. Len(s)
    <3>1. Append(s, top + 1)[i] = top - (Len(s) - i)
      BY <1>1, <2>1 DEF EndsAt
    <3> QED
      BY <1>1, <2>1, <3>1
  <2>2. CASE i = Len(s) + 1
    BY <1>1, <2>2
  <2> QED
    BY <1>1, <2>1, <2>2
<1> QED
  BY <1>1, <1>2 DEF EndsAt

LEMMA ReadKept ==
    ASSUME ReadSound, UNCHANGED reader, ~overlap' => ~overlap, ~rotated' => ~rotated
    PROVE  ReadSound'
BY DEF ReadSound, reader

LEMMA StatKeeps ==
    ASSUME IInv, NEW w \in Writer, Stat(w)
    PROVE  IInv'
<1> DEFINE l == IF Full THEN "rename" ELSE "open"
<1>0. Types /\ Writers /\ Capped /\ Ordered /\ ReadSound
  BY DEF IInv, Types
<1>1. /\ Goto(w, l) /\ l \in Places /\ pc[w] = "stat"
      /\ cur' = cur /\ old' = old /\ content' = content /\ lines' = lines /\ handle' = handle
      /\ out' = out /\ rpc' = rpc /\ overlap' = overlap /\ failed' = failed /\ rotated' = rotated
  BY DEF Stat, Places, files, reader, hist
<1>2. pc'[w] = l /\ \A v \in Writer \ {w} : pc'[v] = pc[v]
  BY <1>0, <1>1, Moved
<1>f. InFile(cur)' = InFile(cur) /\ InFile(old)' = InFile(old)
  BY <1>1 DEF InFile
<1>3. Writers'
  <2>1. pc' \in [Writer -> Places]
    BY <1>0, <1>1 DEF Writers, Goto
  <2> QED
    BY <2>1, <1>0, <1>1, <1>2 DEF Writers
<1>4. Types'
  BY <1>0, <1>1, <1>3 DEF Types, Names
<1>5. Capped'
  <2>1. Behind(cur)' = Behind(cur) /\ Behind(old)' = Behind(old)
    BY <1>1, <1>2 DEF Behind
  <2> DEFINE S == Behind(cur) \cup Coming  T == Behind(cur) \cup Coming'
  <2>2. S \subseteq Writer /\ T \subseteq Writer
    BY DEF Behind, Coming
  <2>3. Full => T = S
    BY <1>1, <1>2 DEF Coming
  <2>4. ~Full => Len(InFile(cur)) < MAX
    BY <1>0, SeqFacts, Sizes DEF Full
  <2>5. Behind(cur)' \cup Coming' = T
    BY <2>1
  <2>6. ~failed => Len(InFile(cur)) + Cardinality(S) <= Room /\ Len(InFile(old)) + Cardinality(Behind(old)) <= Room
    BY <1>0 DEF Capped
  <2> HIDE DEF S, T
  <2>7. Cardinality(T) \in Nat /\ Cardinality(T) <= Cardinality(Writer)
    BY <2>2, Counted
  <2>8. ~failed => Len(InFile(cur)) + Cardinality(T) <= Room
    <3>1. CASE Full
      BY <2>3, <2>6, <3>1
    <3>2. CASE ~Full
      <4>1. Len(InFile(cur)) < MAX /\ Len(InFile(cur)) \in Nat
        BY <1>0, <2>4, <3>2, SeqFacts
      <4> QED
        BY <2>7, <4>1, Sizes DEF Room
    <3> QED
      BY <3>1, <3>2
  <2> QED
    BY <1>1, <1>f, <2>1, <2>5, <2>6, <2>8, CappedNext
<1>6. ~overlap' => ~overlap /\ Alone'
  BY <1>0, <1>1, StaysAlone DEF Appending
<1>7. Ordered'
  <2> SUFFICES ASSUME ~overlap' PROVE Alone' /\ Steady' /\ Numbered' /\ HalfRead'
    BY DEF Ordered
  <2>1. Alone' /\ Steady /\ Numbered /\ HalfRead
    BY <1>0, <1>6 DEF Ordered
  <2>2. Steady'
    <3>1. Full => Len(InFile(cur)) >= MAX
      BY DEF Full
    <3> QED
      BY <1>1, <1>2, <1>f, <2>1, <3>1 DEF Steady
  <2>3. Numbered'
    BY <1>1, <1>f, <2>1 DEF Numbered, EndsAt
  <2>4. HalfRead'
    BY <1>1, <1>f, <2>1 DEF HalfRead, EndsAt
  <2> QED
    BY <2>1, <2>2, <2>3, <2>4
<1>8. ReadSound'
  BY <1>0, <1>1, ReadKept DEF reader
<1> QED
  BY <1>4, <1>5, <1>7, <1>8 DEF IInv

LEMMA RenameFailsKeeps ==
    ASSUME IInv, NEW w \in Writer, RenameFails(w)
    PROVE  IInv'
<1>0. Types /\ Writers /\ Capped /\ Ordered /\ ReadSound
  BY DEF IInv, Types
<1>1. /\ Goto(w, "open") /\ "open" \in Places /\ pc[w] = "rename" /\ failed'
      /\ cur' = cur /\ old' = old /\ content' = content /\ lines' = lines /\ handle' = handle
      /\ out' = out /\ rpc' = rpc /\ overlap' = overlap /\ rotated' = rotated
  BY DEF RenameFails, Places, files, reader
<1>2. pc'[w] = "open" /\ \A v \in Writer \ {w} : pc'[v] = pc[v]
  BY <1>0, <1>1, Moved
<1>f. InFile(cur)' = InFile(cur) /\ InFile(old)' = InFile(old)
  BY <1>1 DEF InFile
<1>3. Writers'
  <2>1. pc' \in [Writer -> Places]
    BY <1>0, <1>1 DEF Writers, Goto
  <2> QED
    BY <2>1, <1>0, <1>1, <1>2 DEF Writers
<1>4. Types'
  BY <1>0, <1>1, <1>3 DEF Types, Names
<1>5. Capped'
  BY <1>1 DEF Capped
<1>6. ~overlap' => ~overlap /\ Alone'
  BY <1>0, <1>1, StaysAlone DEF Appending
<1>7. Ordered'
  <2> SUFFICES ASSUME ~overlap' PROVE Alone' /\ Steady' /\ Numbered' /\ HalfRead'
    BY DEF Ordered
  <2>1. Alone' /\ Steady /\ Numbered /\ HalfRead
    BY <1>0, <1>6 DEF Ordered
  <2>2. Steady'
    BY <1>1, <1>2, <1>f, <2>1 DEF Steady
  <2>3. Numbered'
    BY <1>1, <1>f, <2>1 DEF Numbered, EndsAt
  <2>4. HalfRead'
    BY <1>1, <1>f, <2>1 DEF HalfRead, EndsAt
  <2> QED
    BY <2>1, <2>2, <2>3, <2>4
<1>8. ReadSound'
  BY <1>0, <1>1, ReadKept DEF reader
<1> QED
  BY <1>4, <1>5, <1>7, <1>8 DEF IInv

LEMMA RenameKeeps ==
    ASSUME IInv, NEW w \in Writer, Rename(w)
    PROVE  IInv'
<1>0. Types /\ Writers /\ Capped /\ Ordered /\ ReadSound
  BY DEF IInv, Types
<1>1. /\ Goto(w, "open") /\ "open" \in Places /\ pc[w] = "rename"
      /\ content' = content /\ lines' = lines /\ handle' = handle
      /\ out' = out /\ rpc' = rpc /\ overlap' = overlap /\ failed' = failed
  BY DEF Rename, Places, reader
<1>r. \/ cur # NoFile /\ old' = cur /\ cur' = NoFile /\ rotated'
      \/ cur = NoFile /\ old' = old /\ cur' = NoFile /\ rotated' = rotated
  BY DEF Rename
<1>2. pc'[w] = "open" /\ \A v \in Writer \ {w} : pc'[v] = pc[v]
  BY <1>0, <1>1, Moved
<1>f. InFile(cur)' = <<>> /\ InFile(old)' = InFile(IF cur = NoFile THEN old ELSE cur)
  BY <1>1, <1>r DEF InFile
<1>l. Len(InFile(cur)') = 0
  BY <1>f
<1>3. Writers'
  <2>1. pc' \in [Writer -> Places]
    BY <1>0, <1>1 DEF Writers, Goto
  <2> QED
    BY <2>1, <1>0, <1>1, <1>2 DEF Writers
<1>4. Types'
  BY <1>0, <1>1, <1>r, <1>3 DEF Types, Names
<1>5. Capped'
  <2> DEFINE S == Behind(cur)' \cup Coming'  U == Behind(old)'
  <2>1. S \subseteq Writer /\ U \subseteq Writer
    BY DEF Behind, Coming
  <2>2. U = Behind(IF cur = NoFile THEN old ELSE cur)
    BY <1>1, <1>2, <1>r DEF Behind
  <2>3. ~failed => Len(InFile(old)') + Cardinality(U) <= Room
    <3>1. CASE cur = NoFile
      BY <1>0, <1>f, <2>2, <3>1 DEF Capped
    <3>2. CASE cur # NoFile
      <4> DEFINE T == Behind(cur) \cup Coming
      <4>1. T \subseteq Writer /\ U \subseteq T
        BY <2>2, <3>2 DEF Behind, Coming
      <4>2. ~failed => Len(InFile(cur)) + Cardinality(T) <= Room
        BY <1>0 DEF Capped
      <4>3. InFile(old)' = InFile(cur) /\ Len(InFile(cur)) \in Nat
        BY <1>0, <1>f, <3>2, SeqFacts
      <4> HIDE DEF T, U
      <4>4. Cardinality(U) <= Cardinality(T) /\ Cardinality(U) \in Nat /\ Cardinality(T) \in Nat
        BY <2>1, <4>1, Fewer, Counted
      <4> QED
        BY <4>2, <4>3, <4>4, Sizes
    <3> QED
      BY <3>1, <3>2
  <2>4. Behind(cur)' \cup Coming' = S /\ Behind(old)' = U
    OBVIOUS
  <2> HIDE DEF S, U
  <2>5. 0 + Cardinality(S) <= Room
    BY <2>1, Counted, Sizes
  <2> QED
    BY <1>1, <1>l, <2>3, <2>4, <2>5, CappedNext
<1>6. ~overlap' => ~overlap /\ Alone'
  BY <1>0, <1>1, StaysAlone DEF Appending
<1>7. Ordered'
  <2> SUFFICES ASSUME ~overlap' PROVE Alone' /\ Steady' /\ Numbered' /\ HalfRead'
    BY DEF Ordered
  <2>1. Alone' /\ Alone /\ Steady /\ Numbered /\ HalfRead
    BY <1>0, <1>6 DEF Ordered
  \* The only writer is here, with what Stat saw: FILE is there and full.
  <2>2. Len(InFile(cur)) >= MAX
    BY <1>1, <2>1 DEF Steady
  <2>3. cur # NoFile
    BY <1>0, <2>2, SeqFacts, Sizes
  <2>4. old' = cur /\ cur' = NoFile /\ rotated' /\ InFile(old)' = InFile(cur)
    BY <1>r, <1>f, <2>3
  <2>5. \A v \in Writer \ {w} : ~Appending(v)
    BY <1>1, <2>1 DEF Alone, Appending
  <2>6. Steady'
    BY <1>1, <1>2, <2>5 DEF Steady, Appending
  <2>7. Numbered'
    <3>1. EndsAt(InFile(cur), lines) /\ Len(InFile(cur)) <= lines
      <4>1. Len(InFile(old)) \in Nat /\ Len(InFile(cur)) \in Nat /\ lines \in Nat
        BY <1>0, SeqFacts DEF Types, Names
      <4> QED
        BY <4>1, <2>1 DEF Numbered
    <3>2. lines - 0 = lines /\ Len(InFile(cur)) + 0 = Len(InFile(cur))
      BY <1>0, SeqFacts DEF Types, Names
    <3>3. EndsAt(InFile(cur)', lines')
      BY <1>l DEF EndsAt
    <3>4. EndsAt(InFile(old)', lines' - Len(InFile(cur)'))
      BY <1>1, <1>l, <2>4, <3>1, <3>2
    <3> QED
      BY <1>1, <1>l, <2>2, <2>4, <3>1, <3>2, <3>3, <3>4 DEF Numbered
  <2>8. HalfRead'
    <3> SUFFICES ASSUME rpc' = "half"
                 PROVE  \E top \in Int : top <= lines' - Len(InFile(cur)') /\ EndsAt(out', top)
      BY <2>4 DEF HalfRead
    <3>1. PICK top \in Int : top <= lines - Len(InFile(cur)) /\ EndsAt(out, top)
      BY <1>1, <2>1 DEF HalfRead
    <3>2. top <= lines - 0
      BY <1>0, <3>1, SeqFacts DEF Types, Names
    <3> QED
      BY <1>1, <1>l, <3>1, <3>2
  <2> QED
    BY <2>1, <2>6, <2>7, <2>8
<1>8. ReadSound'
  <2>1. ~rotated' => ~rotated
    BY <1>r
  <2> QED
    BY <1>0, <1>1, <2>1, ReadKept DEF reader
<1> QED
  BY <1>4, <1>5, <1>7, <1>8 DEF IInv

LEMMA OpenKeeps ==
    ASSUME IInv, NEW w \in Writer, Open(w)
    PROVE  IInv'
<1>0. Types /\ Writers /\ Capped /\ Ordered /\ ReadSound
  BY DEF IInv, Types
<1>1. /\ Goto(w, "write") /\ "write" \in Places /\ pc[w] = "open"
      /\ handle' = [handle EXCEPT ![w] = cur']
      /\ old' = old /\ lines' = lines
      /\ out' = out /\ rpc' = rpc /\ overlap' = overlap /\ failed' = failed /\ rotated' = rotated
  BY DEF Open, Places, reader, hist
<1>2. pc'[w] = "write" /\ \A v \in Writer \ {w} : pc'[v] = pc[v]
  BY <1>0, <1>1, Moved
<1>3. handle'[w] = cur' /\ \A v \in Writer \ {w} : handle'[v] = handle[v]
  BY <1>0, <1>1 DEF Writers
<1>o. \/ cur # NoFile /\ cur' = cur /\ content' = content
      \/ /\ cur = NoFile /\ cur' \in File /\ cur' # old /\ \A v \in Writer : handle[v] # cur'
         /\ content' = [content EXCEPT ![cur'] = <<>>]
  BY <1>0, <1>1, NewFileFree DEF Open
<1>c. cur' \in File /\ cur' # NoFile /\ cur' # old
  BY <1>0, <1>o, Sizes DEF Types, Names
<1>f. Len(InFile(cur)') = Len(InFile(cur)) /\ InFile(cur)' = InFile(cur) /\ InFile(old)' = InFile(old)
  <2>1. CASE cur # NoFile
    BY <1>1, <1>o, <2>1 DEF InFile
  <2>2. CASE cur = NoFile
    <3>1. content'[cur'] = <<>> /\ (old # NoFile => content'[old] = content[old])
      BY <1>0, <1>o, <2>2 DEF Types, Names
    <3> QED
      BY <1>1, <1>c, <2>2, <3>1 DEF InFile
  <2> QED
    BY <2>1, <2>2
<1>4. Types'
  <2>1. pc' \in [Writer -> Places]
    BY <1>0, <1>1 DEF Writers, Goto
  <2>2. handle' \in [Writer -> File \cup {NoFile}]
    BY <1>0, <1>1, <1>c DEF Writers
  <2>3. Writers'
    BY <2>1, <2>2, <1>0, <1>c, <1>2, <1>3 DEF Writers
  <2>4. content' \in [File -> Seq(Nat)]
    <3>1. <<>> \in Seq(Nat) /\ content \in [File -> Seq(Nat)]
      BY <1>0, EmptySeq DEF Types, Names
    <3> QED
      BY <1>o, <3>1
  <2> QED
    BY <1>0, <1>1, <1>c, <2>3, <2>4 DEF Types, Names
<1>5. Capped'
  <2> DEFINE S == Behind(cur)' \cup Coming'  U == Behind(old)'  T == Behind(cur) \cup Coming
  <2>1. S \subseteq Writer /\ T \subseteq Writer
    BY DEF Behind, Coming
  <2>2. U = Behind(old)
    BY <1>1, <1>2, <1>3, <1>c DEF Behind
  <2>3. cur # NoFile => S = T
    <3> SUFFICES ASSUME cur # NoFile PROVE S = T
      OBVIOUS
    <3>1. cur' = cur
      BY <1>o
    <3>2. ASSUME NEW v PROVE v \in S <=> v \in T
      BY <1>1, <1>2, <1>3, <3>1 DEF Behind, Coming
    <3> QED
      BY <3>2
  <2>4. ~failed => /\ Len(InFile(cur)) + Cardinality(T) <= Room
                   /\ Len(InFile(old)) + Cardinality(Behind(old)) <= Room
    BY <1>0 DEF Capped
  <2>5. Behind(cur)' \cup Coming' = S /\ Behind(old)' = U
    OBVIOUS
  <2> HIDE DEF S, T, U
  <2>6. ~failed => Len(InFile(cur)) + Cardinality(S) <= Room
    <3>1. CASE cur # NoFile
      BY <2>3, <2>4, <3>1
    <3>2. CASE cur = NoFile
      BY <1>0, <2>1, <3>2, Counted, SeqFacts, Sizes
    <3> QED
      BY <3>1, <3>2
  <2> QED
    BY <1>1, <1>f, <2>2, <2>4, <2>5, <2>6, CappedNext
<1>6. ~overlap' => ~overlap /\ Alone'
  BY <1>0, <1>1, StaysAlone DEF Appending
<1>7. Ordered'
  <2> SUFFICES ASSUME ~overlap' PROVE Alone' /\ Steady' /\ Numbered' /\ HalfRead'
    BY DEF Ordered
  <2>1. Alone' /\ Alone /\ Steady /\ Numbered /\ HalfRead
    BY <1>0, <1>6 DEF Ordered
  <2>2. \A v \in Writer \ {w} : ~Appending(v)
    BY <1>1, <2>1 DEF Alone, Appending
  <2>3. Steady'
    BY <1>2, <1>3, <2>2 DEF Steady, Appending
  <2>4. Numbered'
    BY <1>1, <1>f, <2>1 DEF Numbered, EndsAt
  <2>5. HalfRead'
    BY <1>1, <1>f, <2>1 DEF HalfRead, EndsAt
  <2> QED
    BY <2>1, <2>3, <2>4, <2>5
<1>8. ReadSound'
  BY <1>0, <1>1, ReadKept DEF reader
<1> QED
  BY <1>4, <1>5, <1>7, <1>8 DEF IInv

LEMMA WriteKeeps ==
    ASSUME IInv, NEW w \in Writer, Write(w)
    PROVE  IInv'
<1> DEFINE f == handle[w]
<1>0. Types /\ Writers /\ Capped /\ Ordered /\ ReadSound
  BY DEF IInv, Types
<1>1. /\ Goto(w, After(w)) /\ After(w) \in Away /\ After(w) \in Places /\ pc[w] = "write"
      /\ handle' = [handle EXCEPT ![w] = NoFile]
      /\ cur' = cur /\ old' = old /\ lines' = lines + 1
      /\ content' = [content EXCEPT ![f] = Append(@, lines + 1)]
      /\ out' = out /\ rpc' = rpc /\ overlap' = overlap /\ failed' = failed /\ rotated' = rotated
  BY DEF Write, After, Places, Away, reader, hist
<1>t. f \in File /\ f # NoFile /\ lines \in Nat /\ content \in [File -> Seq(Nat)]
  BY <1>0, <1>1, Sizes DEF Types, Names, Writers
<1>2. pc'[w] = After(w) /\ \A v \in Writer \ {w} : pc'[v] = pc[v]
  BY <1>0, <1>1, Moved
<1>3. handle'[w] = NoFile /\ \A v \in Writer \ {w} : handle'[v] = handle[v]
  BY <1>0, <1>1 DEF Writers
<1>a. content[f] \in Seq(Nat) /\ Append(content[f], lines + 1) \in Seq(Nat)
      /\ Len(Append(content[f], lines + 1)) = Len(content[f]) + 1
  BY <1>t
<1>c. content' \in [File -> Seq(Nat)] /\ content'[f] = Append(content[f], lines + 1)
      /\ \A g \in File \ {f} : content'[g] = content[g]
  BY <1>1, <1>t, <1>a
<1>u. cur \in File \cup {NoFile} /\ old \in File \cup {NoFile} /\ (cur = old => cur = NoFile)
  BY <1>0 DEF Types, Names
<1>f. /\ InFile(cur)' = IF f = cur THEN Append(InFile(cur), lines + 1) ELSE InFile(cur)
      /\ InFile(old)' = IF f = old THEN Append(InFile(old), lines + 1) ELSE InFile(old)
  BY <1>1, <1>t, <1>c, <1>u DEF InFile
<1>l. /\ Len(InFile(cur)') = IF f = cur THEN Len(InFile(cur)) + 1 ELSE Len(InFile(cur))
      /\ Len(InFile(old)') = IF f = old THEN Len(InFile(old)) + 1 ELSE Len(InFile(old))
  <2>1. f = cur => InFile(cur) = content[f]
    BY <1>t DEF InFile
  <2>2. f = old => InFile(old) = content[f]
    BY <1>t DEF InFile
  <2> QED
    BY <1>f, <1>a, <2>1, <2>2
<1>4. Types'
  <2>1. pc' \in [Writer -> Places] /\ handle' \in [Writer -> File \cup {NoFile}]
    BY <1>0, <1>1 DEF Writers, Goto
  <2>2. Writers'
    BY <2>1, <1>0, <1>1, <1>2, <1>3 DEF Writers, Away
  <2> QED
    BY <1>0, <1>1, <1>c, <1>t, <2>2 DEF Types, Names
<1>5. Capped'
  <2> DEFINE S == Behind(cur)' \cup Coming'  U == Behind(old)'
             T == Behind(cur) \cup Coming     V == Behind(old)
  <2>1. T \subseteq Writer /\ V \subseteq Writer
    BY DEF Behind, Coming
  <2>2. S = T \ {w} /\ (f = cur => w \in T)
    <3>1. ASSUME NEW v PROVE v \in S <=> v \in T \ {w}
      BY <1>1, <1>2, <1>3 DEF Behind, Coming, Away
    <3> QED
      BY <1>1, <3>1 DEF Behind
  <2>3. U = V \ {w} /\ (f = old => w \in V)
    <3>1. ASSUME NEW v PROVE v \in U <=> v \in V \ {w}
      BY <1>1, <1>2, <1>3 DEF Behind, Away
    <3> QED
      BY <1>1, <3>1 DEF Behind
  <2>4. ~failed => Len(InFile(cur)) + Cardinality(T) <= Room /\ Len(InFile(old)) + Cardinality(V) <= Room
    BY <1>0 DEF Capped
  <2>5. Behind(cur)' \cup Coming' = S /\ Behind(old)' = U
    OBVIOUS
  <2> HIDE DEF S, T, U, V, f
  <2>6. Cardinality(T) \in Nat /\ Cardinality(V) \in Nat
    BY <2>1, Counted
  <2>7. Cardinality(S) \in Nat /\ Cardinality(S) <= Cardinality(T) /\ (f = cur => Cardinality(S) = Cardinality(T) - 1)
    BY <2>1, <2>2, Counted, Fewer, OneLess
  <2>8. Cardinality(U) \in Nat /\ Cardinality(U) <= Cardinality(V) /\ (f = old => Cardinality(U) = Cardinality(V) - 1)
    BY <2>1, <2>3, Counted, Fewer, OneLess
  <2>9. Len(InFile(cur)) \in Nat /\ Len(InFile(old)) \in Nat /\ Room \in Nat
    BY <1>0, SeqFacts, Sizes
  <2>10. ~failed => Len(InFile(cur)') + Cardinality(S) <= Room
    BY <1>l, <2>4, <2>6, <2>7, <2>9
  <2>11. ~failed => Len(InFile(old)') + Cardinality(U) <= Room
    BY <1>l, <2>4, <2>6, <2>8, <2>9
  <2> QED
    BY <1>1, <2>5, <2>10, <2>11, CappedNext
<1>6. ~overlap' => ~overlap /\ Alone'
  BY <1>0, <1>1, StaysAlone DEF Appending
<1>7. Ordered'
  <2> SUFFICES ASSUME ~overlap' PROVE Alone' /\ Steady' /\ Numbered' /\ HalfRead'
    BY DEF Ordered
  <2>1. Alone' /\ Alone /\ Steady /\ Numbered /\ HalfRead
    BY <1>0, <1>6 DEF Ordered
  <2>2. f = cur /\ f # old
    BY <1>1, <1>t, <1>u, <2>1 DEF Steady
  <2>3. \A v \in Writer \ {w} : ~Appending(v)
    BY <1>1, <2>1 DEF Alone, Appending
  <2>4. Steady'
    BY <1>1, <1>2, <2>3 DEF Steady, Appending, Away
  <2>5. InFile(cur)' = Append(InFile(cur), lines + 1) /\ InFile(old)' = InFile(old)
    BY <1>f, <2>2
  <2>6. Len(InFile(cur)') = Len(InFile(cur)) + 1 /\ Len(InFile(old)') = Len(InFile(old))
        /\ Len(InFile(cur)) \in Nat /\ Len(InFile(old)) \in Nat /\ MAX \in Nat
    BY <1>0, <1>l, <2>2, SeqFacts, Sizes
  <2>7. lines' - Len(InFile(cur)') = lines - Len(InFile(cur))
    BY <1>1, <1>t, <2>6
  <2>8. Numbered'
    <3>1. EndsAt(InFile(cur)', lines')
      <4>1. EndsAt(InFile(cur), lines) /\ InFile(cur) \in Seq(Nat)
        BY <1>0, <2>1, SeqFacts DEF Numbered
      <4>2. EndsAt(Append(InFile(cur), lines + 1), lines + 1)
        BY <1>t, <4>1, EndsAtAppend
      <4> QED
        BY <1>1, <2>5, <4>2
    <3>2. EndsAt(InFile(old)', lines' - Len(InFile(cur)'))
      BY <2>1, <2>5, <2>7 DEF Numbered
    <3> DEFINE a == Len(InFile(old))  b == Len(InFile(cur))
    <3>3. a + b <= lines /\ (a + b = lines \/ a + b >= MAX)
      BY <2>1 DEF Numbered
    <3>4. a + (b + 1) <= lines + 1 /\ (a + (b + 1) = lines + 1 \/ a + (b + 1) >= MAX)
      BY <1>t, <2>6, <3>3
    <3> QED
      BY <1>1, <2>6, <3>1, <3>2, <3>4 DEF Numbered
  <2>9. HalfRead'
    BY <1>1, <2>1, <2>7 DEF HalfRead, EndsAt
  <2> QED
    BY <2>1, <2>4, <2>8, <2>9
<1>8. ReadSound'
  BY <1>0, <1>1, ReadKept DEF reader
<1> QED
  BY <1>4, <1>5, <1>7, <1>8 DEF IInv

-----------------------------------------------------------------------------
(* The daemon, the loggers and the reader.                                 *)

LEMMA TurnsKeep ==
    ASSUME IInv, NEW w \in Writer, NEW l, Turns(w, l), UNCHANGED <<reader, rotated>>,
           \/ (Appending(w) \/ l \in Away) /\ overlap' = overlap
           \/ Begin(w)
    PROVE  IInv'
<1>0. Types /\ Writers /\ Capped /\ Ordered /\ ReadSound
  BY DEF IInv, Types
<1>1. Goto(w, l) /\ l \in Places
  BY DEF Turns, Places
<1>2. ~overlap' => ~overlap /\ Alone'
  BY <1>0, <1>1, StaysAlone
<1>3. Types' /\ Capped' /\ Ordered'
  BY <1>0, <1>2, TurnKeeps
<1>4. ReadSound'
  BY <1>0, <1>2, ReadKept
<1> QED
  BY <1>3, <1>4 DEF IInv

\* A writer that is not writing has no file to let go of.
LEMMA NoHandle ==
    ASSUME IInv, NEW w \in Writer, pc[w] # "write", handle' = handle
    PROVE  handle' = [handle EXCEPT ![w] = NoFile]
<1>1. handle \in [Writer -> File \cup {NoFile}] /\ handle[w] = NoFile
  BY DEF IInv, Types, Writers
<1> QED
  BY <1>1

LEMMA Joined ==
    ASSUME NEW s \in Seq(Nat), NEW t \in Seq(Nat), NEW top \in Int, NEW n \in Int,
           EndsAt(s, top), EndsAt(t, n), top <= n - Len(t)
    PROVE  /\ s \o t \in Seq(Nat) /\ Len(s \o t) = Len(s) + Len(t)
           /\ Rising(s \o t)
           /\ top = n - Len(t) => /\ Contiguous(s \o t)
                                  /\ \A i \in 1 .. Len(s) + Len(t) : (s \o t)[i] = n - ((Len(s) + Len(t)) - i)
<1> DEFINE u == s \o t  a == Len(s)  b == Len(t)
<1>1. /\ u \in Seq(Nat) /\ Len(u) = a + b /\ a \in Nat /\ b \in Nat
      /\ \A i \in 1 .. a + b : u[i] = IF i <= a THEN s[i] ELSE t[i - a]
  BY ConcatProperties
<1>2. ASSUME NEW i \in 1 .. a + b
      PROVE  /\ i <= a => u[i] = top - (a - i)
             /\ i > a => u[i] = n - (b - (i - a))
  <2>1. CASE i <= a
    <3>1. u[i] = s[i] /\ i \in 1 .. a
      BY <1>1, <2>1
    <3> QED
      BY <1>1, <2>1, <3>1 DEF EndsAt
  <2>2. CASE i > a
    <3>1. u[i] = t[i - a] /\ i - a \in 1 .. b
      BY <1>1, <2>2
    <3> QED
      BY <1>1, <2>2, <3>1 DEF EndsAt
  <2> QED
    BY <1>1, <2>1, <2>2
<1> HIDE DEF u, a, b
<1>3. top <= n - b
  BY DEF b
<1>4. ASSUME NEW i \in 1 .. Len(u) - 1
      PROVE  u[i] < u[i + 1] /\ (top = n - b => u[i + 1] = u[i] + 1)
  <2>1. i \in 1 .. a + b /\ i + 1 \in 1 .. a + b
    BY <1>1
  <2>2. CASE i + 1 <= a
    BY <1>1, <1>2, <2>1, <2>2
  <2>3. CASE i = a
    <3>1. u[i] = top - (a - i) /\ u[i + 1] = n - (b - (i + 1 - a))
      BY <1>1, <1>2, <2>1, <2>3
    <3>2. u[i] = top /\ u[i + 1] = n - b + 1
      BY <1>1, <2>3, <3>1
    <3> QED
      BY <1>1, <1>3, <3>2
  <2>4. CASE i > a
    BY <1>1, <1>2, <2>1, <2>4
  <2> QED
    BY <1>1, <2>2, <2>3, <2>4
<1>5. Rising(u) /\ (top = n - b => Contiguous(u))
  BY <1>4 DEF Rising, Contiguous
<1>6. top = n - b => \A i \in 1 .. a + b : u[i] = n - ((a + b) - i)
  BY <1>1, <1>2
<1> QED
  BY <1>1, <1>5, <1>6 DEF u, a, b

\* A step that is not the writers'.
LEMMA ReaderKeeps ==
    ASSUME IInv, UNCHANGED <<files, pc, handle, overlap, failed>>,
           out' \in Seq(Nat), ~overlap => HalfRead', ReadSound'
    PROVE  IInv'
<1>1. Types /\ Capped /\ Ordered
  BY DEF IInv
<1>2. cur' = cur /\ old' = old /\ content' = content /\ lines' = lines /\ pc' = pc /\ handle' = handle
      /\ overlap' = overlap /\ failed' = failed
  BY DEF files
<1>3. InFile(cur)' = InFile(cur) /\ InFile(old)' = InFile(old)
  BY <1>2 DEF InFile
<1>4. Types'
  BY <1>1, <1>2 DEF Types, Names, Writers
<1>5. Behind(cur)' = Behind(cur) /\ Behind(old)' = Behind(old) /\ Coming' = Coming
  BY <1>2 DEF Behind, Coming
<1>6. Capped'
  BY <1>1, <1>2, <1>3, <1>5 DEF Capped, Room
<1>7. Ordered'
  <2> SUFFICES ASSUME ~overlap PROVE Alone' /\ Steady' /\ Numbered' /\ HalfRead'
    BY <1>2 DEF Ordered
  <2>1. Alone /\ Steady /\ Numbered
    BY <1>1 DEF Ordered
  <2>2. Alone'
    BY <1>2, <2>1 DEF Alone, Appending
  <2>3. Steady'
    BY <1>2, <1>3, <2>1 DEF Steady
  <2>4. Numbered'
    BY <1>2, <1>3, <2>1 DEF Numbered, EndsAt
  <2> QED
    BY <2>2, <2>3, <2>4
<1> QED
  BY <1>4, <1>6, <1>7 DEF IInv

LEMMA AsideKeeps ==
    ASSUME IInv, UNCHANGED <<files, pc, handle, reader, hist>>
    PROVE  IInv'
<1>1. out' = out /\ rpc' = rpc /\ overlap' = overlap /\ failed' = failed /\ rotated' = rotated
      /\ lines' = lines /\ InFile(cur)' = InFile(cur)
  BY DEF reader, hist, files, InFile
<1>2. out' \in Seq(Nat) /\ ReadSound
  BY <1>1 DEF IInv, Types
<1>3. ReadSound'
  BY <1>1, <1>2, ReadKept DEF reader
<1>4. ~overlap => HalfRead'
  <2> SUFFICES ASSUME ~overlap PROVE HalfRead'
    OBVIOUS
  <2>1. HalfRead
    BY DEF IInv, Ordered
  <2> QED
    BY <1>1, <2>1 DEF HalfRead, EndsAt
<1> QED
  BY <1>1, <1>2, <1>3, <1>4, ReaderKeeps

LEMMA ReadOldKeeps ==
    ASSUME IInv, ReadOld
    PROVE  IInv'
<1>1. /\ UNCHANGED <<files, pc, handle, overlap, failed>>
      /\ rpc' = "half" /\ out' = InFile(old) /\ rotated' = FALSE
      /\ lines' = lines /\ InFile(cur)' = InFile(cur)
  BY DEF ReadOld, files, InFile
<1>2. Types /\ out' \in Seq(Nat) /\ Len(InFile(cur)) \in Nat /\ lines \in Nat
  BY <1>1, SeqFacts DEF IInv, Types, Names
<1>3. ReadSound'
  BY <1>1 DEF ReadSound
<1>4. ~overlap => HalfRead'
  <2> SUFFICES ASSUME ~overlap PROVE HalfRead'
    OBVIOUS
  <2> DEFINE top == lines - Len(InFile(cur))
  <2>1. EndsAt(InFile(old), top)
    BY DEF IInv, Ordered, Numbered
  <2>2. top \in Int /\ top <= top
    BY <1>2
  <2>3. top = lines' - Len(InFile(cur)')
    BY <1>1
  <2> HIDE DEF top
  <2>4. /\ top <= lines' - Len(InFile(cur)')
        /\ ~rotated' => top = lines' - Len(InFile(cur)')
        /\ EndsAt(out', top)
    BY <1>1, <2>1, <2>2, <2>3
  <2> QED
    BY <2>2, <2>4 DEF HalfRead, EndsAt
<1> QED
  BY <1>1, <1>2, <1>3, <1>4, ReaderKeeps

LEMMA ReadFileKeeps ==
    ASSUME IInv, ReadFile
    PROVE  IInv'
<1>1. /\ UNCHANGED <<files, pc, handle, overlap, failed>>
      /\ rpc = "half" /\ rpc' = "done" /\ out' = out \o InFile(cur) /\ rotated' = rotated /\ overlap' = overlap
  BY DEF ReadFile, hist
<1>2. Types /\ out \in Seq(Nat) /\ InFile(cur) \in Seq(Nat) /\ lines \in Nat
  BY SeqFacts DEF IInv, Types, Names
<1>3. out' \in Seq(Nat)
  BY <1>1, <1>2, ConcatProperties
<1>4. HalfRead'
  BY <1>1 DEF HalfRead
<1>5. ReadSound'
  <2> SUFFICES ASSUME ~overlap PROVE Rising(out') /\ (~rotated => Contiguous(out'))
    BY <1>1 DEF ReadSound, Rising, Contiguous
  <2>1. EndsAt(InFile(cur), lines) /\ HalfRead
    BY DEF IInv, Ordered, Numbered
  <2>2. PICK top \in Int : /\ top <= lines - Len(InFile(cur))
                           /\ ~rotated => top = lines - Len(InFile(cur))
                           /\ EndsAt(out, top)
    BY <1>1, <2>1 DEF HalfRead
  <2>3. lines \in Int
    BY <1>2
  <2>4. /\ Rising(out \o InFile(cur))
        /\ top = lines - Len(InFile(cur)) => Contiguous(out \o InFile(cur))
    BY <1>2, <2>1, <2>2, <2>3, Joined
  <2> QED
    BY <1>1, <2>2, <2>4
<1> QED
  BY <1>1, <1>3, <1>4, <1>5, ReaderKeeps

LEMMA ReadEndsKeeps ==
    ASSUME IInv, ReadEnds
    PROVE  IInv'
<1>1. UNCHANGED <<files, pc, handle, overlap, failed>> /\ rpc' = "idle" /\ out' = <<>>
  BY DEF ReadEnds, hist
<1>2. out' \in Seq(Nat)
  BY <1>1, EmptySeq
<1>3. HalfRead' /\ ReadSound'
  BY <1>1 DEF HalfRead, ReadSound
<1> QED
  BY <1>1, <1>2, <1>3, ReaderKeeps

LEMMA NextKeeps == IInv /\ [Next]_vars => IInv'
<1> SUFFICES ASSUME IInv, [Next]_vars PROVE IInv'
  OBVIOUS
<1>0. /\ Writers /\ Daemon \in Writer /\ \A l \in Loggers : l \in Writer
      /\ "stat" \in Away \cup {"stat"} /\ \A l \in Away : l \in Away \cup {"stat"}
      /\ "poll" \in Away /\ "drain" \in Away /\ "down" \in Away
  BY Sizes DEF IInv, Types, Writer, Away
<1>1. ASSUME NEW w \in Writer, AppendStep(w) PROVE IInv'
  <2>1. CASE AppendFails(w)
    <3>1. Turns(w, After(w)) /\ UNCHANGED <<reader, rotated>> /\ Appending(w) /\ overlap' = overlap
      BY <2>1 DEF AppendFails, Turns, After, Away, Appending, hist
    <3> QED
      BY <3>1, TurnsKeep
  <2> QED
    BY <1>1, <2>1, StatKeeps, RenameKeeps, RenameFailsKeeps, OpenKeeps, WriteKeeps DEF AppendStep
<1>2. ASSUME NEW l \in Loggers, LogSend(l) PROVE IInv'
  BY <1>2, AsideKeeps DEF LogSend
<1>3. ASSUME NEW l \in Loggers, LogDirect(l) PROVE IInv'
  <2>1. handle' = [handle EXCEPT ![l] = NoFile]
    BY <1>0, <1>3, NoHandle DEF LogDirect
  <2>2. Turns(l, "stat") /\ UNCHANGED <<reader, rotated>> /\ Begin(l)
    BY <1>0, <1>3, <2>1 DEF LogDirect, Turns, Begin
  <2> QED
    BY <1>0, <2>2, TurnsKeep
<1>4. CASE DaemonStart
  <2>1. handle' = [handle EXCEPT ![Daemon] = NoFile]
    BY <1>0, <1>4, NoHandle DEF DaemonStart
  <2>2. Turns(Daemon, "poll") /\ UNCHANGED <<reader, rotated>> /\ overlap' = overlap
    BY <1>0, <1>4, <2>1 DEF DaemonStart, Turns, hist
  <2> QED
    BY <1>0, <2>2, TurnsKeep
<1>5. CASE Poll
  <2>1. handle' = [handle EXCEPT ![Daemon] = NoFile]
    BY <1>0, <1>5, NoHandle DEF Poll
  <2>2. UNCHANGED <<files, reader, failed, rotated>>
    BY <1>5 DEF Poll
  <2>3. CASE Begin(Daemon)
    <3>1. Turns(Daemon, "stat")
      BY <1>0, <2>1, <2>2, <2>3 DEF Turns, Begin
    <3> QED
      BY <1>0, <2>2, <2>3, <3>1, TurnsKeep
  <2>4. CASE Goto(Daemon, "drain") /\ overlap' = overlap
    <3>1. Turns(Daemon, "drain")
      BY <1>0, <2>1, <2>2, <2>4 DEF Turns
    <3> QED
      BY <1>0, <2>2, <2>4, <3>1, TurnsKeep
  <2> QED
    BY <1>5, <2>3, <2>4 DEF Poll
<1>6. CASE Drain
  <2>1. handle' = [handle EXCEPT ![Daemon] = NoFile]
    BY <1>0, <1>6, NoHandle DEF Drain
  <2>2. UNCHANGED <<files, handle, reader, failed, rotated>>
    BY <1>6 DEF Drain
  <2>3. CASE Begin(Daemon)
    <3>1. Turns(Daemon, "stat")
      BY <1>0, <2>1, <2>2, <2>3 DEF Turns, Begin
    <3> QED
      BY <1>0, <2>2, <2>3, <3>1, TurnsKeep
  <2>4. CASE Goto(Daemon, "poll") /\ overlap' = overlap
    <3>1. Turns(Daemon, "poll")
      BY <1>0, <2>1, <2>2, <2>4 DEF Turns
    <3> QED
      BY <1>0, <2>2, <2>4, <3>1, TurnsKeep
  <2>5. CASE UNCHANGED <<pc, overlap>>
    BY <2>2, <2>5, AsideKeeps DEF hist
  <2> QED
    BY <1>6, <2>3, <2>4, <2>5 DEF Drain
<1>7. CASE DaemonDies
  <2>1. Turns(Daemon, "down") /\ UNCHANGED <<reader, rotated>> /\ overlap' = overlap
    BY <1>0, <1>7 DEF DaemonDies, Turns, hist
  <2> QED
    BY <1>0, <2>1, TurnsKeep
<1>8. CASE KernelLogs
  BY <1>8, AsideKeeps DEF KernelLogs
<1>9. CASE UNCHANGED vars
  BY <1>9, AsideKeeps DEF vars
<1> QED
  BY <1>1, <1>2, <1>3, <1>4, <1>5, <1>6, <1>7, <1>8, <1>9, ReadOldKeeps, ReadFileKeeps, ReadEndsKeeps DEF Next

-----------------------------------------------------------------------------
(* What is proved.                                                         *)

LEMMA Invariance == Spec => []IInv
<1>1. Init => IInv
  BY InitIInv
<1>2. IInv /\ [Next]_vars => IInv'
  BY NextKeeps
<1> QED
  BY <1>1, <1>2, PTL DEF Spec

(* For any number of writers, whatever they do between the look at the     *)
(* size and the write, and for every MAX: FILE and OLD exceed the cap by   *)
(* less than one line for each writer, unless a rename fails (append).     *)
THEOREM LogCapped == Spec => []SizeCapped
<1>1. ASSUME IInv PROVE SizeCapped
  <2> SUFFICES ASSUME ~failed
               PROVE  Len(InFile(cur)) <= Room /\ Len(InFile(old)) <= Room
    BY DEF SizeCapped, Room
  <2> DEFINE S == Behind(cur) \cup Coming  U == Behind(old)
  <2>1. Len(InFile(cur)) + Cardinality(S) <= Room /\ Len(InFile(old)) + Cardinality(U) <= Room
    BY <1>1 DEF IInv, Capped
  <2>2. S \subseteq Writer /\ U \subseteq Writer
    BY DEF Behind, Coming
  <2>3. Len(InFile(cur)) \in Nat /\ Len(InFile(old)) \in Nat
    BY <1>1, SeqFacts DEF IInv
  <2> HIDE DEF S, U
  <2>4. Cardinality(S) \in Nat /\ Cardinality(U) \in Nat /\ Room \in Nat
    BY <2>2, Counted, Sizes
  <2> QED
    BY <2>1, <2>3, <2>4
<1> QED
  BY <1>1, Invariance, PTL

(* For every MAX and any number of lines: while appends do not overlap,    *)
(* OLD and FILE hold the last lines without a gap, all of them or at least *)
(* MAX, whenever the daemon dies and whichever rename, open or write fails *)
(* (append).                                                               *)
THEOREM LogRecent == Spec => []KeepsRecent
<1>1. ASSUME IInv PROVE KeepsRecent
  <2> SUFFICES ASSUME ~overlap
               PROVE  LET all == InFile(old) \o InFile(cur) IN
                      /\ Contiguous(all)
                      /\ lines > 0 => /\ Len(all) >= 1 /\ all[Len(all)] = lines
                                      /\ all[1] = 1 \/ Len(all) >= MAX
    BY DEF KeepsRecent
  <2> DEFINE s == InFile(old)  t == InFile(cur)  a == Len(s)  b == Len(t)
  <2>1. /\ EndsAt(s, lines - b) /\ EndsAt(t, lines)
        /\ a + b <= lines /\ (a + b = lines \/ a + b >= MAX)
    BY <1>1 DEF IInv, Ordered, Numbered
  <2>2. s \in Seq(Nat) /\ t \in Seq(Nat) /\ a \in Nat /\ b \in Nat /\ lines \in Nat
    BY <1>1, SeqFacts DEF IInv, Types, Names
  <2>3. lines \in Int /\ lines - b \in Int /\ lines - b <= lines - b
    BY <2>2
  <2> HIDE DEF s, t
  <2>4. /\ Len(s \o t) = a + b /\ Contiguous(s \o t)
        /\ \A i \in 1 .. a + b : (s \o t)[i] = lines - ((a + b) - i)
    BY <2>1, <2>2, <2>3, Joined
  <2>5. ASSUME lines > 0
        PROVE  a + b >= 1 /\ (s \o t)[a + b] = lines /\ ((s \o t)[1] = 1 \/ a + b >= MAX)
    <3>1. a + b >= 1
      BY <2>1, <2>2, <2>5, Sizes
    <3> DEFINE all == s \o t  n == a + b
    <3>2. n \in 1 .. n /\ 1 \in 1 .. n /\ n \in Nat
      BY <2>2, <3>1
    <3>3. \A i \in 1 .. n : all[i] = lines - (n - i)
      BY <2>4
    <3>4. n = lines \/ n >= MAX
      BY <2>1
    <3> HIDE DEF all, n
    <3>5. all[n] = lines - (n - n) /\ all[1] = lines - (n - 1)
      BY <3>2, <3>3
    <3>6. all[n] = lines /\ (all[1] = 1 \/ n >= MAX)
      BY <2>2, <3>2, <3>4, <3>5
    <3> QED
      BY <3>1, <3>6 DEF all, n
  <2> QED
    BY <2>4, <2>5 DEF s, t
<1> QED
  BY <1>1, Invariance, PTL

(* While appends do not overlap, `log read` prints the lines in their      *)
(* order and none twice, also when FILE is rotated between its two reads;  *)
(* and without a gap when it is not (read).                                *)
THEOREM LogReads == Spec => []ReadSound
<1>1. ASSUME IInv PROVE ReadSound
  BY <1>1 DEF IInv
<1> QED
  BY <1>1, Invariance, PTL

=============================================================================
