----------------------------- MODULE ConfigFile -----------------------------
(***************************************************************************)
(* The text of /etc/lwrt/config, what Config::parse (src/src/config.rs)    *)
(* reads in it and what apply_settings (src/src/httpd.rs) makes of it.     *)
(*                                                                         *)
(* A line is a section header, a `key = value` line or anything else       *)
(* (blank, comment, noise).  `tail` says that a `#` comment follows on the *)
(* line: parse strips it before it looks for a header, apply_settings does *)
(* not.  A value posted by a form is [text, tail] as well: what follows a  *)
(* `#` in it is a comment as soon as it stands in the file.                *)
(***************************************************************************)
EXTENDS Integers, Sequences, SequencesExt, FiniteSets, FiniteSetsExt

CONSTANT Word        \* the strings that names and values are taken from

NoValue == "none"    \* Option::None of Config::get

Header(name, tail)    == [t |-> "header", name |-> name, text |-> "", tail |-> tail]
KeyValue(k, text, tl) == [t |-> "kv", name |-> k, text |-> text, tail |-> tl]
Other                 == [t |-> "other", name |-> "", text |-> "", tail |-> TRUE]

Line == [t : {"header", "kv", "other"}, name : Word, text : Word, tail : BOOLEAN]

IsHeader(l) == l.t = "header"

-----------------------------------------------------------------------------
(* config.rs                                                               *)

ParseHeaders(lines) == {i \in DOMAIN lines : IsHeader(lines[i])}

\* The name of the last header before line i, "" before the first.
SectionAt(lines, i) ==
    LET before == {j \in ParseHeaders(lines) : j < i} IN IF before = {} THEN "" ELSE lines[Max(before)].name

\* Config::parse followed by get(s, k): the last line for the key wins, also
\* over lines of the same section elsewhere in the file.
Get(lines, s, k) ==
    LET L == {i \in DOMAIN lines : lines[i].t = "kv" /\ lines[i].name = k /\ SectionAt(lines, i) = s}
    IN IF L = {} THEN NoValue ELSE lines[Max(L)].text

-----------------------------------------------------------------------------
(* httpd.rs.  `updates` is a sequence of [sec, key, val], at most one for  *)
(* a section and key.  The state of apply_settings is what it has written, *)
(* the section it is in, and which of the updates are left.                *)

SECRET_KEYS == {"key", "password", "password_sha256", "private_key", "psk"}
NotSent     == [sent |-> FALSE]    \* the value of an update the form has no field for

\* The updates there are; a blank secret means "keep the current one".
Retained(updates) ==
    {n \in DOMAIN updates :
        LET u == updates[n] IN
        u.val # NotSent /\ ~(u.key \in SECRET_KEYS /\ u.val.text = "" /\ ~u.val.tail)}

Written(u) == KeyValue(u.key, u.val.text, u.val.tail)

\* flush_section: what is left of the section is written and drained, in order.
FlushSection(st, updates) ==
    LET out[n \in 0 .. Len(updates)] ==
            IF n = 0 THEN st.out
            ELSE IF n \in st.left /\ updates[n].sec = st.section THEN Append(out[n - 1], Written(updates[n]))
            ELSE out[n - 1]
    IN [out |-> out[Len(updates)], section |-> st.section,
        left |-> {n \in st.left : updates[n].sec # st.section}]

\* Mutant: a key is looked for whatever the section of the line is.
MatchingAnySection(st, l, updates) == {n \in st.left : l.t = "kv" /\ updates[n].key = l.name}

Matching(st, l, updates) ==
    {n \in st.left : l.t = "kv" /\ updates[n].sec = st.section /\ updates[n].key = l.name}

\* The body of the loop over the lines; only a bare header counts as one.
ApplyLine(st, l, updates) ==
    IF IsHeader(l) /\ ~l.tail
    THEN LET flushed == FlushSection(st, updates)
         IN [out |-> Append(flushed.out, l), section |-> l.name, left |-> flushed.left]
    ELSE IF Matching(st, l, updates) # {}
    THEN LET n == Min(Matching(st, l, updates))
         IN [out |-> Append(st.out, Written(updates[n])), section |-> st.section, left |-> st.left \ {n}]
    ELSE [out |-> Append(st.out, l), section |-> st.section, left |-> st.left]

ApplyLines(lines, updates) ==
    LET st[i \in 0 .. Len(lines)] ==
            IF i = 0 THEN [out |-> <<>>, section |-> "", left |-> Retained(updates)]
            ELSE ApplyLine(st[i - 1], lines[i], updates)
    IN st[Len(lines)]

\* The section of an update that is left never appeared: it is created.
NewSection(st, s, updates) ==
    FlushSection([out |-> Append(Append(st.out, Other), Header(s, FALSE)), section |-> s, left |-> st.left], updates)

NewSections(start, updates) ==
    LET st[n \in 0 .. Len(updates)] ==
            IF n = 0 THEN start
            ELSE IF n \in st[n - 1].left THEN NewSection(st[n - 1], updates[n].sec, updates)
            ELSE st[n - 1]
    IN st[Len(updates)]

\* Mutant: what is left of the file's last section is not flushed.
ApplySettingsNoLastFlush(lines, updates) == NewSections(ApplyLines(lines, updates), updates).out

ApplySettings(lines, updates) ==
    NewSections(FlushSection(ApplyLines(lines, updates), updates), updates).out

-----------------------------------------------------------------------------
(* A file both readers understand alike: no comment behind a header, no    *)
(* section and no key of a section twice.  DEFAULT is one.                 *)
Plain(lines) ==
    /\ \A i \in DOMAIN lines : IsHeader(lines[i]) => ~lines[i].tail
    /\ \A i, j \in DOMAIN lines : IsHeader(lines[i]) /\ IsHeader(lines[j])
                                  /\ lines[i].name = lines[j].name => i = j
    /\ \A i, j \in DOMAIN lines :
         /\ lines[i].t = "kv" /\ lines[j].t = "kv" /\ lines[i].name = lines[j].name
         /\ SectionAt(lines, i) = SectionAt(lines, j)
         => i = j
=============================================================================
