------------------------------ MODULE IniFile -------------------------------
(***************************************************************************)
(* iniparser_load (lib/iniparser/iniparser.c) line by line, then the use   *)
(* of the dictionary it returns through iniparser_set, iniparser_unset and *)
(* iniparser_freedict.  Names stand for their lower-case form, which every *)
(* function of the library converts to.                                    *)
(***************************************************************************)
EXTENDS Dictionary, Sequences, SequencesExt

CONSTANTS
  Files,       \* the contents an ini file may have: sequences of lines
  Joint,       \* the value made of several lines
  Nothing,     \* no text pending from a line that ends in a backslash
  Vals,        \* the values of options
  ApiKeys,     \* the keys that iniparser_set and iniparser_unset are used on
  MaxEntries,  \* bound: entries counted in a dictionary
  MaxCalls     \* bound: calls after the load

\* A line by what iniparser_line makes of it.  A section has one word, or more
\* when its name contains colons; the line "[]" has none.
Line == [kind : {"blank", "comment", "section", "value", "junk", "long"},
         name : Seq(STRING), val : Vals, more : BOOLEAN]

\* Lines whose continuation the model does not spell out are left out: a
\* section or a malformed line with a backslash, and a comment that is both
\* the rest of one line and the beginning of another.
ASSUME FilesAssumption ==
  \A f \in Files :
    /\ f \in Seq(Line)
    /\ \A p \in DOMAIN f :
         f[p].more =>
           /\ f[p].kind \in {"blank", "comment", "value"}
           /\ f[p].kind = "comment" => p = 1 \/ ~f[p - 1].more
ASSUME TextAssumption == Joint \in Vals /\ Nothing \notin Line
ASSUME BoundsAssumption == MaxEntries \in Nat /\ MaxCalls \in Nat

VARIABLES
  file,      \* the lines of the file
  oom,       \* whether allocations may fail in this behaviour
  status,    \* "closed", "reading", "read", "loaded", "used", "null", ...
  pos,       \* the line fgets() returns next
  pending,   \* the text kept by a line that ends in a backslash
  section,   \* the section the options belong to
  dict,      \* the dictionary
  errs,      \* syntax errors met
  calls,     \* calls made after the load
  request    \* the last call made of the dictionary

vars == <<file, oom, status, pos, pending, section, dict, errs, calls, request>>

\* The name of the options before any section: section is "" then.
NoSection == <<"">>

Init ==
  /\ file \in Files
  /\ oom \in BOOLEAN
  /\ status = "closed"
  /\ pos = 1
  /\ pending = Nothing
  /\ section = NoSection
  /\ dict = Empty
  /\ errs = 0
  /\ calls = 0
  /\ request = <<>>

-----------------------------------------------------------------------------
\* fopen and dictionary_new.  The arrays of a new dictionary are not checked:
\* the first use of one that is missing, at the latest by the caller of
\* iniparser_load, reads through a null pointer.
Open ==
  /\ status = "closed"
  /\ \/ status' \in {"reading", "null"}
     \/ oom /\ status' = "crashed"
  /\ UNCHANGED <<file, oom, pos, pending, section, dict, errs, calls, request>>

\* The text of line l behind the text kept from the lines before.
Joined(l) ==
  IF pending = Nothing \/ pending.kind = "blank" THEN l
  ELSE [pending EXCEPT
          !.more = l.more,
          !.val = IF pending.kind # "value" \/ l.kind \in {"blank", "comment"}
                    THEN @ ELSE Joint]

\* A line that fits the buffer has been read.
AtLine ==
  /\ status = "reading"
  /\ pos <= Len(file)
  /\ file[pos].kind # "long"

\* dictionary_del.
Delete == dict' = Empty /\ request' = <<>>

\* The line does not fit: the dictionary is deleted.
ReadLong ==
  /\ status = "reading"
  /\ pos <= Len(file)
  /\ file[pos].kind = "long"
  /\ status' = "null"
  /\ Delete
  /\ UNCHANGED <<file, oom, pos, pending, section, errs, calls>>

\* A backslash at the end: what the text is, is decided with the next line,
\* and never if the file ends here.
ReadContinued ==
  /\ AtLine /\ file[pos].more
  /\ pending' = Joined(file[pos])
  /\ pos' = pos + 1
  /\ UNCHANGED <<file, oom, status, section, dict, errs, calls, request>>

\* An entry from line text; the loop is left when dictionary_set fails.
Store(k, v) ==
  \E r \in Set(dict, k, v, oom) :
    /\ r.dict.n <= MaxEntries
    /\ dict' = r.dict
    /\ request' = <<"set", k, v>>
    /\ status' = IF r.ret < 0 THEN "read" ELSE status

\* Slip: the empty name forgets the section.
ReadSectionEmptyName ==
  /\ AtLine /\ ~file[pos].more
  /\ Joined(file[pos]).kind = "section"
  /\ section' = IF Joined(file[pos]).name = <<>> THEN NoSection
                ELSE Joined(file[pos]).name
  /\ Store(section', Null)
  /\ pending' = Nothing
  /\ pos' = pos + 1
  /\ UNCHANGED <<file, oom, errs, calls>>

\* "[]" does not match the pattern and leaves the section as it was.
ReadSection ==
  /\ AtLine /\ ~file[pos].more
  /\ Joined(file[pos]).kind = "section"
  /\ section' = IF Joined(file[pos]).name = <<>> THEN section
                ELSE Joined(file[pos]).name
  /\ Store(section', Null)
  /\ pending' = Nothing
  /\ pos' = pos + 1
  /\ UNCHANGED <<file, oom, errs, calls>>

ReadValue ==
  /\ AtLine /\ ~file[pos].more
  /\ Joined(file[pos]).kind = "value"
  /\ Store(section \o Joined(file[pos]).name, Joined(file[pos]).val)
  /\ pending' = Nothing
  /\ pos' = pos + 1
  /\ UNCHANGED <<file, oom, section, errs, calls>>

\* Blank lines and comments; a syntax error is counted and the loop goes on.
ReadOther ==
  /\ AtLine /\ ~file[pos].more
  /\ Joined(file[pos]).kind \in {"blank", "comment", "junk"}
  /\ errs' = IF Joined(file[pos]).kind = "junk" THEN errs + 1 ELSE errs
  /\ pending' = Nothing
  /\ pos' = pos + 1
  /\ UNCHANGED <<file, oom, status, section, dict, calls, request>>

\* Without the memory for the copy iniparser_line works on, any line is an
\* empty one.
ReadUncopied ==
  /\ AtLine /\ ~file[pos].more
  /\ oom
  /\ pending' = Nothing
  /\ pos' = pos + 1
  /\ UNCHANGED <<file, oom, status, section, dict, errs, calls, request>>

\* After the loop.  A loop left for want of memory returns what there is.
Return ==
  /\ status = "read" \/ (status = "reading" /\ pos > Len(file))
  /\ IF errs > 0 THEN status' = "null" /\ Delete
                 ELSE status' = "loaded" /\ UNCHANGED <<dict, request>>
  /\ pending' = Nothing
  /\ UNCHANGED <<file, oom, pos, section, errs, calls>>

-----------------------------------------------------------------------------
\* The locals of iniparser_load are gone, and the file is closed.
Call ==
  /\ status \in {"loaded", "used"}
  /\ calls < MaxCalls
  /\ calls' = calls + 1
  /\ status' = "used"
  /\ file' = <<>> /\ pos' = 1 /\ section' = NoSection
  /\ UNCHANGED <<oom, pending, errs>>

iniparser_set(k, v) ==
  /\ Call
  /\ \E r \in Set(dict, k, v, oom) : r.dict.n <= MaxEntries /\ dict' = r.dict
  /\ request' = <<"set", k, v>>

iniparser_unset(k) ==
  /\ Call
  /\ dict' = Unset(dict, k)
  /\ request' = <<"unset", k>>

iniparser_freedict ==
  /\ status \in {"loaded", "used"}
  /\ status' = "freed"
  /\ Delete
  /\ UNCHANGED <<file, oom, pos, pending, section, errs, calls>>

Load ==
  \/ Open \/ ReadLong \/ ReadContinued \/ ReadSection \/ ReadValue \/ ReadOther
  \/ ReadUncopied \/ Return

Next ==
  \/ Load
  \/ \E k \in ApiKeys : iniparser_unset(k) \/ \E v \in Vals : iniparser_set(k, v)
  \/ iniparser_freedict

Spec == Init /\ [][Next]_vars

-----------------------------------------------------------------------------
\* Types of the variables.
TypeOK ==
  /\ file \in Files \cup {<<>>} /\ oom \in BOOLEAN
  /\ status \in {"closed", "reading", "read", "loaded", "used", "null",
                "freed", "crashed"}
  /\ pos \in 1..(Len(file) + 1)
  /\ pending = Nothing \/ (pending \in Range(file) \/ pending.kind = "value")
  /\ section # <<>>
  /\ dict.n \in 0..MaxEntries /\ dict.size >= MinSize
  /\ \A f \in {"key", "val", "hash"} : DOMAIN dict[f] = Slots(dict)
  /\ errs \in 0..Len(file) /\ calls \in 0..MaxCalls

\* The comment at dictionary.c:290, "Because d->n < d->size this will
\* necessarily terminate", holds through growth, unset and failed copies: n
\* never falls behind the used slots, so a set always finds an empty one; and
\* no key is ever in two slots, where the second would outlive an unset.
WellFormed ==
  /\ Cardinality(Used(dict)) <= dict.n
  /\ dict.n <= dict.size
  /\ \A i, j \in Used(dict) : dict.key[i] = dict.key[j] => i = j
  /\ \A i \in Used(dict) : dict.hash[i] = Hash(dict.key[i])

\* The keys that can come up at all.
Named(kind) == UNION {{l.name : l \in {x \in Range(f) : x.kind = kind}} : f \in Files}
AllKeys ==
  LET sections == (Named("section") \ {<<>>}) \cup {NoSection}
  IN ApiKeys \cup sections \cup {s \o k : s \in sections, k \in Named("value")}

\* A null pointer is no key.
ASSUME KeysAssumption == Null \notin AllKeys

\* The dictionary seen as a map.
Stored == [k \in Keys(dict) |-> Get(dict, k, Null)]

Map == INSTANCE FiniteMap WITH
         Key <- AllKeys, Value <- Vals \cup {Null}, map <- Stored

\* Whatever the hashes, the slots and the order of the calls, the dictionary
\* answers each request as FiniteMap.
ImplementsMap == Map!Spec

\* A reference reading of the file, from its lines at once.
Starts == {p \in DOMAIN file : p = 1 \/ ~file[p - 1].more}
Ends(p) == {q \in p..Len(file) : ~file[q].more}
Complete == {p \in Starts : Ends(p) # {}}
Content(p) ==
  LET extent == p..Min(Ends(p))
      solid  == {q \in extent : file[q].kind # "blank"}
  IN IF solid = {} THEN file[p] ELSE file[Min(solid)]
Composed(p) ==
  LET extent == p..Min(Ends(p))
      solid  == {q \in extent : file[q].kind # "blank"}
  IN \E q \in solid : q # Min(solid) /\ file[q].kind # "comment"
NameAt(p) ==
  LET heads == {q \in Complete : q <= p /\ Content(q).kind = "section"
                                        /\ Content(q).name # <<>>}
  IN IF heads = {} THEN NoSection ELSE Content(Max(heads)).name
KeyAt(p) == IF Content(p).kind = "section" THEN NameAt(p)
            ELSE NameAt(p) \o Content(p).name
ValAt(p) == IF Content(p).kind = "section" THEN Null
            ELSE IF Composed(p) THEN Joint ELSE Content(p).val
Entries == {p \in Complete : Content(p).kind \in {"section", "value"}}
Wrong == {p \in Complete : Content(p).kind = "junk"}
         \cup {p \in DOMAIN file : file[p].kind = "long"}

\* With memory, a file is loaded only if it has no malformed line, and then the
\* dictionary holds for every key what the last line that names it says.
LoadedAsWritten ==
  status = "loaded" /\ ~oom =>
    /\ Wrong = {}
    /\ Stored = [k \in {KeyAt(p) : p \in Entries} |->
                   ValAt(Max({p \in Entries : KeyAt(p) = k}))]

\* Its sections are numbered in the order they first appear in, whatever grew
\* in between: pmf_conf.c walks them by number.
SectionsInOrder ==
  status = "loaded" /\ ~oom =>
    LET First(k) == Min({p \in Entries : KeyAt(p) = k})
        name(n) == getsecname(dict, n)
    IN /\ {name(n) : n \in 0..(getnsec(dict) - 1)} =
            {KeyAt(p) : p \in {q \in Entries : Len(KeyAt(q)) = 1}}
       /\ \A m, n \in 0..(getnsec(dict) - 1) :
            m < n => First(name(m)) < First(name(n))
=============================================================================
