----------------------------- MODULE MCIniFile ------------------------------
(***************************************************************************)
(* Instances of IniFile for TLC: the lines files are made of.              *)
(***************************************************************************)
EXTENDS IniFile

CONSTANTS v, w

L(kind, name, val, more) == [kind |-> kind, name |-> name, val |-> val, more |-> more]

\* Sections a, b, "a:x" (a section that looks like an option) and "[]".
Sections == {L("section", n, v, FALSE) : n \in {<<"a">>, <<"b">>, <<"a", "x">>, <<>>}}
Options == {L("value", <<"x">>, u, m) : u \in {v, w}, m \in BOOLEAN}
Remarks == {L("comment", <<>>, v, m) : m \in BOOLEAN}
           \cup {L("blank", <<>>, v, TRUE)}
Faulty == {L(k, <<>>, v, FALSE) : k \in {"junk", "long"}}
AllLines == Sections \cup Options \cup Remarks \cup Faulty

Permitted(f) ==
  \A p \in DOMAIN f : f[p].more /\ f[p].kind = "comment" => p = 1 \/ ~f[p - 1].more

\* Every file of up to three lines, and longer ones that make the arrays grow.
Short == {f \in UNION {[1..n -> AllLines] : n \in 0..3} : Permitted(f)}
Long ==
  {<<L("section", <<s>>, v, FALSE), L("value", <<"x">>, v, FALSE),
     L("section", <<t>>, v, FALSE), l, L("value", <<"x">>, w, FALSE)>> :
       s \in {"a", "b"}, t \in {"a", "b"}, l \in Sections \cup Options}
MCFiles == Short \cup Long

\* Section a and its option collide, and so does a section with an option of b.
MCHash(k) == IF k[1] = "a" THEN 1 ELSE 2

MCApiKeys == {<<"a">>, <<"a", "x">>, <<"b">>}
=============================================================================
