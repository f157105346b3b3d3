--------------------------- MODULE ProjectManifest ---------------------------
(***************************************************************************)
(* tide.toml, read line by line (parseProjectManifest of manifest.go).     *)
(* A line is what it comes to without its comment: a comment is cut at the *)
(* first # of the line, so a value that holds one is malformed.  An import *)
(* path is its segments, of which a binding goes by the last.              *)
(* Empty parts of a list are skipped, so ["a", , "b"], ["a", "b",] and     *)
(* ["a", "b"] are one and the same line here.                              *)
(***************************************************************************)
EXTENDS Naturals, SequencesExt

CONSTANT MaxLines  \* of the file

VARIABLES
  lines,    \* read so far
  section,  \* the one the last header names; "" before any
  manifest, \* [name, go, extra]: what the lines have set
  verdict   \* "reading", "accepted", or why not

vars == <<lines, section, manifest, verdict>>

Sections == {"project", "toolchain", "bindings"}
Lists == {<<>>, <<<<"a", "x">>>>, <<<<"a", "x">>, <<"b", "y">>>>,
          <<<<"a", "x">>, <<"b", "x">>>>}
Str(s)  == [form |-> "string", value |-> s]
List(l) == [form |-> "list", value |-> l]
Malformed == [form |-> "malformed"]  \* no quotes, a # inside, an open bracket

Blank     == [kind |-> "blank"]
Junk      == [kind |-> "junk"]       \* neither [ at its start nor = in it
Open      == [kind |-> "open"]       \* [ without ]
Header(s) == [kind |-> "header", section |-> s]
Pair(k, v) == [kind |-> "pair", key |-> k, value |-> v]

Lines ==
  {Blank, Junk, Open} \cup {Header(s) : s \in Sections \cup {"tools"}}
    \cup {Pair("name", v) : v \in {Str("p"), Str("q"), Str(""), List(<<>>), Malformed}}
    \cup {Pair("go", Str("1.22")), Pair("version", Str("1"))}
    \cup {Pair("extra", List(l)) : l \in Lists} \cup {Pair("extra", Str("p"))}

Init == /\ lines = <<>> /\ section = "" /\ verdict = "reading"
        /\ manifest = [name |-> "", go |-> "", extra |-> <<>>]

-----------------------------------------------------------------------------

\* The section a key belongs to, the form of its value.
Home(key) == CASE key = "name" -> "project" [] key = "go" -> "toolchain"
               [] key = "extra" -> "bindings" [] OTHER -> "none"
FormOf(key) == IF key = "extra" THEN "list" ELSE "string"

\* Mutant: a key is taken in any section.
FitsAnywhere(l) == Home(l.key) # "none" /\ l.value.form = FormOf(l.key)
Fits(l) == Home(l.key) = section /\ l.value.form = FormOf(l.key)

\* One round of the loop: a key replaces what an earlier line has set.
Read(l) ==
  /\ verdict = "reading" /\ Len(lines) < MaxLines
  /\ lines' = Append(lines, l)
  /\ \/ l.kind = "blank" /\ UNCHANGED <<section, manifest, verdict>>
     \/ /\ l.kind = "header" /\ l.section \in Sections
        /\ section' = l.section /\ UNCHANGED <<manifest, verdict>>
     \/ /\ l.kind = "pair" /\ Fits(l)
        /\ manifest' = [manifest EXCEPT ![l.key] = l.value.value]
        /\ UNCHANGED <<section, verdict>>
     \/ /\ \/ l.kind \in {"junk", "open"}
           \/ l.kind = "header" /\ l.section \notin Sections
           \/ l.kind = "pair" /\ ~Fits(l)
        /\ verdict' = "refused" /\ UNCHANGED <<section, manifest>>

\* After the last line: a name, and no two bindings that go by one segment.
Finish ==
  /\ verdict = "reading"
  /\ verdict' = IF manifest.name # "" /\ IsInjective([i \in DOMAIN manifest.extra |->
                                                        Last(manifest.extra[i])])
                  THEN "accepted" ELSE "refused"
  /\ UNCHANGED <<lines, section, manifest>>

Over == verdict # "reading" /\ UNCHANGED vars

Next == (\E l \in Lines : Read(l)) \/ Finish \/ Over

Spec == Init /\ [][Next]_vars

-----------------------------------------------------------------------------
(* Properties.                                                             *)

TypeOK ==
  /\ lines \in Seq(Lines) /\ Len(lines) <= MaxLines
  /\ section \in Sections \cup {""}
  /\ verdict \in {"reading", "accepted", "refused"}

\* The table a line lies in, by its headers, and the lines that set a key.
Table(i) == LET before == {j \in 1..i : lines[j].kind = "header"} IN
            IF before = {} THEN "" ELSE lines[Max(before)].section
SetBy(key) == {i \in DOMAIN lines : lines[i].kind = "pair" /\ lines[i].key = key}
LastOf(key) == lines[Max(SetBy(key))].value.value

\* A tide.toml is accepted exactly if it has the schema of manifest.md, and then
\* says what its lines say: every header is of one of the three tables, every
\* other line a key of the table it lies in with a value of the key's form, the
\* last name is not empty and the last list names no segment twice.
ReadsSchema ==
  verdict # "reading" =>
    /\ verdict = "accepted" <=>
         /\ \A i \in DOMAIN lines :
              \/ lines[i] = Blank
              \/ lines[i].kind = "header" /\ lines[i].section \in Sections
              \/ /\ lines[i].kind = "pair" /\ Table(i) = Home(lines[i].key)
                 /\ lines[i].value.form = FormOf(lines[i].key)
         /\ SetBy("name") # {} /\ LastOf("name") # ""
         /\ SetBy("extra") = {} \/
            Cardinality({Last(p) : p \in Range(LastOf("extra"))}) = Len(LastOf("extra"))
    /\ verdict = "accepted" =>
         /\ manifest.name = LastOf("name")
         /\ manifest.extra = IF SetBy("extra") = {} THEN <<>> ELSE LastOf("extra")
=============================================================================
