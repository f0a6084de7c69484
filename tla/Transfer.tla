----------------------------- MODULE Transfer ------------------------------
(* A work written out as one Markdown file and imported again              *)
(* (engine/internal/export/project.go, importmd, mdmeta): the headings carry *)
(* the tree, the front matter lists the nodes in the same order with what    *)
(* hangs on them, and the import builds new rows, whose ids are new, and     *)
(* then walks both lists side by side to give notes and beats their node     *)
(* back.  A scene's own text may hold headings, which read as nodes.         *)
EXTENDS Naturals, Sequences, FiniteSets, SequencesExt

CONSTANTS Labels,     \* what the writer calls parts and scenes
          Synth,      \* the name an invented scene gets ("씬 1"), and the seed's
          Cast,       \* a name that also heads the appendix of people
          Inner,      \* what a heading inside a scene says
          InnerLevels,\* how deep such headings are
          MaxNodes, MaxDepth,
          People,     \* <<[id, name], ...>>
          Ties        \* the sets of [from, to, pair] between their ids to try

VARIABLES stage,      \* "chosen", "written", "read", "rows", "people", "align", "extras", "done", "failed"
          work,       \* the nodes in reading order: [depth, kind, label, body]
          ties,       \* its relationships
          file,       \* the lines below the front matter
          read,       \* the headings found in it: [label, of, up, text]
          rows,       \* the new work's nodes in reading order: [label, kind, up, of, text]
          tied,       \* its relationships, by place in People
          cursor, at, \* the next node of the front matter, the row looked at
          home        \* node of the front matter -> row

vars == <<stage, work, ties, file, read, rows, tied, cursor, at, home>>

Least(a, b) == IF a < b THEN a ELSE b

\* The bodies a scene may have: nothing, prose, a list that reads like a cast
\* list, prose with a heading in it.
Bodies ==
  {<<>>, <<[k |-> "text", level |-> 0]>>, <<[k |-> "list", level |-> 0]>>}
    \cup {<<[k |-> "text", level |-> 0], [k |-> "head", level |-> l], [k |-> "text", level |-> 0]>> :
             l \in InnerLevels}

\* A tree in reading order: a node is one deeper than a container before it at
\* the most, and a scene has nothing below it.
WellFormed(w) ==
  /\ w[1].depth = 0
  /\ \A i \in 2 .. Len(w) :
        w[i].depth <= w[i - 1].depth + (IF w[i - 1].kind = "container" THEN 1 ELSE 0)

Nodes == [depth : 0 .. MaxDepth, kind : {"leaf"}, label : Labels, body : Bodies]
           \cup [depth : 0 .. MaxDepth, kind : {"container"}, label : Labels, body : {<<>>}]

-----------------------------------------------------------------------------
\* Writing: project.go ExportProject.

Line(k, level, label, of, part) == [k |-> k, level |-> level, label |-> label, of |-> of, part |-> part]

\* A node's heading, its depth shown down to the third level, and its text.
Written(w, i) ==
  <<Line("head", Least(w[i].depth + 2, 3), w[i].label, i, 0)>>
    \o [p \in 1 .. Len(w[i].body) |->
          Line(w[i].body[p].k, w[i].body[p].level, Inner, IF w[i].body[p].k = "head" THEN 0 ELSE i, p)]

\* The readable list of people behind the manuscript.
Appendix ==
  IF Len(People) = 0 THEN <<>>
  ELSE <<Line("head", 2, Cast, 0, 0), Line("list", 0, Cast, 0, 0)>>

Export ==
  /\ stage = "chosen"
  /\ stage' = "written"
  /\ file' = <<Line("head", 1, Inner, 0, 0)>>
               \o FlattenSeq([i \in 1 .. Len(work) |-> Written(work, i)]) \o Appendix
  /\ UNCHANGED <<work, ties, read, rows, tied, cursor, at, home>>

-----------------------------------------------------------------------------
\* Reading: importmd/tree.go ParseDocument.

\* The end of the section the heading at i opens.
SectionEnd(f, i) ==
  LET ends == {j \in (i + 1) .. Len(f) : f[j].k = "head" /\ f[j].level <= 2}
  IN IF ends = {} THEN Len(f) ELSE (CHOOSE j \in ends : \A h \in ends : j <= h) - 1

\* A section of the second level under a name of the appendix, with a line
\* that reads like an entry, is the appendix.
IsAppendix(f, i) ==
  /\ f[i].k = "head" /\ f[i].level = 2 /\ f[i].label = Cast
  /\ \E j \in (i + 1) .. SectionEnd(f, i) : f[j].k = "list"

\* stripLinettaAppendices
Stripped(f) ==
  LET gone == UNION {i .. SectionEnd(f, i) : i \in {j \in 1 .. Len(f) : IsAppendix(f, j)}}
  IN FoldLeft(LAMBDA out, j : IF j \in gone THEN out ELSE Append(out, f[j]), <<>>, [j \in 1 .. Len(f) |-> j])

\* parseOutlineBody: the first heading of the first level is the title, a
\* further one counts as the second level, none is deeper than the fourth.
Level(l) == IF l.level = 1 THEN 2 ELSE Least(l.level, 4)

Outline(f) ==
  LET s     == Stripped(f)
      heads == SetToSortSeq({j \in 2 .. Len(s) : s[j].k = "head"}, <)
      Next_(n) == IF n = Len(heads) THEN Len(s) ELSE heads[n + 1] - 1
      Above(n) == {m \in 1 .. (n - 1) : Level(s[heads[m]]) < Level(s[heads[n]])}
  IN [n \in 1 .. Len(heads) |->
        [label |-> s[heads[n]].label, of |-> s[heads[n]].of,
         up    |-> IF Above(n) = {} THEN 0 ELSE CHOOSE m \in Above(n) : \A h \in Above(n) : h <= m,
         text  |-> SubSeq(s, heads[n] + 1, Next_(n))]]

Inside(o, n) == {m \in 1 .. Len(o) : o[m].up = n}

\* Mutant: the text of a part that has headings below it is left behind.
RowsOfWithout(o, n) ==
  <<[label |-> o[n].label, kind |-> IF Inside(o, n) = {} THEN "leaf" ELSE "container",
     up |-> o[n].up, of |-> o[n].of, text |-> IF Inside(o, n) = {} THEN o[n].text ELSE <<>>, node |-> n]>>

\* The rows a heading becomes: with headings below it a container, whose own
\* text goes into an invented scene in front of them.
RowsOf(o, n) ==
  LET row(kind, text) ==
        [label |-> o[n].label, kind |-> kind, up |-> o[n].up, of |-> o[n].of, text |-> text, node |-> n]
  IN IF Inside(o, n) = {} THEN <<row("leaf", o[n].text)>>
     ELSE <<row("container", <<>>)>>
            \o (IF o[n].text = <<>> THEN <<>>
                ELSE <<[label |-> Synth, kind |-> "leaf", up |-> n, of |-> 0, text |-> o[n].text, node |-> 0]>>)

Plan(o) == FlattenSeq([n \in 1 .. Len(o) |-> RowsOf(o, n)])

\* What the dialog shows before the import: preview.go.
PreviewOf(o) ==
  FlattenSeq([n \in 1 .. Len(o) |->
     <<[label |-> o[n].label, kind |-> IF Inside(o, n) # {} THEN "container" ELSE "leaf"]>>
       \o (IF Inside(o, n) # {} /\ o[n].text # <<>>
           THEN <<[label |-> Synth, kind |-> "leaf"]>> ELSE <<>>)])

-----------------------------------------------------------------------------
\* Building: importmd/builder.go and extras.go, called by ImportMarkdown.

Seed == [label |-> Synth, kind |-> "leaf", up |-> 0, of |-> 0, text |-> <<>>, node |-> 0]

Read ==
  /\ stage = "written"
  /\ stage' = "read"
  /\ read' = Outline(file)
  /\ UNCHANGED <<work, ties, file, rows, tied, cursor, at, home>>

\* The project comes with a seed scene, behind which the nodes are put.
Create ==
  /\ stage = "read"
  /\ stage' = "rows"
  /\ rows' = <<Seed>>
  /\ UNCHANGED <<work, ties, file, read, tied, cursor, at, home>>

\* insertNode
Insert ==
  /\ stage = "rows"
  /\ Len(rows) - 1 < Len(Plan(read))
  /\ rows' = Append(rows, Plan(read)[Len(rows)])
  /\ UNCHANGED <<stage, work, ties, file, read, tied, cursor, at, home>>

\* With everything there, the seed goes; a file without headings keeps it.
DropSeed ==
  /\ stage = "rows"
  /\ Len(rows) - 1 = Len(Plan(read))
  /\ rows' = IF Len(rows) = 1 THEN rows ELSE Tail(rows)
  /\ stage' = "people"
  /\ UNCHANGED <<work, ties, file, read, tied, cursor, at, home>>

NameOf(id) == (CHOOSE p \in Range(People) : p.id = id).name

\* Mutant: by name, of which the last one made stands.
ResolveByName(id) ==
  CHOOSE n \in 1 .. Len(People) :
     /\ People[n].name = NameOf(id)
     /\ \A m \in 1 .. Len(People) : People[m].name = NameOf(id) => m <= n

\* resolveRelationshipEnds: by the exported id; names are for files without.
Resolve(id) == CHOOSE n \in 1 .. Len(People) : People[n].id = id

\* RestoreMetadata: two that share a pair and mirror each other come back as a
\* pair, the others one by one.
Mirrored(r, q) == r.pair # 0 /\ q.pair = r.pair /\ q.from = r.to /\ q.to = r.from
RestoreMetadata ==
  /\ stage = "people"
  /\ stage' = "align"
  /\ tied' = {[from |-> Resolve(r.from), to |-> Resolve(r.to),
               paired |-> \E q \in ties \ {r} : Mirrored(r, q)] : r \in ties}
  /\ UNCHANGED <<work, ties, file, read, rows, cursor, at, home>>

\* Mutant: the n-th row is taken for the n-th node.
MatchesAny(row, n) == TRUE

Matches(row, n) == row.label = work[n].label

\* AlignNodes, one row: only a row of the name the next node has moves on.
Align ==
  /\ stage = "align"
  /\ at <= Len(rows) /\ cursor <= Len(work)
  /\ at' = at + 1
  /\ IF Matches(rows[at], cursor)
     THEN home' = [home EXCEPT ![cursor] = at] /\ cursor' = cursor + 1
     ELSE UNCHANGED <<home, cursor>>
  /\ UNCHANGED <<stage, work, ties, file, read, rows, tied>>

\* RestoreExtras gives every note and beat the row its node has; without one a
\* beat stays without a scene and a note is left out.
RestoreExtras ==
  /\ stage = "align"
  /\ at > Len(rows) \/ cursor > Len(work)
  /\ stage' = "done"
  /\ UNCHANGED <<work, ties, file, read, rows, tied, cursor, at, home>>

\* importFailure: a statement fails, and the partial work is deleted.
Fail ==
  /\ stage \in {"rows", "people", "align"}
  /\ stage' = "failed" /\ rows' = <<>> /\ tied' = {} /\ home' = [n \in 1 .. MaxNodes |-> 0]
  /\ cursor' = 1 /\ at' = 1
  /\ UNCHANGED <<work, ties, file, read>>

Init ==
  /\ stage = "chosen"
  /\ work \in {w \in UNION {[1 .. n -> Nodes] : n \in 1 .. MaxNodes} : WellFormed(w)}
  /\ ties \in Ties
  /\ file = <<>> /\ read = <<>> /\ rows = <<>> /\ tied = {}
  /\ cursor = 1 /\ at = 1 /\ home = [n \in 1 .. MaxNodes |-> 0]

Next == Export \/ Read \/ Create \/ Insert \/ DropSeed \/ RestoreMetadata \/ Align \/ RestoreExtras \/ Fail

Spec == Init /\ [][Next]_vars

-----------------------------------------------------------------------------
Prose(lines) == SelectSeq(lines, LAMBDA l : l.k # "head")

\* A part of the writer's own that reads like the appendix.
TakenForAppendix == \E i \in 1 .. Len(file) : IsAppendix(file, i) /\ file[i].of # 0

\* A row the import made up, or a heading inside a scene, with a name that a
\* part or scene has too.
Namesake == \E n \in 1 .. Len(rows) : rows[n].of = 0 /\ \E i \in 1 .. Len(work) : rows[n].label = work[i].label

\* Every word of the scenes comes back, in the order it was read, unless a
\* part of the work reads like the appendix of people, and what the dialog
\* showed before is what was made.
WordsComeBack ==
  stage = "done" =>
     /\ ~TakenForAppendix =>
          FlattenSeq([n \in 1 .. Len(rows) |-> rows[n].text])
            = Prose(FlattenSeq([i \in 1 .. Len(work) |-> Tail(Written(work, i))]))
     /\ read # <<>> =>
          [n \in 1 .. Len(rows) |-> [label |-> rows[n].label, kind |-> rows[n].kind]] = PreviewOf(read)

\* What hangs on a part or scene finds it again, in spite of scenes that were
\* cut in two, names that repeat and levels that were flattened, unless
\* something made up has the name.
NotesComeHome ==
  stage = "done" /\ ~TakenForAppendix /\ ~Namesake =>
     \A i \in 1 .. Len(work) : home[i] # 0 /\ rows[home[i]].of = i

\* A work of two levels without headings inside its scenes keeps its shape,
\* and relationships are between the same people, one-way or mutual as before.
ShapeComesBack ==
  stage = "done" =>
     /\ (/\ ~TakenForAppendix
         /\ \A i \in 1 .. Len(work) :
              /\ work[i].depth <= 1
              /\ \A p \in 1 .. Len(work[i].body) : work[i].body[p].k # "head"
              /\ work[i].kind = "container" => i < Len(work) /\ work[i + 1].depth > work[i].depth) =>
          /\ Len(rows) = Len(work)
          /\ \A i \in 1 .. Len(work) :
               /\ rows[i].kind = work[i].kind /\ rows[i].label = work[i].label
               /\ rows[i].up = 0 <=> work[i].depth = 0
     /\ tied = {[from |-> CHOOSE n \in 1 .. Len(People) : People[n].id = r.from,
                 to |-> CHOOSE n \in 1 .. Len(People) : People[n].id = r.to,
                 paired |-> r.pair # 0] : r \in ties}

\* A work that is written out and imported again: its words, what hangs on its
\* scenes, its shape and its people.
Returns == WordsComeBack /\ NotesComeHome /\ ShapeComesBack
=============================================================================
