----------------------------- MODULE Markdown ------------------------------
(* How a scene is written as Markdown (engine/internal/export/markdown.go)   *)
(* and read again (engine/internal/importmd/markdown.go).  A line is a       *)
(* sequence of tokens: a space, a marker, an escaped marker, a word.  A      *)
(* block is [t, s, c]: its type, its lines of text, its blocks.  Two         *)
(* separate algorithms have to agree: the writer nests by prefixes and       *)
(* escapes what could read as syntax, the reader goes by columns and blank   *)
(* lines, and before it a pass over the whole file looks for headings, which *)
(* end a scene, outside of code.                                             *)
EXTENDS Naturals, Sequences, FiniteSets, SequencesExt

CONSTANTS TextLines,  \* what a line of prose begins with: "w", or a marker
          CodeLines,  \* the lines of a code block: "c", "", "#", "fence"
          Marks       \* the marks of a piece of text, outermost first

VARIABLES stage, doc, lines, scene, closed, runs, tokens, spans
vars == <<stage, doc, lines, scene, closed, runs, tokens, spans>>

Block(t, s, c) == [t |-> t, s |-> s, c |-> c]
Lists == {"bulletList", "orderedList"}
Fences == {"fence", "fence4"}

\* Lines joined by a blank one, or by none.
Loose(parts) == FoldLeft(LAMBDA out, p : IF out = <<>> THEN p ELSE out \o << <<>> >> \o p, <<>>, parts)
Tight(parts) == FlattenSeq(parts)

Spaces(n) == [i \in 1 .. n |-> " "]
Width(token) == IF token = "1." THEN 2 ELSE 1

-----------------------------------------------------------------------------
\* Writing.

\* escapeLineStarts: a line of prose that begins like a block is escaped.
EscapedLine(k) ==
  IF k = "" THEN <<>> ELSE IF k = "w" THEN <<"w">> ELSE <<"e" \o k, " ", "w">>

\* Mutant: only the first line of a paragraph is looked at.
EscapedFirst(s, i) == IF i = 1 \/ s[i] \in {"", "w"} THEN EscapedLine(s[i]) ELSE <<s[i], " ", "w">>

EscapedAt(s, i) == EscapedLine(s[i])

\* A hard break is two spaces at the end of the line.
ParagraphLines(s) ==
  [i \in 1 .. Len(s) |-> EscapedAt(s, i) \o (IF i < Len(s) THEN <<" ", " ">> ELSE <<>>)]

\* renderCodeBlock: the fence is longer than any in the code.
CodeBlock(s) ==
  LET fence == IF \E i \in 1 .. Len(s) : s[i] = "fence" THEN "fence4" ELSE "fence"
  IN << <<fence>> >> \o [i \in 1 .. Len(s) |-> IF s[i] = "" THEN <<>> ELSE <<s[i]>>] \o << <<fence>> >>

\* prefixLines
Prefixed(ls) == [i \in 1 .. Len(ls) |-> IF ls[i] = <<>> THEN <<">">> ELSE <<">", " ">> \o ls[i]]

\* Mutant: every line behind the first is set in by two columns.
IndentedByTwo(ls, marker) ==
  [i \in 1 .. Len(ls) |-> IF i = 1 \/ ls[i] = <<>> THEN ls[i] ELSE Spaces(2) \o ls[i]]

\* indentContinuation: by the width of the marker; blank lines stay empty.
Indented(ls, marker) ==
  [i \in 1 .. Len(ls) |-> IF i = 1 \/ ls[i] = <<>> THEN ls[i] ELSE Spaces(Width(marker) + 1) \o ls[i]]

\* tightItem: a paragraph first, and nothing but lists behind it.
TightItem(blocks) ==
  \A i \in 1 .. Len(blocks) : IF i = 1 THEN blocks[i].t = "paragraph" ELSE blocks[i].t \in Lists

RECURSIVE Rendered(_)
Rendered(b) ==     \* the lines of a block; <<>> for one that leaves nothing
  LET parts(blocks) == SelectSeq([i \in 1 .. Len(blocks) |-> Rendered(blocks[i])], LAMBDA p : p # <<>>)
  IN CASE b.t = "paragraph" -> IF \A i \in 1 .. Len(b.s) : b.s[i] = "" THEN <<>> ELSE ParagraphLines(b.s)
       [] b.t = "codeBlock" -> CodeBlock(b.s)
       [] b.t = "horizontalRule" -> << <<"---">> >>
       [] b.t = "blockquote" ->
            IF parts(b.c) = <<>> THEN << <<">">> >> ELSE Prefixed(Loose(parts(b.c)))
       [] b.t \in Lists ->
            LET marker == IF b.t = "bulletList" THEN "-" ELSE "1."
                tight  == \A i \in 1 .. Len(b.c) : TightItem(b.c[i].c)
                body(item) == LET ps == parts(item.c) IN IF tight THEN Tight(ps) ELSE Loose(ps)
                item(i) == LET ls == Indented(body(b.c[i]), marker)
                           IN IF ls = <<>> THEN << <<marker, " ">> >>
                              ELSE << <<marker, " ">> \o ls[1]>> \o Tail(ls)
                items == [i \in 1 .. Len(b.c) |-> item(i)]
            IN IF tight THEN Tight(items) ELSE Loose(items)

RenderedDoc(blocks) ==
  Loose(SelectSeq([i \in 1 .. Len(blocks) |-> Rendered(blocks[i])], LAMBDA p : p # <<>>))

-----------------------------------------------------------------------------
\* Reading.

Blank(l) == \A i \in 1 .. Len(l) : l[i] = " "
Lead(l) == Cardinality({i \in 1 .. Len(l) : \A j \in 1 .. i : l[j] = " "})
First(l) == IF Blank(l) THEN "" ELSE l[Lead(l) + 1]
IsFence(l) == Len(l) = Lead(l) + 1 /\ First(l) \in Fences
Closes(l, fence) == IsFence(l) /\ (fence = "fence4" => First(l) = "fence4")
Without(l, n) == SubSeq(l, (IF Lead(l) < n THEN Lead(l) ELSE n) + 1, Len(l))
IsItem(l) == ~Blank(l) /\ First(l) \in {"-", "1."} /\ Len(l) > Lead(l) + 1 /\ l[Lead(l) + 2] = " "
Earliest(S, otherwise) == IF S = {} THEN otherwise ELSE CHOOSE i \in S : \A j \in S : i <= j

\* collapseBlankLines: runs of blank lines become one, but in a code block.
Collapsed(ls) ==
  FoldLeft(LAMBDA acc, l :
      IF acc.fence # "" THEN [acc EXCEPT !.out = Append(@, l),
                                         !.fence = IF Closes(l, @) THEN "" ELSE @]
      ELSE IF l = <<>> /\ acc.out # <<>> /\ acc.out[Len(acc.out)] = <<>> THEN acc
      ELSE [out |-> Append(acc.out, l), fence |-> IF IsFence(l) THEN First(l) ELSE ""],
    [out |-> <<>>, fence |-> ""], ls).out

\* fenceTracker and headingRe: the first line outside of code that reads as a
\* heading ends the scene.
FirstHeading(ls) ==
  FoldLeft(LAMBDA acc, i :
      IF acc.at # 0 THEN acc
      ELSE IF acc.fence # "" THEN [acc EXCEPT !.fence = IF Closes(ls[i], @) THEN "" ELSE @]
      ELSE IF IsFence(ls[i]) THEN [acc EXCEPT !.fence = First(ls[i])]
      ELSE IF First(ls[i]) \in {"#", "##"} THEN [acc EXCEPT !.at = i] ELSE acc,
    [at |-> 0, fence |-> ""], [i \in 1 .. Len(ls) |-> i]).at

\* The kind a line of prose is, its escape taken back.
Kind(l) ==
  LET k == CHOOSE k \in TextLines \cup {""} : \E rest \in {<<>>, <<" ", " ">>} :
             \/ SubSeq(l, 1, Len(l)) = EscapedLine(k) \o rest
             \/ l = (IF k \in {"", "w"} THEN <<k>> ELSE <<k, " ", "w">>) \o rest
  IN k

\* The column an item's text begins at.
Column(l) == Lead(l) + Width(First(l)) + 1

\* Mutant: a blank line ends the item.
ItemEndAtBlank(ls) ==
  Earliest({i \in 2 .. Len(ls) : Blank(ls[i]) \/ Lead(ls[i]) < Column(ls[1])}, Len(ls) + 1) - 1

\* The last line that is the item's: lines set in as far as its text, and
\* blank ones between them.
ItemEnd(ls) ==
  LET stop == Earliest({i \in 2 .. Len(ls) : ~Blank(ls[i]) /\ Lead(ls[i]) < Column(ls[1])}, Len(ls) + 1)
  IN CHOOSE e \in 1 .. (stop - 1) :
       /\ e = 1 \/ ~Blank(ls[e])
       /\ \A i \in (e + 1) .. (stop - 1) : Blank(ls[i])

ItemLines(ls) ==
  <<SubSeq(ls[1], Lead(ls[1]) + 3, Len(ls[1]))>>
    \o [i \in 1 .. (ItemEnd(ls) - 1) |->
          IF Blank(ls[i + 1]) THEN <<>> ELSE SubSeq(ls[i + 1], Column(ls[1]) + 1, Len(ls[i + 1]))]

\* listItem: an item opens with a paragraph.
Item(blocks) ==
  Block("listItem", <<>>,
        IF blocks = <<>> \/ blocks[1].t # "paragraph" THEN <<Block("paragraph", <<>>, <<>>)>> \o blocks ELSE blocks)

RECURSIVE Parsed(_, _), ParsedItems(_)

\* parseList: the items, and the lines behind the list.
ParsedItems(ls) ==
  LET e    == ItemEnd(ls)
      item == Item(Parsed(ItemLines(ls), TRUE))
      next == Earliest({i \in (e + 1) .. Len(ls) : ~Blank(ls[i])}, Len(ls) + 1)
      more == /\ next <= Len(ls) /\ IsItem(ls[next])
              /\ Lead(ls[next]) = Lead(ls[1]) /\ First(ls[next]) = First(ls[1])
      rest == ParsedItems(SubSeq(ls, next, Len(ls)))
  IN IF more THEN [items |-> <<item>> \o rest.items, after |-> rest.after]
     ELSE [items |-> <<item>>, after |-> SubSeq(ls, e + 1, Len(ls))]

\* parseBlockLines
Parsed(ls, inItem) ==
  LET from(i) == SubSeq(ls, i, Len(ls)) IN
  CASE ls = <<>> -> <<>>
    [] ls # <<>> /\ Blank(ls[1]) -> Parsed(Tail(ls), inItem)
    [] ls # <<>> /\ IsFence(ls[1]) ->
         LET close == Earliest({i \in 2 .. Len(ls) : Closes(ls[i], First(ls[1]))}, Len(ls) + 1)
         IN <<Block("codeBlock", [i \in 1 .. (close - 2) |->
                      LET l == Without(ls[i + 1], Lead(ls[1])) IN IF l = <<>> THEN "" ELSE l[1]], <<>>)>>
              \o Parsed(from(close + 1), inItem)
    [] ls # <<>> /\ ls[1] = <<"---">> ->
         <<Block("horizontalRule", <<>>, <<>>)>> \o Parsed(Tail(ls), inItem)
    [] ls # <<>> /\ First(ls[1]) \in {"#", "##"} /\ Lead(ls[1]) <= 3 ->
         <<Block("heading", <<>>, <<>>)>> \o Parsed(Tail(ls), inItem)
    [] ls # <<>> /\ First(ls[1]) = ">" /\ Lead(ls[1]) <= 3 ->
         LET e == Earliest({i \in 1 .. Len(ls) : First(ls[i]) # ">" \/ Lead(ls[i]) > 3}, Len(ls) + 1)
             inner(l) == LET t == SubSeq(l, Lead(l) + 2, Len(l))
                         IN IF t # <<>> /\ t[1] = " " THEN Tail(t) ELSE t
         IN <<Block("blockquote", <<>>, Parsed([i \in 1 .. (e - 1) |-> inner(ls[i])], FALSE))>>
              \o Parsed(from(e), inItem)
    [] ls # <<>> /\ IsItem(ls[1]) ->
         LET r == ParsedItems(ls)
         IN <<Block(IF First(ls[1]) = "-" THEN "bulletList" ELSE "orderedList", <<>>, r.items)>>
              \o Parsed(r.after, inItem)
    [] OTHER ->
         LET e == Earliest({i \in 2 .. Len(ls) : Blank(ls[i]) \/ (inItem /\ (IsItem(ls[i]) \/ IsFence(ls[i])))},
                           Len(ls) + 1)
         IN <<Block("paragraph", [i \in 1 .. (e - 1) |-> Kind(ls[i])], <<>>)>> \o Parsed(from(e), inItem)

-----------------------------------------------------------------------------
\* The marks within a paragraph.  A run is [k, text, marks]: text, code or a
\* hard break, with the marks it carries; a text is a sequence of letters, and
\* (h) is where a link goes.

Delimiter(m) ==
  CASE m = "link" -> <<"[">> [] m = "bold" -> <<"**">> [] m = "italic" -> <<"_">> [] OTHER -> <<"~", "~">>
Ends(m) == IF m = "link" THEN <<"]", "(h)">> ELSE Delimiter(m)

Ordered(ms) == SelectSeq(Marks, LAMBDA m : m \in ms)
Shared(a, b) ==
  SubSeq(a, 1, Cardinality({i \in 1 .. Len(a) : i <= Len(b) /\ \A j \in 1 .. i : a[j] = b[j]}))

\* A break carries what its neighbours share.
MarksAt(rs, i) ==
  IF rs[i].k # "break" THEN Ordered(rs[i].marks)
  ELSE IF i = 1 \/ i = Len(rs) THEN <<>> ELSE Shared(Ordered(rs[i - 1].marks), Ordered(rs[i + 1].marks))

\* escapeText: a tilde next to another is escaped, one alone is not, and a
\* bracket is not.
Escaped(text, i) ==
  LET next(j) == j \in 1 .. Len(text) /\ text[j] = "~" IN
  IF text[i] = "*" THEN "e*" ELSE IF text[i] = "~" /\ (next(i - 1) \/ next(i + 1)) THEN "e~" ELSE text[i]

TokensOf(r) ==
  CASE r.k = "break" -> <<"br">>
    [] r.k = "code" -> <<"tick">> \o r.text \o <<"tick">>
    [] OTHER -> [i \in 1 .. Len(r.text) |-> Escaped(r.text, i)]

\* Mutant: marks are closed from the outermost one.
ClosedOutward(ms) == FlattenSeq([i \in 1 .. Len(ms) |-> Ends(ms[i])])

Closed(ms) == FlattenSeq([i \in 1 .. Len(ms) |-> Ends(ms[Len(ms) + 1 - i])])

\* renderInlines: marks are opened and closed as the set changes.
Inline(rs) ==
  LET at(i) == IF i = 0 \/ i > Len(rs) THEN <<>> ELSE MarksAt(rs, i)
      step(i) == LET keep == Len(Shared(at(i - 1), at(i)))
                 IN Closed(SubSeq(at(i - 1), keep + 1, Len(at(i - 1))))
                      \o FlattenSeq([n \in 1 .. (Len(at(i)) - keep) |-> Delimiter(at(i)[keep + n])])
                      \o (IF i > Len(rs) THEN <<>> ELSE TokensOf(rs[i]))
  IN FlattenSeq([i \in 1 .. (Len(rs) + 1) |-> step(i)])

\* closeCodeSpan and indexClose: where the code or the span that was opened
\* ends, no delimiter inside of code counted.
InCode(ts, from, i) == Cardinality({j \in from .. (i - 1) : ts[j] = "tick"}) % 2 = 1
IsAt(ts, i, delim) == i + Len(delim) - 1 <= Len(ts) /\ SubSeq(ts, i, i + Len(delim) - 1) = delim
CloseAt(ts, from, delim) ==
  Earliest({i \in from .. Len(ts) : IsAt(ts, i, delim) /\ (delim # <<"tick">> => ~InCode(ts, from, i))}, 0)

\* parseLink: the bracket that closes the first one, brackets in between paired
\* and those in code not counted; no link unless its target is right behind.
Brackets(ts, b, to) == Cardinality({j \in 1 .. to : ts[j] = b /\ ~InCode(ts, 1, j)})
LinkEnd(ts) ==
  LET paired == {i \in 1 .. Len(ts) : Brackets(ts, "[", i) = Brackets(ts, "]", i)}
      close  == Earliest({i \in paired : ts[i] = "]" /\ ~InCode(ts, 1, i)}, 0)
  IN IF close > 0 /\ IsAt(ts, close + 1, <<"(h)">>) THEN close ELSE 0

Letter(t) == IF t = "e*" THEN "*" ELSE IF t = "e~" THEN "~" ELSE t

\* parseSpan: a span with nothing in it is no span.
RECURSIVE Spans(_, _)
Spans(ts, ms) ==
  IF ts = <<>> THEN <<>>
  ELSE LET after(n) == SubSeq(ts, n, Len(ts))
           mark == {m \in Range(Marks) \ {"link"} : IsAt(ts, 1, Delimiter(m))}
           open == IF mark = {} THEN 0 ELSE Len(Delimiter(CHOOSE m \in mark : TRUE))
           end  == CASE ts[1] = "tick" -> CloseAt(ts, 2, <<"tick">>)
                     [] ts[1] = "[" -> LinkEnd(ts)
                     [] mark # {} -> CloseAt(ts, open + 1, Delimiter(CHOOSE m \in mark : TRUE))
                     [] OTHER -> 0
       IN CASE ts[1] = "br" -> <<[k |-> "break", text |-> <<>>, marks |-> {}]>> \o Spans(Tail(ts), ms)
            [] ts[1] = "tick" /\ end > 0 ->
                 <<[k |-> "code", text |-> SubSeq(ts, 2, end - 1), marks |-> {}]>> \o Spans(after(end + 1), ms)
            [] ts[1] = "[" /\ end > 0 -> Spans(SubSeq(ts, 2, end - 1), ms \cup {"link"}) \o Spans(after(end + 2), ms)
            [] mark # {} /\ end > open + 1 ->
                 Spans(SubSeq(ts, open + 1, end - 1), ms \cup mark) \o Spans(after(end + open), ms)
            [] OTHER -> <<[k |-> "text", text |-> <<Letter(ts[1])>>, marks |-> ms]>> \o Spans(Tail(ts), ms)

\* mergeText: neighbours with the same marks are one.
Merged(rs) ==
  FoldLeft(LAMBDA out, r :
      IF out # <<>> /\ r.k = "text" /\ out[Len(out)].k = "text" /\ out[Len(out)].marks = r.marks
      THEN [out EXCEPT ![Len(out)].text = @ \o r.text]
      ELSE Append(out, r), <<>>, rs)

-----------------------------------------------------------------------------
Paragraphs == {Block("paragraph", s, <<>>) : s \in {<<>>} \cup {<<t>> : t \in TextLines}
                                                   \cup {<<"w", t>> : t \in TextLines}}
Codes == {Block("codeBlock", s, <<>>) : s \in {<<>>} \cup {<<l>> : l \in CodeLines} \cup {<<"", l, "c">> : l \in {"", "#"}}}
Leaves == Paragraphs \cup Codes \cup {Block("horizontalRule", <<>>, <<>>)}
ListsOf(items) == {Block(t, <<>>, <<i>>) : t \in Lists, i \in items}
ItemsOf(ps, bs) ==
  {Block("listItem", <<>>, <<p>>) : p \in ps} \cup {Block("listItem", <<>>, <<p, b>>) : p \in ps, b \in bs}
Word == Block("paragraph", <<"w">>, <<>>)
Openers == {Block("paragraph", <<>>, <<>>), Word, Block("paragraph", <<"w", "-">>, <<>>)}
Quotes(bs) == {Block("blockquote", <<>>, <<b>>) : b \in bs} \cup {Block("blockquote", <<>>, <<Word, b>>) : b \in bs}
\* Lists whose items hold a block, quotes of one or two, and these in each other.
Level1 == ListsOf(ItemsOf(Openers, Leaves)) \cup Quotes(Leaves)
Level2 == ListsOf(ItemsOf(Openers, Level1)) \cup Quotes(Level1)
Twos == {Block(t, <<>>, <<i, j>>) : t \in Lists, i \in ItemsOf(Openers, Leaves), j \in ItemsOf({Word}, Codes)}

\* Runs of text, with a bracket or a tilde alone or at either end; neighbours
\* that carry the same marks are one.
Prose == {<<"w">>, <<"*">>, <<"[">>, <<"w", "]">>, <<"[", "w", "]">>, <<"w", "~">>, <<"~", "w">>, <<"~", "~">>}
Plains(texts) == {[k |-> "text", text |-> t, marks |-> m] : t \in texts, m \in SUBSET Range(Marks)}
CodeRuns == {[k |-> "code", text |-> <<t>>, marks |-> {}] : t \in {"w", "**", "]"}}
Break == [k |-> "break", text |-> <<>>, marks |-> {}]
Words == {r \in Plains({<<"w">>}) : Cardinality(r.marks) <= 1} \cup CodeRuns
RunsOf(rs) ==
  \A i \in 1 .. (Len(rs) - 1) : rs[i].k = "text" /\ rs[i + 1].k = "text" => rs[i].marks # rs[i + 1].marks
Ending == Plains({<<"w">>, <<"w", "]">>, <<"~", "w">>})
Pairs == {<<a, b>> : a \in Plains(Prose), b \in Ending}
Triples == {<<a, b, c>> : a, c \in Words, b \in Plains(Prose) \cup CodeRuns \cup {Break}}
Paragraph == {rs \in Pairs \cup Triples : RunsOf(rs)}

\* Two lists of one kind that meet read as one.
Apart(blocks) ==
  \A i \in 1 .. (Len(blocks) - 1) : ~(blocks[i].t \in Lists /\ blocks[i + 1].t = blocks[i].t)

Init ==
  /\ stage = "chosen"
  /\ \/ /\ doc \in {<<b>> : b \in Leaves \cup Level1 \cup Level2 \cup Twos}
                     \cup {d \in {<<a, b>> : a \in Level1, b \in Leaves \cup Level1} : Apart(d)}
        /\ runs = <<>>
     \/ /\ doc = <<>>
        /\ runs \in Paragraph
  /\ lines = <<>> /\ scene = <<>> /\ closed = TRUE /\ tokens = <<>> /\ spans = <<>>

\* DocToMarkdown, and the heading of the next scene behind it.
Write ==
  /\ stage = "chosen"
  /\ stage' = "written"
  /\ lines' = Collapsed(RenderedDoc(doc) \o << <<>>, <<"##">> >>)
  /\ tokens' = Inline(runs)
  /\ UNCHANGED <<doc, scene, closed, runs, spans>>

\* parseOutlineBody's cut, and ParseBlocks; ParseInlines.
Read ==
  /\ stage = "written"
  /\ stage' = "read"
  /\ closed' = (FirstHeading(lines) = Len(lines))
  /\ scene' = Parsed(SubSeq(lines, 1, (IF FirstHeading(lines) = 0 THEN Len(lines) ELSE FirstHeading(lines) - 1)), FALSE)
  /\ spans' = Merged(Spans(tokens, {}))
  /\ UNCHANGED <<doc, lines, runs, tokens>>

Next == Write \/ Read

Spec == Init /\ [][Next]_vars

-----------------------------------------------------------------------------
\* What a document is but for empty paragraphs, which leave no trace.
RECURSIVE Canon(_)
Canon(blocks) ==
  LET full == SelectSeq(blocks, LAMBDA b : b.t # "paragraph" \/ b.s # <<>>)
  IN [i \in 1 .. Len(full) |->
        IF full[i].t = "listItem" THEN Item(Canon(full[i].c)) ELSE [full[i] EXCEPT !.c = Canon(@)]]

\* An item that has nothing before its code block: the fence stands behind the
\* item's marker, where the pass for headings does not see it.
RECURSIVE BareFence(_)
BareFence(blocks) ==
  \E i \in 1 .. Len(blocks) :
     \/ /\ blocks[i].t = "listItem" /\ Canon(blocks[i].c) # <<>>
        /\ Canon(blocks[i].c)[1].t = "codeBlock"
     \/ BareFence(blocks[i].c)

\* The letters of a link, from its first run to its last.
Linked(rs, i, j) ==
  LET in(n) == n \in 1 .. Len(rs) /\ "link" \in Range(MarksAt(rs, n))
  IN i <= j /\ (\A n \in i .. j : in(n)) /\ ~in(i - 1) /\ ~in(j + 1)
LettersOf(rs, i, j) == FlattenSeq([n \in 1 .. (j - i + 1) |-> rs[i + n - 1].text])
Paired(letters) ==
  LET Upto(b, n) == Cardinality({m \in 1 .. n : letters[m] = b})
  IN /\ \A n \in 1 .. Len(letters) : Upto("]", n) <= Upto("[", n)
     /\ Upto("]", Len(letters)) = Upto("[", Len(letters))

\* What is not escaped and may be read as syntax: a bracket without its other in
\* the text of a link, a tilde right before one that begins or ends struck text.
BareBracket(rs) == \E i, j \in 1 .. Len(rs) : Linked(rs, i, j) /\ ~Paired(LettersOf(rs, i, j))
BareTilde(rs) ==
  \E i \in 1 .. Len(rs) :
     LET now  == MarksAt(rs, i)
         next == IF i = Len(rs) THEN <<>> ELSE MarksAt(rs, i + 1)
     IN /\ rs[i].k = "text" /\ rs[i].text[Len(rs[i].text)] = "~" /\ rs[i].text # <<"~", "~">>
        /\ \/ "strike" \in Range(now) /\ Shared(now, next) # now
           \/ next = Append(now, "strike")

Meant(rs) == Merged([i \in 1 .. Len(rs) |-> [rs[i] EXCEPT !.marks = IF rs[i].k = "text" THEN @ ELSE {}]])

\* A scene that is written out and read again is the scene it was, the next
\* one begins where it did, and every piece of text has its marks, but for a
\* code block at the head of an item, a bare bracket and a bare tilde.
ReadsAsWritten ==
  stage = "read" =>
     /\ ~BareFence(doc) => scene = Canon(doc) /\ closed
     /\ ~BareBracket(runs) /\ ~BareTilde(runs) => spans = Meant(runs)

\* TestExportImportRoundTrip's comment: everything the editor can put in a
\* scene comes out as the same document. Not so, of the marks.
MarksComeBack == stage = "read" => spans = Meant(runs)
=============================================================================
