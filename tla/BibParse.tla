-------------------------------- MODULE BibParse --------------------------------
(* The references region of a markdown cut into entries (citation/bib_parser.py).*)
(* A range is a list of lines under a heading; what a line is, its number and    *)
(* the authors at which a collapsed line splits, is read off its text by regular *)
(* expressions that are left out.  A line: kind "enum" (opens with a number),    *)
(* "dash" (same author as before), "author", "more" (continues), "debris".       *)
EXTENDS Integers, Sequences, SequencesExt, FiniteSets, FiniteSetsExt

CONSTANTS Regions, NoAuthor

VARIABLES region, parsed
bibVars == <<region, parsed>>

NotParsed == << >>

-----------------------------------------------------------------------------
Line(range, i) == range.lines[i]
Kept(range) == SelectSeq([i \in DOMAIN range.lines |-> i], LAMBDA i : Line(range, i).kind # "debris")

Numbers(range) ==
  LET numbered == SelectSeq(Kept(range), LAMBDA i : Line(range, i).kind = "enum")
  IN [k \in DOMAIN numbered |-> Line(range, numbered[k]).num]

(* At least three numbers that mostly increase; under the heading of a sub-list *)
(* any number will do.                                                          *)
EnumeratedSection(nums) ==
  /\ Len(nums) >= 3
  /\ 10 * Cardinality({i \in 2..Len(nums) : nums[i] > nums[i - 1]}) >= 8 * (Len(nums) - 1)

Enumerated(range) == (range.discrete /\ Numbers(range) # << >>) \/ EnumeratedSection(Numbers(range))

IsStart(range, i) ==
  Line(range, i).kind \in IF Enumerated(range) THEN {"enum", "dash"} ELSE {"enum", "dash", "author"}

(* The lines are gathered in a buffer that each start flushes; what stands      *)
(* before the first number is dropped.                                          *)
Gathered(range) ==
  FoldLeft(LAMBDA acc, i :
             LET start == IsStart(range, i)
                 first == Enumerated(range) /\ start /\ ~acc.started
                 buf == IF first THEN << >> ELSE acc.buf
             IN [started |-> acc.started \/ start,
                 out |-> IF start /\ buf # << >> THEN Append(acc.out, buf) ELSE acc.out,
                 buf |-> IF start /\ buf # << >> THEN <<i>> ELSE Append(buf, i)],
           [started |-> FALSE, out |-> << >>, buf |-> << >>], Kept(range))

\* (mutant) the last buffer is not flushed
FlushedEarly(range) == Gathered(range).out

Flushed(range) ==
  LET g == Gathered(range) IN IF g.buf = << >> THEN g.out ELSE Append(g.out, g.buf)

(* A collapsed line stands for several entries: the author at each split opens   *)
(* the next.  An entry keeps the lines it is made of.                            *)
Pieces(range, lines) ==
  LET cuts  == {<<k, n>> \in (DOMAIN lines) \X (2..3) : n <= Len(Line(range, lines[k]).authors)}
      opens == <<<<1, 1>>>> \o SetToSortSeq(cuts, LAMBDA a, b : a[1] < b[1] \/ (a[1] = b[1] /\ a[2] < b[2]))
      upto(s) == IF s = Len(opens) THEN Len(lines) ELSE opens[s + 1][1]
  IN [s \in DOMAIN opens |-> [lines |-> SubSeq(lines, opens[s][1], upto(s)), at |-> opens[s][2]]]

Whole(lines) == [lines |-> lines, at |-> 1]

Reflow(range) ==
  IF Enumerated(range) \/ range.discrete THEN [k \in DOMAIN Flushed(range) |-> Whole(Flushed(range)[k])]
  ELSE FlattenSeq([k \in DOMAIN Flushed(range) |-> Pieces(range, Flushed(range)[k])])

-----------------------------------------------------------------------------
(* A dash takes the author of the entry before, within its range.               *)
Entry(range, r, piece, prev) ==
  LET line == Line(range, piece.lines[1])
      named == line.authors[piece.at]
      dash == piece.at = 1 /\ line.kind = "dash"
  IN [range |-> r, lines |-> piece.lines, at |-> piece.at,
      author |-> IF dash /\ named = NoAuthor THEN prev ELSE named, carried |-> dash /\ named = NoAuthor]

Prev(prev, entry) == IF entry.author = NoAuthor THEN prev ELSE entry.author

EntriesOf(range, r) ==
  FoldLeft(LAMBDA acc, piece :
             LET e == Entry(range, r, piece, acc.prev)
             IN [prev |-> Prev(acc.prev, e), out |-> Append(acc.out, e)],
           [prev |-> NoAuthor, out |-> << >>], Reflow(range)).out

ParseReferences(ranges) == FlattenSeq([r \in DOMAIN ranges |-> EntriesOf(ranges[r], r)])

BibStart == parsed = NotParsed
BibInit  == region \in Regions /\ BibStart

Parse ==
  /\ parsed = NotParsed /\ \E r \in DOMAIN region : Kept(region[r]) # << >>
  /\ parsed' = ParseReferences(region)
  /\ UNCHANGED region

BibSpec == BibInit /\ [][Parse]_bibVars

-----------------------------------------------------------------------------
In(r) == {e \in DOMAIN parsed : parsed[e].range = r}
LinesOf(e) == ToSet(parsed[e].lines)

(* What comes before the first start of a numbered list.                        *)
Preamble(range) ==
  {i \in ToSet(Kept(range)) : /\ Enumerated(range)
                              /\ \A j \in ToSet(Kept(range)) : IsStart(range, j) => i < j}

(* No line of a bibliography is lost, repeated or moved: each is in one entry,   *)
(* or in the neighbours it was split between, in the order of the text; only     *)
(* page debris and the preamble of a numbered list are left out.                 *)
NoLineIsLost ==
  parsed # NotParsed =>
    /\ \A r \in DOMAIN region :
         \A i \in ToSet(Kept(region[r])) :
           LET holders == {e \in In(r) : i \in LinesOf(e)} IN
           \/ i \in Preamble(region[r]) /\ holders = {}
           \/ Cardinality(holders) \in 1..Len(Line(region[r], i).authors)
    /\ \A e \in 1..(Len(parsed) - 1) :
         \/ parsed[e].range < parsed[e + 1].range
         \/ parsed[e].range = parsed[e + 1].range /\ Max(LinesOf(e)) <= Min(LinesOf(e + 1))

(* A dash repeats the nearest author named before it in the same list, and no    *)
(* author where none was named: never one of another list.                       *)
CarriedIsNearest ==
  \A e \in DOMAIN parsed :
    parsed[e].carried =>
      LET named == {f \in In(parsed[e].range) : f < e /\ parsed[f].author # NoAuthor}
      IN parsed[e].author = IF named = {} THEN NoAuthor ELSE parsed[Max(named)].author

(* A numbered list and the list of a discussion are never shredded: each entry   *)
(* opens at a start and no line is shared by two entries.                        *)
ListsStayWhole ==
  \A r \in DOMAIN region :
    parsed # NotParsed /\ (Enumerated(region[r]) \/ region[r].discrete) =>
      \A e, f \in In(r) : e # f => LinesOf(e) \cap LinesOf(f) = {}

(* The entries are the bibliography: every line in its place, a dash for the     *)
(* author it repeats, and lists unbroken.                                        *)
EntriesAreTheText == NoLineIsLost /\ CarriedIsNearest /\ ListsStayWhole
=============================================================================
