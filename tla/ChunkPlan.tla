------------------------------ MODULE ChunkPlan ------------------------------
(* How an oversize paper is cut into chunks (extraction/chunker.py) and what   *)
(* the runners make of the plan: which text a prompt carries and which chunks  *)
(* are dispatched.  A document is a sequence of sections, a section its kind   *)
(* and the lengths of its paragraphs; offsets count characters.                *)
EXTENDS Integers, Sequences, SequencesExt

CONSTANTS Documents, PlanLimits, CharsPerToken

ASSUME CharsAssumption == CharsPerToken \in Nat \ {0}

VARIABLES doc, limits, plan
planVars == <<doc, limits, plan>>

AtLeast(m, n) == IF m >= n THEN m ELSE n
Tokens(chars) == AtLeast(1, chars \div CharsPerToken)
Total(lengths) == FoldLeft(+, 0, lengths)

Lengths(d)      == FlattenSeq([i \in DOMAIN d |-> d[i].paras])
SectionStart(d, i) == Total(Lengths(SubSeq(d, 1, i - 1)))
SectionEnd(d, i)   == SectionStart(d, i) + Total(d[i].paras)

(* References leave the plan, unless nothing else would be left.               *)
PlanSections(d) ==
  LET body == {i \in DOMAIN d : d[i].kind # "references"} IN
  IF body = {} THEN DOMAIN d ELSE body

InputBudget(c) == AtLeast(1, c.window - c.overhead - c.reserved)

Extent(from, to) == [from |-> from, to |-> to]
Size(r) == Tokens(r.to - r.from)

(* A section that fits is one unit, another is its paragraphs.                 *)
SectionUnits(c, d, i) ==
  LET start == SectionStart(d, i)
      whole == Extent(start, SectionEnd(d, i))
      ParaStart(k) == start + Total(SubSeq(d[i].paras, 1, k - 1))
  IN IF whole.to = start THEN << >>
     ELSE IF Size(whole) <= InputBudget(c) THEN <<whole>>
     ELSE [k \in DOMAIN d[i].paras |-> Extent(ParaStart(k), ParaStart(k) + d[i].paras[k])]

Units(c, d) ==
  FlattenSeq([i \in DOMAIN d |-> IF i \in PlanSections(d) THEN SectionUnits(c, d, i) ELSE << >>])

\* (mutant) an oversized unit replaces the open chunk
PackOver(c, packed, u) ==
  LET grown == IF packed.open = << >> THEN u ELSE Extent(packed.open[1].from, u.to)
  IN IF Size(u) > InputBudget(c) THEN [done |-> Append(packed.done, u), open |-> << >>]
     ELSE IF Size(grown) <= InputBudget(c) THEN [packed EXCEPT !.open = <<grown>>]
     ELSE [done |-> packed.done \o packed.open, open |-> <<u>>]

(* Greedy packing: the open chunk grows while the text up to the unit's end    *)
(* fits; a unit over the budget becomes a chunk of its own.                    *)
Pack(c, packed, u) ==
  LET flushed == packed.done \o packed.open
      grown == IF packed.open = << >> THEN u ELSE Extent(packed.open[1].from, u.to)
  IN IF Size(u) > InputBudget(c) THEN [done |-> Append(flushed, u), open |-> << >>]
     ELSE IF Size(grown) <= InputBudget(c) THEN [packed EXCEPT !.open = <<grown>>]
     ELSE [done |-> flushed, open |-> <<u>>]

RawChunks(c, d) ==
  LET packed == FoldLeft(LAMBDA p, u : Pack(c, p, u), [done |-> << >>, open |-> << >>], Units(c, d))
  IN packed.done \o packed.open

(* Each chunk but the first also reads the tail of the one before.             *)
ReadFrom(c, raw, i) ==
  IF i = 1 THEN raw[i].from
  ELSE AtLeast(raw[i - 1].from, raw[i].from - c.overlap * CharsPerToken)

PlanOf(c, d) ==
  LET raw == RawChunks(c, d) IN
  [i \in DOMAIN raw |->
     [own |-> raw[i],
      read |-> Extent(ReadFrom(c, raw, i), raw[i].to),
      est |-> Tokens(raw[i].to - ReadFrom(c, raw, i)) + c.overhead]]

(* The runner's gate before each dispatch.                                     *)
Fate(c, chunk) ==
  IF chunk.est <= AtLeast(1, c.window - c.reserved) THEN "sent"
  ELSE IF chunk.est > c.window THEN "skipped_context"
  ELSE "skipped_oversize_section"

PlanInit == doc \in Documents /\ limits \in PlanLimits /\ plan = << >>

PlanChunks ==
  /\ plan = << >>
  /\ plan' = PlanOf(limits, doc)
  /\ UNCHANGED <<doc, limits>>

PlanSpec == PlanInit /\ [][PlanChunks]_planVars

-----------------------------------------------------------------------------
Within(r, s) == s.from <= r.from /\ r.to <= s.to

(* Every paragraph of every planned section lies whole in the own text of      *)
(* exactly one chunk: the plan drops nothing and cuts no paragraph.            *)
EveryParagraphOnce ==
  plan # << >> =>
    \A i \in PlanSections(doc) : \A k \in DOMAIN doc[i].paras :
      LET from == SectionStart(doc, i) + Total(SubSeq(doc[i].paras, 1, k - 1))
          para == Extent(from, from + doc[i].paras[k])
          holders == {j \in DOMAIN plan : Within(para, plan[j].own)}
      IN \E j \in holders : holders = {j}

(* Chunks follow the document, an overlap never reaches behind the previous    *)
(* chunk, and a chunk over the input budget is one indivisible unit.           *)
PlanIsOrderly ==
  /\ \A j \in DOMAIN plan : j > 1 =>
       /\ plan[j - 1].own.to <= plan[j].own.from
       /\ plan[j - 1].own.from <= plan[j].read.from
       /\ plan[j].read.from <= plan[j].own.from
  /\ \A j \in DOMAIN plan : Size(plan[j].own) > InputBudget(limits) =>
       plan[j].own \in Range(Units(limits, doc))

(* The plan reads the document: each paragraph once, in order, within bounds.  *)
PlanIsExact == EveryParagraphOnce /\ PlanIsOrderly

=============================================================================
