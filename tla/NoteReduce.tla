------------------------------ MODULE NoteReduce ------------------------------
(* From what the model answered for each chunk to the claims of one note:      *)
(* extraction/normalize.py (one answer to drafts), extraction/reduce.py (the   *)
(* drafts of all chunks to merged claims) and the anchoring rule of            *)
(* save_normalized_note.  An answer has one scalar field and one array family, *)
(* which stand for the four and the seven of the schema; NoEnvelope is a       *)
(* scalar the answer leaves out.                                               *)
EXTENDS Integers, Sequences, SequencesExt

CONSTANTS ChunkAnswers, NoEnvelope

(* answers[i]: what chunk i was answered; a failed chunk has no answer left.   *)
VARIABLES answers, merged
reduceVars == <<answers, merged>>

Substantive == {"found", "ambiguous"}

(* A status outside the vocabulary counts as found.                            *)
NormalStatus(s) == IF s \in Substantive \cup {"not_found", "not_applicable"} THEN s ELSE "found"

Draft(env) == [status |-> NormalStatus(env.status), label |-> env.label,
               confidence |-> env.confidence, quotes |-> env.quotes, chunk |-> 0]

Absent == [status |-> "not_found", label |-> "none", confidence |-> -1, quotes |-> {}, chunk |-> 0]

(* An inference nobody explains fails the whole answer.                        *)
Unexplained(answer) ==
  \/ answer.scalar # NoEnvelope /\ answer.scalar.inferred = "unexplained"
  \/ \E i \in DOMAIN answer.elements : answer.elements[i].inferred = "unexplained"

(* The drafts of a chunk: none when its answer fails.                          *)
NormalizeNote(answer) ==
  IF Unexplained(answer) THEN [scalar |-> << >>, elements |-> << >>]
  ELSE [scalar |-> <<IF answer.scalar = NoEnvelope THEN Absent ELSE Draft(answer.scalar)>>,
        elements |-> IF answer.elements = << >> THEN <<Absent>>
                     ELSE [i \in DOMAIN answer.elements |-> Draft(answer.elements[i])]]

(* The drafts of one kind, tagged with their chunk, in chunk order.            *)
Tagged(as, kind) ==
  FlattenSeq([c \in DOMAIN as |->
    LET drafts == NormalizeNote(as[c])[kind] IN
    [i \in DOMAIN drafts |-> [drafts[i] EXCEPT !.chunk = c]]])

OfStatus(drafts, statuses) == SelectSeq(drafts, LAMBDA d : d.status \in statuses)

(* The most confident draft, the earliest of equals.                           *)
Best(drafts) ==
  LET better(i, j) == \/ drafts[i].confidence > drafts[j].confidence
                      \/ drafts[i].confidence = drafts[j].confidence /\ i <= j
  IN drafts[CHOOSE i \in DOMAIN drafts : \A j \in DOMAIN drafts : better(i, j)]

MergedScalar(as) ==
  LET drafts == Tagged(as, "scalar")
      found == OfStatus(drafts, {"found"})
      ambiguous == OfStatus(drafts, {"ambiguous"})
  IN IF found # << >> THEN Best(found)
     ELSE IF ambiguous # << >> THEN [Best(ambiguous) EXCEPT !.quotes = {}]
     ELSE Absent

Labels(drafts) == {drafts[i].label : i \in DOMAIN drafts}

\* (mutant) the winner keeps only its own quotes
MergedWinners(as) ==
  LET drafts == OfStatus(Tagged(as, "elements"), Substantive)
      group(label) == SelectSeq(drafts, LAMBDA d : d.label = label)
  IN IF drafts = << >> THEN {Absent} ELSE {Best(group(label)) : label \in Labels(drafts)}

(* One claim per label: the best draft of the label, with all their quotes.    *)
MergedElements(as) ==
  LET drafts == OfStatus(Tagged(as, "elements"), Substantive)
      group(label) == SelectSeq(drafts, LAMBDA d : d.label = label)
      union(label) == UNION {group(label)[i].quotes : i \in DOMAIN group(label)}
  IN IF drafts = << >> THEN {Absent}
     ELSE {[Best(group(label)) EXCEPT !.quotes = union(label)] : label \in Labels(drafts)}

MergeChunkDrafts(as) == [scalar |-> MergedScalar(as), elements |-> MergedElements(as)]

(* Only the quotes of a found claim become evidence spans.                     *)
Anchored(claim) == IF claim.status = "found" THEN claim.quotes ELSE {}

NotMerged == [scalar |-> Absent, elements |-> {}]

ReduceInit == answers \in ChunkAnswers /\ merged = NotMerged

ReduceNotes ==
  /\ merged = NotMerged
  /\ merged' = MergeChunkDrafts(answers)
  /\ UNCHANGED answers

ReduceSpec == ReduceInit /\ [][ReduceNotes]_reduceVars

-----------------------------------------------------------------------------
Usable == {c \in DOMAIN answers : ~Unexplained(answers[c])}
Envelopes(status) ==
  {<<c, i>> \in Usable \X (1..2) : i \in DOMAIN answers[c].elements
                                   /\ NormalStatus(answers[c].elements[i].status) \in status}

(* The note says "not found" of a field exactly when no usable chunk said      *)
(* anything of it, and never loses or joins two labels (reduce.py:148-277).    *)
AbsentOnlyIfAbsent ==
  merged # NotMerged =>
    /\ Absent \in merged.elements <=> Envelopes(Substantive) = {}
    /\ \A p \in Envelopes(Substantive) :
         \E claim \in merged.elements :
           /\ claim.label = answers[p[1]].elements[p[2]].label
           /\ answers[p[1]].elements[p[2]].quotes \subseteq claim.quotes
    /\ \A a, b \in merged.elements : a.label = b.label => a = b
    /\ (\E c \in Usable : answers[c].scalar # NoEnvelope
                          /\ NormalStatus(answers[c].scalar.status) = "found")
         <=> merged.scalar.status = "found"

(* A merged claim says nothing no chunk said: its status, label and confidence *)
(* are those of one draft of the chunk it names as its source.                 *)
ClaimsHaveASource ==
  merged # NotMerged =>
    \A claim \in merged.elements \ {Absent} :
      \E p \in Envelopes({claim.status}) :
        /\ p[1] = claim.chunk
        /\ answers[p[1]].elements[p[2]].label = claim.label
        /\ answers[p[1]].elements[p[2]].confidence = claim.confidence

(* The merged note says what the chunks said: no less and no more.             *)
ReduceIsFaithful == AbsentOnlyIfAbsent /\ ClaimsHaveASource

=============================================================================
