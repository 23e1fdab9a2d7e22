------------------------------ MODULE MCIdentity ------------------------------
(* WorkIdentity on a handful of records: a preprint and its published version *)
(* share an arXiv id but not a DOI; some records have only an id or a title.  *)
EXTENDS WorkIdentity

CONSTANTS d1, d2, o1, o2, x1, t1, t2

Rec(doi, openalex, arxiv, title) ==
  [ids |-> [t \in Types |-> CASE t = "doi" -> doi [] t = "openalex" -> openalex [] OTHER -> arxiv],
   title |-> title]

Alias(x) == <<"10.48550", x>>

Preprint  == Rec(NoId, NoId, x1, t1)
Published == Rec(d1, NoId, x1, t2)
Rival     == Rec(d2, NoId, x1, t1)
Bare      == Rec(NoId, o1, NoId, NoTitle)
Stub      == Rec(NoId, NoId, NoId, t1)
Indexed   == Rec(d1, o1, NoId, t1)
Reindexed == Rec(d1, o2, NoId, NoTitle)
Untitled  == Rec(d1, o1, NoId, NoTitle)
Clash     == Rec(d2, o1, NoId, NoTitle)

AllRecords   == {Preprint, Published, Rival, Bare, Indexed, Reindexed}
SomeRecords  == {Preprint, Published, Rival}
MergeRecords == {Bare, Indexed, Reindexed}
ArxivRecords == {Preprint, Rec(NoId, NoId, NoId, t2)}
TitleRecords == {Untitled, Clash, Stub}
RaceRecords  == {Untitled, Stub}
QuestionRecords == {Untitled, Reindexed, Stub}
PaperSays    == {Rec(d1, NoId, x1, t2), Rec(d2, NoId, NoId, NoTitle)}
PaperAlias   == {Rec(Alias(x1), NoId, NoId, t1)}
ProviderSays == {Rec(d1, o1, NoId, t1), Rec(d2, NoId, x1, t1)}
=============================================================================
