-------------------------- MODULE WorkIdentity_proofs --------------------------
(***************************************************************************)
(* What is true of works and identifiers for any records, names, clients   *)
(* and bounds.  Rows, which needs no assumption: the tables are typed,     *)
(* which is their foreign keys, names stay what they became, and open      *)
(* items name works.  Bonds, for one job at a time or one client: every    *)
(* column is owned by somebody, a work nobody merged into shows what it    *)
(* owns, and works that share an identifier are linked by items.  Reads,   *)
(* for the same: what a job has read is still so when it writes, unless a  *)
(* reviewer merged the work away.  Bonds and Reads suppose that no paper   *)
(* prints arXiv's own DOI of itself: update_work_bibliography stores that  *)
(* one unfolded, and then neither is true.                                 *)
(***************************************************************************)
EXTENDS WorkIdentity, FiniteSetTheorems, SequenceTheorems, WellFoundedInduction, TLAPS

\* What a name became is a work or was one; names not given out are their own.
NamesOK ==
  /\ \A w \in DOMAIN works : became[w] = w
  /\ \A w \in Names : IF w > minted THEN became[w] = w ELSE became[w] <= minted

\* With one job at a time nobody merges a work away while a provider is asked.
ResolvesLive ==
  ~Overlap => \A c \in Clients : look[c].job = "resolve" => look[c].work \in DOMAIN works

Rows == TypeOK /\ NamesOK /\ ResolvesLive /\ OpenItemsTargetWorks

-----------------------------------------------------------------------------
(* Records *)

\* A record of ids is a value or nothing for every type.
LEMMA ScalarsBuilt ==
  ASSUME NEW f, f = [t \in Types |-> f[t]], \A t \in Types : f[t] \in Value[t] \cup {NoId}
  PROVE  f \in Scalars
<1>1. ASSUME NEW t \in Types PROVE f[t] \in (UNION {Value[u] : u \in Types}) \cup {NoId}
  <2>1. Value[t] \in {Value[u] : u \in Types}
    OBVIOUS
  <2> QED
    BY <2>1
<1>2. f \in [Types -> (UNION {Value[t] : t \in Types}) \cup {NoId}]
  BY <1>1
<1> QED
  BY <1>2 DEF Scalars

LEMMA ScalarsShape ==
  ASSUME NEW ids \in Scalars
  PROVE  ids = [t \in Types |-> ids[t]] /\ \A t \in Types : ids[t] \in Value[t] \cup {NoId}
BY DEF Scalars

LEMMA ValueIsSome == \A t \in Types : NoId \notin Value[t]
BY NothingAssumption

\* The ids arXiv's DOI stands for are ids.
LEMMA StrongTyped ==
  ASSUME NEW r \in Work PROVE StrongIds(r) \in Scalars
<1> DEFINE s == StrongIds(r)
<1>1. r.ids = [t \in Types |-> r.ids[t]] /\ \A t \in Types : r.ids[t] \in Value[t] \cup {NoId}
  BY ScalarsShape DEF Work
<1>2. CASE r.ids["doi"] \in {"10.48550"} \X Arxivs
  <2>1. s = [r.ids EXCEPT !["doi"] = NoId,
                          !["arxiv"] = IF @ = NoId THEN r.ids["doi"][2] ELSE @]
    BY <1>2 DEF StrongIds
  <2>2. r.ids["doi"][2] \in Value["arxiv"]
    BY <1>2 DEF Value
  <2>3. s = [t \in Types |-> s[t]] /\ \A t \in Types : s[t] \in Value[t] \cup {NoId}
    BY <1>1, <2>1, <2>2 DEF Types
  <2> HIDE DEF s
  <2>4. s \in Scalars
    BY <2>3, ScalarsBuilt
  <2> QED
    BY <2>4 DEF s
<1>3. CASE r.ids["doi"] \notin {"10.48550"} \X Arxivs
  BY <1>3 DEF StrongIds, Work
<1> QED
  BY <1>2, <1>3

\* An identifier is a type and a value of it.
LEMMA IdShape ==
  ASSUME NEW i \in Ids
  PROVE  i = <<i[1], i[2]>> /\ i[1] \in Types /\ i[2] \in Value[i[1]] /\ i[2] # NoId
<1>1. PICK t \in Types : i \in {t} \X Value[t]
  BY DEF Ids
<1>2. i = <<i[1], i[2]>> /\ i[1] = t /\ i[2] \in Value[t]
  BY <1>1
<1> QED
  BY <1>2, ValueIsSome

\* The identifiers of a record: one for each type it has a value for.
LEMMA PairsOf ==
  ASSUME NEW ids \in Scalars
  PROVE  /\ \A i \in Pairs(ids) : i \in Ids /\ i[1] \in Types /\ i[2] = ids[i[1]] /\ ids[i[1]] # NoId
         /\ \A t \in Types : ids[t] # NoId => <<t, ids[t]>> \in Pairs(ids)
<1>1. \A i \in Pairs(ids) : i \in Ids /\ i[1] \in Types /\ i[2] = ids[i[1]] /\ ids[i[1]] # NoId
  BY IdShape DEF Pairs
<1>2. ASSUME NEW t \in Types, ids[t] # NoId PROVE <<t, ids[t]>> \in Pairs(ids)
  <2>1. ids[t] \in Value[t]
    BY <1>2, ScalarsShape
  <2>2. <<t, ids[t]>> \in Ids
    BY <2>1 DEF Ids
  <2> QED
    BY <2>2 DEF Pairs
<1> QED
  BY <1>1, <1>2

LEMMA NothingTyped == Nothing \in Work /\ Pairs(Nothing.ids) = {}
<1>1. Nothing.ids = [t \in Types |-> NoId]
  BY DEF Nothing
<1>2. Nothing.ids \in Scalars
  <2> DEFINE f == [t \in Types |-> NoId]
  <2>1. f = [t \in Types |-> f[t]] /\ \A t \in Types : f[t] \in Value[t] \cup {NoId}
    OBVIOUS
  <2> HIDE DEF f
  <2>2. f \in Scalars
    BY <2>1, ScalarsBuilt
  <2> QED
    BY <1>1, <2>2 DEF f
<1>3. Nothing \in Work
  BY <1>2 DEF Nothing, Work
<1> QED
  BY <1>1, <1>2, <1>3, PairsOf

\* A back-filled row is a row; every column is the old one or the record's.
LEMMA BackfillShape ==
  ASSUME NEW now \in Work, NEW seen \in Work, NEW r \in Work
  PROVE  /\ Backfill(now, seen, r) \in Work
         /\ \A t \in Types : Backfill(now, seen, r).ids[t] =
              IF seen.ids[t] = NoId /\ StrongIds(r)[t] # NoId THEN StrongIds(r)[t] ELSE now.ids[t]
         /\ Backfill(now, seen, r).title =
              IF seen.title = NoTitle /\ r.title # NoTitle THEN r.title ELSE now.title
<1> DEFINE f == [t \in Types |-> IF seen.ids[t] = NoId /\ StrongIds(r)[t] # NoId
                                 THEN StrongIds(r)[t] ELSE now.ids[t]]
<1>1. \A t \in Types : StrongIds(r)[t] \in Value[t] \cup {NoId}
  BY StrongTyped, ScalarsShape
<1>2. now.ids \in Scalars /\ now.title \in Titles \cup {NoTitle} /\ r.title \in Titles \cup {NoTitle}
  BY DEF Work
<1>3. \A t \in Types : now.ids[t] \in Value[t] \cup {NoId}
  BY <1>2, ScalarsShape
<1>4. f = [t \in Types |-> f[t]] /\ \A t \in Types : f[t] \in Value[t] \cup {NoId}
  BY <1>1, <1>3
<1>5. f \in Scalars
  <2> HIDE DEF f
  <2> QED
    BY <1>4, ScalarsBuilt
<1>6. Backfill(now, seen, r).ids = f
  BY DEF Backfill
<1>7. Backfill(now, seen, r).title = IF seen.title = NoTitle /\ r.title # NoTitle THEN r.title ELSE now.title
  BY DEF Backfill
<1>8. Backfill(now, seen, r) = [ids |-> Backfill(now, seen, r).ids, title |-> Backfill(now, seen, r).title]
  BY DEF Backfill
<1>9. Backfill(now, seen, r) \in Work
  BY <1>2, <1>5, <1>6, <1>7, <1>8 DEF Work
<1> QED
  BY <1>6, <1>7, <1>9

\* The earliest of some works is one of them.
LEMMA OldestIsIn ==
  ASSUME NEW S \in SUBSET Names
  PROVE  Oldest(S) \in 0..MaxWorks
<1>1. CASE S = {}
  BY <1>1, BoundsAssumption DEF Oldest
<1>2. CASE S # {}
  <2> DEFINE Less == {p \in Nat \X Nat : p[1] < p[2]}
  <2>1. IsWellFoundedOn(Less, Nat)
    BY NatLessThanWellFounded DEF OpToRel
  <2>2. S \subseteq Nat
    BY DEF Names
  <2>3. \E w \in S : \A v \in S : <<v, w>> \notin Less
    <3> HIDE DEF Less
    <3> QED
      BY <1>2, <2>1, <2>2, WFMin, Zenon
  <2>4. \E w \in S : \A v \in S : w <= v
    <3>1. PICK w \in S : \A v \in S : <<v, w>> \notin Less
      BY <2>3
    <3>2. ASSUME NEW v \in S PROVE w <= v
      <4>1. w \in Nat /\ v \in Nat /\ <<v, w>> \notin Less
        BY <2>2, <3>1
      <4> QED
        BY <4>1
    <3> QED
      BY <3>2
  <2>5. Oldest(S) \in S
    BY <1>2, <2>4 DEF Oldest
  <2>6. Oldest(S) \in 1..MaxWorks
    BY <2>5 DEF Names
  <2> HIDE DEF Less
  <2> QED
    BY <2>6, BoundsAssumption
<1> QED
  BY <1>1, <1>2

-----------------------------------------------------------------------------
(* The tables *)

\* The works that own an id of a record are works, the foremost is one of them.
LEMMA OwnersAreWorks ==
  ASSUME TypeOK, NEW ids \in Scalars
  PROVE  /\ Owners(ids) \subseteq DOMAIN works
         /\ Owners(ids) # {} => Foremost(ids) \in Owners(ids)
<1>1. Owners(ids) \subseteq DOMAIN works
  BY DEF Owners, TypeOK
<1>2. ASSUME Owners(ids) # {} PROVE Foremost(ids) \in Owners(ids)
  <2> DEFINE matched == Pairs(ids) \cap DOMAIN owner
  <2>1. matched # {} /\ \A i \in matched : i[1] \in Types
    BY <1>2, PairsOf DEF Owners
  <2> DEFINE Of(t) == {i \in matched : i[1] = t}
  <2>2. \E i \in matched : \A k \in matched : Rank[i[1]] <= Rank[k[1]]
    <3> HIDE DEF matched
    <3>1. CASE Of("doi") # {}
      BY <2>1, <3>1 DEF Types, Rank
    <3>2. CASE Of("doi") = {} /\ Of("openalex") # {}
      BY <2>1, <3>2 DEF Types, Rank
    <3>3. CASE Of("doi") = {} /\ Of("openalex") = {}
      BY <2>1, <3>3 DEF Types, Rank
    <3> QED
      BY <3>1, <3>2, <3>3
  <2>3. (CHOOSE i \in matched : \A k \in matched : Rank[i[1]] <= Rank[k[1]]) \in matched
    <3> HIDE DEF matched
    <3> QED
      BY <2>2
  <2> QED
    BY <2>3 DEF Owners, Foremost
<1> QED
  BY <1>1, <1>2

\* What a work owns for a type: nothing only if no column and no row say so.
LEMMA OwnedShape ==
  ASSUME TypeOK, NEW w \in DOMAIN works, NEW t \in Types
  PROVE  /\ works[w].ids[t] # NoId => Owned(w, t) = works[w].ids[t]
         /\ Owned(w, t) = NoId =>
              works[w].ids[t] = NoId /\ \A i \in DOMAIN owner : owner[i] = w => i[1] # t
<1> DEFINE rows == {i \in DOMAIN owner : i[1] = t /\ owner[i] = w}
<1>1. works[w].ids[t] # NoId => Owned(w, t) = works[w].ids[t]
  BY DEF Owned
<1>2. ASSUME works[w].ids[t] = NoId, rows # {} PROVE Owned(w, t) # NoId
  <2> DEFINE i == CHOOSE i \in rows : TRUE
  <2>1. i \in rows
    BY <1>2
  <2>2. i[2] # NoId
    BY <2>1, IdShape DEF TypeOK
  <2>3. Owned(w, t) = i[2]
    BY <1>2 DEF Owned
  <2> QED
    BY <2>2, <2>3
<1> QED
  BY <1>1, <1>2

LEMMA JobShape ==
  ASSUME look \in [Clients -> Job], NEW c \in Clients
  PROVE  /\ look[c].job \in {"idle", "upsert", "titles", "resolve", "biblio"}
         /\ look[c].job = "idle" => look[c] = Idle
         /\ look[c].job = "upsert" =>
              /\ look[c].record \in Work /\ look[c].status \in {"included", "metadata_only"}
              /\ look[c].plan \in {"create", "merge", "demote"} /\ look[c].first \in 0..MaxWorks
              /\ look[c].against \in SUBSET Names /\ look[c].seen \in Work
         /\ look[c].job \in {"titles", "resolve"} => look[c].work \in Names /\ look[c].seen \in Work
         /\ look[c].job = "biblio" => look[c].work \in Names /\ look[c].force \in BOOLEAN
<1>1. look[c] \in Job
  OBVIOUS
<1> QED
  BY <1>1 DEF Job, Idle

\* Items are put at the end.
LEMMA Enqueued ==
  ASSUME queue \in Seq(Item), NEW items \in Seq(Item), Enqueue(items)
  PROVE  /\ queue' \in Seq(Item) /\ Len(queue') <= MaxItems
         /\ \A i \in DOMAIN queue : i \in DOMAIN queue' /\ queue'[i] = queue[i]
         /\ \A i \in DOMAIN queue' : i \in DOMAIN queue \/ \E k \in DOMAIN items : queue'[i] = items[k]
         /\ \A k \in DOMAIN items : \E i \in DOMAIN queue' : queue'[i] = items[k]
<1>1. queue' = queue \o items /\ Len(queue) + Len(items) <= MaxItems
  BY DEF Enqueue
<1>2. queue' \in Seq(Item) /\ Len(queue') = Len(queue) + Len(items)
  BY <1>1
<1>3. \A i \in DOMAIN queue : i \in DOMAIN queue' /\ queue'[i] = queue[i]
  BY <1>1, <1>2
<1>4. ASSUME NEW i \in DOMAIN queue', i \notin DOMAIN queue
      PROVE  \E k \in DOMAIN items : queue'[i] = items[k]
  <2>1. i \in 1..(Len(queue) + Len(items)) /\ ~(i <= Len(queue))
    BY <1>2, <1>4
  <2>2. i - Len(queue) \in DOMAIN items /\ queue'[i] = items[i - Len(queue)]
    BY <1>1, <2>1
  <2> QED
    BY <2>2
<1>5. ASSUME NEW k \in DOMAIN items PROVE \E i \in DOMAIN queue' : queue'[i] = items[k]
  <2>1. k + Len(queue) \in DOMAIN queue' /\ queue'[k + Len(queue)] = items[k]
    BY <1>1, <1>2
  <2> QED
    BY <2>1
<1> QED
  BY <1>1, <1>2, <1>3, <1>4, <1>5

LEMMA AsksOne ==
  ASSUME NEW target \in Names, NEW first \in 0..MaxWorks, NEW against \in SUBSET Names
  PROVE  /\ Asks(target, first, against) \in Seq(Item)
         /\ DOMAIN Asks(target, first, against) = {1}
         /\ Asks(target, first, against)[1] =
              [target |-> target, first |-> first, against |-> against, action |-> "open"]
BY DEF Asks, Item

\* Rows are written, by a job or a neighbour that takes none away.
LEMMA RowsGrow ==
  ASSUME Rows,
         DOMAIN works \subseteq DOMAIN works', DOMAIN works' \subseteq 1..minted',
         \A w \in DOMAIN works' : works'[w] \in Work,
         minted' \in 0..MaxWorks, minted <= minted',
         \A w \in DOMAIN works' : w \in DOMAIN works \/ w > minted,
         DOMAIN owner' \subseteq Ids, \A i \in DOMAIN owner' : owner'[i] \in DOMAIN works',
         member' \in [Names -> {"none", "metadata_only", "included", "excluded"}],
         file' \subseteq DOMAIN works', cites' \subseteq (DOMAIN works') \X (DOMAIN works'),
         queue' \in Seq(Item), Len(queue') <= MaxItems,
         \A i \in DOMAIN queue' :
           \/ i \in DOMAIN queue /\ queue'[i] = queue[i]
           \/ queue'[i].action # "open"
           \/ queue'[i].target \in DOMAIN works'
           \/ Overlap /\ queue'[i].against = {},
         look' \in [Clients -> Job],
         \A c \in Clients : look'[c].job = "resolve" => look'[c] = look[c] \/ look'[c].work \in DOMAIN works,
         UNCHANGED became
  PROVE  Rows'
<1>1. TypeOK'
  BY DEF Rows, TypeOK
<1>2. NamesOK'
  <2>1. minted \in Nat /\ minted' \in Nat
    BY BoundsAssumption DEF Rows, TypeOK
  <2>2. \A w \in DOMAIN works' : w \in Names /\ became[w] = w
    <3>1. \A w \in DOMAIN works' : w \in Names
      BY <2>1, BoundsAssumption DEF Names
    <3> QED
      BY <3>1 DEF Rows, NamesOK
  <2>3. ASSUME NEW w \in Names PROVE IF w > minted' THEN became[w] = w ELSE became[w] <= minted'
    <3>1. w \in Nat /\ became[w] \in Nat
      BY DEF Names, Rows, TypeOK
    <3>2. IF w > minted THEN became[w] = w ELSE became[w] <= minted
      BY DEF Rows, NamesOK
    <3> QED
      BY <2>1, <3>1, <3>2
  <2> QED
    BY <2>2, <2>3 DEF NamesOK
<1>3. ResolvesLive'
  BY DEF Rows, ResolvesLive
<1>4. OpenItemsTargetWorks'
  BY DEF Rows, OpenItemsTargetWorks, Open
<1> QED
  BY <1>1, <1>2, <1>3, <1>4 DEF Rows

\* A new work, with the ids nobody owns.
LEMMA MintShape ==
  ASSUME TypeOK, NEW r \in Work, Mint(r)
  PROVE  /\ minted' = minted + 1 /\ minted' \in 0..MaxWorks /\ minted + 1 \in Names
         /\ minted \in Nat /\ minted + 1 \notin DOMAIN works
         /\ DOMAIN works' = DOMAIN works \cup {minted + 1}
         /\ works'[minted + 1] = [ids |-> StrongIds(r), title |-> r.title]
         /\ works'[minted + 1] \in Work
         /\ \A w \in DOMAIN works : works'[w] = works[w]
         /\ DOMAIN owner' = DOMAIN owner \cup Pairs(StrongIds(r)) /\ Pairs(StrongIds(r)) \subseteq Ids
         /\ \A i \in DOMAIN owner : owner'[i] = owner[i]
         /\ \A i \in DOMAIN owner' : i \notin DOMAIN owner => owner'[i] = minted + 1
<1>1. minted \in Nat /\ minted + 1 \notin DOMAIN works /\ minted < MaxWorks /\ MaxWorks \in Nat
  BY BoundsAssumption DEF TypeOK, Mint
<1>2. /\ minted' = minted + 1
      /\ works' = [w \in DOMAIN works \cup {minted + 1} |->
                    IF w = minted + 1 THEN [ids |-> StrongIds(r), title |-> r.title] ELSE works[w]]
      /\ owner' = [i \in DOMAIN owner \cup Pairs(StrongIds(r)) |->
                    IF i \in DOMAIN owner THEN owner[i] ELSE minted + 1]
  BY DEF Mint, AttachUnclaimed
<1>3. minted + 1 \in Names /\ minted' \in 0..MaxWorks
  BY <1>1, <1>2 DEF Names
<1>4. [ids |-> StrongIds(r), title |-> r.title] \in Work
  BY StrongTyped DEF Work
<1>5. Pairs(StrongIds(r)) \subseteq Ids
  BY DEF Pairs
<1>6. works'[minted + 1] = [ids |-> StrongIds(r), title |-> r.title]
  BY <1>2
<1>7. \A w \in DOMAIN works : works'[w] = works[w]
  BY <1>1, <1>2
<1>8. \A i \in DOMAIN owner : owner'[i] = owner[i]
  BY <1>2
<1>9. \A i \in DOMAIN owner' : i \notin DOMAIN owner => owner'[i] = minted + 1
  BY <1>2
<1>10. DOMAIN works' = DOMAIN works \cup {minted + 1} /\ DOMAIN owner' = DOMAIN owner \cup Pairs(StrongIds(r))
  BY <1>2
<1> QED
  BY <1>1, <1>2, <1>3, <1>4, <1>5, <1>6, <1>7, <1>8, <1>9, <1>10

\* A work gets a new row, and those ids of a set that nobody owns.
Rewritten(w, new, ids) ==
  /\ works' = [works EXCEPT ![w] = new]
  /\ owner' = [i \in DOMAIN owner \cup ids |-> IF i \in DOMAIN owner THEN owner[i] ELSE w]
  /\ UNCHANGED <<minted, became, file, cites>>

LEMMA RewrittenShape ==
  ASSUME TypeOK, NEW w \in DOMAIN works, NEW new \in Work, NEW ids \in SUBSET Ids, Rewritten(w, new, ids)
  PROVE  /\ DOMAIN works' = DOMAIN works /\ works'[w] = new
         /\ \A v \in DOMAIN works : v # w => works'[v] = works[v]
         /\ DOMAIN owner' = DOMAIN owner \cup ids
         /\ \A i \in DOMAIN owner : owner'[i] = owner[i]
         /\ \A i \in DOMAIN owner' : i \notin DOMAIN owner => owner'[i] = w
         /\ \A v \in DOMAIN works' : works'[v] \in Work
         /\ \A i \in DOMAIN owner' : owner'[i] \in DOMAIN works'
<1>1. /\ DOMAIN works' = DOMAIN works /\ works'[w] = new
      /\ \A v \in DOMAIN works : v # w => works'[v] = works[v]
  BY DEF Rewritten
<1>2. /\ DOMAIN owner' = DOMAIN owner \cup ids
      /\ \A i \in DOMAIN owner : owner'[i] = owner[i]
      /\ \A i \in DOMAIN owner' : i \notin DOMAIN owner => owner'[i] = w
  BY DEF Rewritten
<1>3. \A v \in DOMAIN works' : works'[v] \in Work
  BY <1>1 DEF TypeOK
<1>4. \A i \in DOMAIN owner' : owner'[i] \in DOMAIN works'
  BY <1>1, <1>2 DEF TypeOK
<1> QED
  BY <1>1, <1>2, <1>3, <1>4

\* Some items are put at the end of the queue, or none.
Asked(items) == UNCHANGED queue \/ Enqueue(items)

LEMMA AskedShape ==
  ASSUME TypeOK, NEW items \in Seq(Item), Asked(items)
  PROVE  /\ queue' \in Seq(Item) /\ Len(queue') <= MaxItems
         /\ \A i \in DOMAIN queue : i \in DOMAIN queue' /\ queue'[i] = queue[i]
         /\ \A i \in DOMAIN queue' :
              \/ i \in DOMAIN queue /\ queue'[i] = queue[i]
              \/ \E k \in DOMAIN items : queue'[i] = items[k]
<1>1. queue \in Seq(Item) /\ Len(queue) <= MaxItems
  BY DEF TypeOK
<1>2. CASE Enqueue(items)
  BY <1>1, <1>2, Enqueued
<1>3. CASE UNCHANGED queue
  BY <1>1, <1>3
<1> QED
  BY <1>2, <1>3 DEF Asked

\* Who is done is idle; the others have read what they have read.
LEMMA DoneShape ==
  ASSUME look \in [Clients -> Job], NEW c \in Clients, Done(c)
  PROVE  /\ look' \in [Clients -> Job] /\ look'[c] = Idle /\ UNCHANGED became
         /\ \A d \in Clients : d # c => look'[d] = look[d]
BY DEF Done, Job

LEMMA MintRows ==
  ASSUME Rows, NEW c \in Clients, NEW r \in Work, Mint(r), Done(c),
         NEW first \in 0..MaxWorks, NEW against \in SUBSET Names,
         Asked(Asks(minted + 1, first, against)),
         member' \in [Names -> {"none", "metadata_only", "included", "excluded"}],
         UNCHANGED <<file, cites>>
  PROVE  Rows'
<1>1. TypeOK /\ look \in [Clients -> Job]
  BY DEF Rows, TypeOK
<1> DEFINE items == Asks(minted + 1, first, against)
<1>2. items \in Seq(Item) /\ DOMAIN items = {1} /\ items[1].target = minted + 1
  <2>1. minted + 1 \in Names
    BY <1>1, MintShape
  <2>2. /\ items \in Seq(Item) /\ DOMAIN items = {1}
        /\ items[1] = [target |-> minted + 1, first |-> first, against |-> against, action |-> "open"]
    BY <2>1, AsksOne
  <2> HIDE DEF items
  <2> QED
    BY <2>2
<1> HIDE DEF items
<1>3. /\ queue' \in Seq(Item) /\ Len(queue') <= MaxItems
      /\ \A i \in DOMAIN queue' : (i \in DOMAIN queue /\ queue'[i] = queue[i])
                                  \/ queue'[i].target = minted + 1
  BY <1>1, <1>2, AskedShape DEF items
<1>4. /\ minted' = minted + 1 /\ minted' \in 0..MaxWorks /\ minted \in Nat
      /\ DOMAIN works' = DOMAIN works \cup {minted + 1} /\ DOMAIN works \subseteq 1..minted
      /\ \A w \in DOMAIN works' : works'[w] \in Work
  <2>1. DOMAIN works \subseteq 1..minted /\ \A w \in DOMAIN works : works[w] \in Work
    BY <1>1 DEF TypeOK
  <2>2. /\ minted' = minted + 1 /\ minted' \in 0..MaxWorks /\ minted \in Nat
        /\ DOMAIN works' = DOMAIN works \cup {minted + 1}
        /\ works'[minted + 1] \in Work /\ \A w \in DOMAIN works : works'[w] = works[w]
    BY <1>1, MintShape, Zenon
  <2> QED
    BY <2>1, <2>2
<1>5. DOMAIN owner' \subseteq Ids /\ \A i \in DOMAIN owner' : owner'[i] \in DOMAIN works'
  BY <1>1, MintShape DEF TypeOK
<1>6. DOMAIN works' \subseteq 1..minted' /\ \A w \in DOMAIN works' : w \in DOMAIN works \/ w > minted
  BY <1>4
<1>7. file' \subseteq DOMAIN works' /\ cites' \subseteq (DOMAIN works') \X (DOMAIN works')
  BY <1>1, <1>4 DEF TypeOK
<1>8. \A d \in Clients : look'[d].job = "resolve" => look'[d] = look[d]
  BY <1>1, DoneShape DEF Idle
<1>9. look' \in [Clients -> Job] /\ UNCHANGED became
  BY <1>1, DoneShape
<1>10. minted <= minted' /\ minted + 1 \in DOMAIN works'
  BY <1>4
<1> QED
  BY <1>3, <1>4, <1>5, <1>6, <1>7, <1>8, <1>9, <1>10, RowsGrow

LEMMA RewrittenRows ==
  ASSUME Rows, NEW c \in Clients, NEW w \in DOMAIN works, NEW new \in Work, NEW ids \in SUBSET Ids,
         Rewritten(w, new, ids), Done(c),
         NEW items \in Seq(Item), Asked(items), \A k \in DOMAIN items : items[k].target \in DOMAIN works,
         member' \in [Names -> {"none", "metadata_only", "included", "excluded"}]
  PROVE  Rows'
<1>1. TypeOK /\ look \in [Clients -> Job]
  BY DEF Rows, TypeOK
<1>2. /\ queue' \in Seq(Item) /\ Len(queue') <= MaxItems
      /\ \A i \in DOMAIN queue' : (i \in DOMAIN queue /\ queue'[i] = queue[i])
                                  \/ queue'[i].target \in DOMAIN works
  BY <1>1, AskedShape
<1>3. /\ minted' = minted /\ minted' \in 0..MaxWorks /\ minted <= minted'
      /\ DOMAIN works' = DOMAIN works /\ DOMAIN works' \subseteq 1..minted'
      /\ \A v \in DOMAIN works' : works'[v] \in Work
  BY <1>1, RewrittenShape, BoundsAssumption DEF TypeOK, Rewritten
<1>4. DOMAIN owner' \subseteq Ids /\ \A i \in DOMAIN owner' : owner'[i] \in DOMAIN works'
  <2>1. DOMAIN owner' = DOMAIN owner \cup ids /\ \A i \in DOMAIN owner' : owner'[i] \in DOMAIN works'
    BY <1>1, RewrittenShape
  <2> QED
    BY <1>1, <2>1 DEF TypeOK
<1>5. file' \subseteq DOMAIN works' /\ cites' \subseteq (DOMAIN works') \X (DOMAIN works')
  BY <1>1, <1>3 DEF TypeOK, Rewritten
<1>6. \A d \in Clients : look'[d].job = "resolve" => look'[d] = look[d]
  BY <1>1, DoneShape DEF Idle
<1>7. look' \in [Clients -> Job] /\ UNCHANGED became
  BY <1>1, DoneShape
<1> QED
  BY <1>2, <1>3, <1>4, <1>5, <1>6, <1>7, RowsGrow

\* A job reads, or ends without a write.
LEMMA ReadRows ==
  ASSUME Rows, NEW c \in Clients, NEW j \in Job, UNCHANGED <<tables, became>>,
         look' = [look EXCEPT ![c] = j], j.job = "resolve" => j.work \in DOMAIN works
  PROVE  Rows'
<1>1. look \in [Clients -> Job]
  BY DEF Rows, TypeOK
<1>2. look' \in [Clients -> Job] /\ \A d \in Clients :
        look'[d].job = "resolve" => look'[d] = look[d] \/ look'[d].work \in DOMAIN works
  BY <1>1
<1>3. TypeOK'
  BY <1>2 DEF Rows, TypeOK, tables
<1>4. NamesOK' /\ OpenItemsTargetWorks'
  BY DEF Rows, NamesOK, OpenItemsTargetWorks, Open, tables
<1>5. ResolvesLive'
  BY <1>2 DEF Rows, ResolvesLive, tables
<1> QED
  BY <1>3, <1>4, <1>5 DEF Rows

-----------------------------------------------------------------------------
(* Every step keeps the tables well formed *)

\* What is decided of a record: against whom, and to merge only into the one
\* work that owns ids of it and contradicts none.
LEMMA DecisionShape ==
  ASSUME TypeOK, NEW r \in Work, NEW d, d = Decision(r)
  PROVE  /\ d.plan \in {"create", "merge", "demote"} /\ d.first \in 0..MaxWorks
         /\ d.against = Owners(StrongIds(r)) /\ d.against \in SUBSET Names /\ d.seen \in Work
         /\ d.plan = "create" => d.against = {}
         /\ d.plan = "merge" =>
              /\ d.first \in DOMAIN works /\ d.against = {d.first} /\ d.seen = works[d.first]
              /\ ~Contradicts(d.first, StrongIds(r)) /\ ~WeakMatch(d.first, r)
         /\ d.against = {} => d.plan = "create"
<1> DEFINE ids == StrongIds(r)
           found == Owners(ids)
           w == Foremost(ids)
<1>1. found \subseteq DOMAIN works /\ (found # {} => w \in found)
  BY StrongTyped, OwnersAreWorks
<1>2. DOMAIN works \subseteq 1..minted /\ minted \in 0..MaxWorks /\ MaxWorks \in Nat
  BY BoundsAssumption DEF TypeOK
<1>3. DOMAIN works \subseteq Names /\ DOMAIN works \subseteq 0..MaxWorks
  BY <1>2 DEF Names
<1> HIDE DEF ids, found, w
<1>4. CASE found = {}
  <2>1. d = [plan |-> "create", first |-> 0, against |-> {}, seen |-> Nothing]
    BY <1>4 DEF Decision, ids, found
  <2> QED
    BY <1>2, <1>4, <2>1, NothingTyped DEF ids, found
<1>5. CASE found # {} /\ (Cardinality(found) > 1 \/ Contradicts(w, ids) \/ WeakMatch(w, r))
  <2>1. d = [plan |-> "demote", first |-> w, against |-> found, seen |-> Nothing]
    BY <1>5 DEF Decision, ids, found, w
  <2>2. w \in 0..MaxWorks
    BY <1>1, <1>3, <1>5
  <2> QED
    BY <1>1, <1>3, <1>5, <2>1, <2>2, NothingTyped DEF ids, found
<1>6. CASE found # {} /\ ~(Cardinality(found) > 1) /\ ~Contradicts(w, ids) /\ ~WeakMatch(w, r)
  <2>1. d = [plan |-> "merge", first |-> w, against |-> found, seen |-> works[w]]
    BY <1>6 DEF Decision, ids, found, w
  <2>2. w \in found /\ w \in DOMAIN works /\ w \in 0..MaxWorks /\ works[w] \in Work
    BY <1>1, <1>3, <1>6 DEF TypeOK
  <2>3. found = {w}
    <3>1. IsFiniteSet(Names)
      BY <1>2, FS_Interval DEF Names
    <3>2. IsFiniteSet(found)
      BY <1>1, <1>3, <3>1, FS_Subset
    <3>3. ASSUME NEW v \in found, v # w PROVE FALSE
      <4>1. IsFiniteSet({v, w}) /\ Cardinality({v, w}) = 2
        <5>1. IsFiniteSet({w}) /\ Cardinality({w}) = 1
          BY FS_Singleton
        <5>2. {v, w} = {w} \cup {v} /\ v \notin {w}
          BY <3>3
        <5> QED
          BY <5>1, <5>2, FS_AddElement
      <4>2. Cardinality({v, w}) <= Cardinality(found)
        BY <2>2, <3>2, <3>3, FS_Subset
      <4>3. Cardinality(found) \in Nat
        BY <3>2, FS_CardinalityType
      <4> QED
        BY <1>6, <4>1, <4>2, <4>3
    <3> QED
      BY <2>2, <3>3
  <2> QED
    BY <1>1, <1>3, <1>6, <2>1, <2>2, <2>3 DEF ids, found
<1> QED
  BY <1>4, <1>5, <1>6

\* A record becomes a work of its own, with an item if anything speaks against
\* it, or folds into one.
LEMMA UpsertShape ==
  ASSUME TypeOK, NEW r \in Work, NEW seen \in Work, NEW d,
         d.first \in 0..MaxWorks, d.against \in SUBSET Names,
         Upsert(d, r, seen), UNCHANGED <<file, cites, became>>
  PROVE  \/ /\ d.plan \in {"create", "demote"} /\ Mint(r)
            /\ \E first \in 0..MaxWorks, against \in SUBSET Names :
                 /\ Asked(Asks(minted + 1, first, against))
                 /\ d.plan = "demote" => against = d.against /\ Enqueue(Asks(minted + 1, first, against))
         \/ /\ d.plan = "merge" /\ d.first \in DOMAIN works /\ UNCHANGED queue
            /\ Rewritten(d.first, Backfill(works[d.first], seen, r), Pairs(StrongIds(r)))
<1>1. CASE d.plan = "create" /\ Create(r)
  <2> DEFINE twins == Twins(r.title)
  <2>1. twins \in SUBSET Names
    <3>1. DOMAIN works \subseteq Names
      BY BoundsAssumption DEF TypeOK, Names
    <3> QED
      BY <3>1 DEF Twins
  <2>2. Oldest(twins) \in 0..MaxWorks
    <3> HIDE DEF twins
    <3> QED
      BY <2>1, OldestIsIn
  <2>3. Mint(r) /\ Asked(Asks(minted + 1, Oldest(twins), twins))
    BY <1>1 DEF Create, Asked
  <2> HIDE DEF twins
  <2> QED
    BY <1>1, <2>1, <2>2, <2>3
<1>2. CASE d.plan = "demote" /\ Demote(r, d.first, d.against)
  BY <1>2 DEF Demote, Asked
<1>3. CASE d.plan = "merge" /\ Fold(d.first, r, seen)
  BY <1>3 DEF Fold, Rewritten, AttachUnclaimed
<1> QED
  BY <1>1, <1>2, <1>3 DEF Upsert

LEMMA UpsertRows ==
  ASSUME Rows, NEW c \in Clients, NEW r \in Work, NEW seen \in Work, NEW d,
         d.first \in 0..MaxWorks, d.against \in SUBSET Names,
         Upsert(d, r, seen), Done(c), UNCHANGED <<file, cites>>,
         member' \in [Names -> {"none", "metadata_only", "included", "excluded"}]
  PROVE  Rows'
<1>1. TypeOK /\ UNCHANGED <<file, cites, became>>
  BY DEF Rows, Done
<1>2. CASE Mint(r) /\ \E first \in 0..MaxWorks, against \in SUBSET Names :
                        Asked(Asks(minted + 1, first, against))
  BY <1>1, <1>2, MintRows
<1>3. CASE /\ d.first \in DOMAIN works /\ UNCHANGED queue
           /\ Rewritten(d.first, Backfill(works[d.first], seen, r), Pairs(StrongIds(r)))
  <2> DEFINE new == Backfill(works[d.first], seen, r)
             ids == Pairs(StrongIds(r))
  <2>1. new \in Work /\ ids \in SUBSET Ids
    BY <1>1, <1>3, BackfillShape DEF TypeOK, Pairs
  <2>2. << >> \in Seq(Item) /\ DOMAIN << >> = {} /\ Asked(<< >>)
    BY <1>3 DEF Asked
  <2> HIDE DEF new, ids
  <2>3. Rewritten(d.first, new, ids)
    BY <1>3 DEF new, ids
  <2> QED
    BY <1>3, <2>1, <2>2, <2>3, RewrittenRows
<1> QED
  BY <1>1, <1>2, <1>3, UpsertShape

LEMMA StoreRows == ASSUME Rows, NEW c \in Clients, Store(c) PROVE Rows'
<1>1. TypeOK /\ look \in [Clients -> Job] /\ look[c].job = "upsert"
  BY DEF Rows, TypeOK, Store
<1>2. /\ look[c].record \in Work /\ look[c].status \in {"included", "metadata_only"}
      /\ look[c].first \in 0..MaxWorks /\ look[c].against \in SUBSET Names /\ look[c].seen \in Work
  BY <1>1, JobShape
<1>3. /\ Upsert(look[c], look[c].record, look[c].seen) /\ Done(c) /\ UNCHANGED <<file, cites>>
      /\ Enrol(IF look[c].plan = "merge" THEN look[c].first ELSE minted + 1, look[c].status)
  BY DEF Store
<1>4. member' \in [Names -> {"none", "metadata_only", "included", "excluded"}]
  BY <1>1, <1>2, <1>3 DEF TypeOK, Enrol
<1> QED
  BY <1>2, <1>3, <1>4, UpsertRows

\* What title repair folds is a record.
LEMMA TitledShape ==
  ASSUME NEW o \in Value["openalex"] \cup {NoId}, NEW title \in Titles
  PROVE  /\ Titled(o, title) \in Work /\ Titled(o, title).title = title
         /\ StrongIds(Titled(o, title)) = Titled(o, title).ids
         /\ \A t \in Types : Titled(o, title).ids[t] = IF t = "openalex" THEN o ELSE NoId
<1>1. \A t \in Types : Titled(o, title).ids[t] = IF t = "openalex" THEN o ELSE NoId
  BY DEF Titled, Nothing, Types
<1>2. Titled(o, title).ids = [t \in Types |-> Titled(o, title).ids[t]]
  BY DEF Titled, Nothing
<1>3. Titled(o, title).ids \in Scalars
  BY <1>1, <1>2, ScalarsBuilt
<1>4. NoId \notin {"10.48550"} \X Arxivs
  BY ValueIsSome DEF Types, Value
<1>5. Titled(o, title).ids["doi"] = NoId
  BY <1>1 DEF Types
<1>6. StrongIds(Titled(o, title)) = Titled(o, title).ids
  BY <1>4, <1>5 DEF StrongIds
<1>7. Titled(o, title) = [ids |-> Titled(o, title).ids, title |-> title]
  BY DEF Titled
<1>8. Titled(o, title) \in Work /\ Titled(o, title).title = title
  BY <1>3, <1>7 DEF Work
<1> QED
  BY <1>1, <1>6, <1>8

LEMMA TitlesFoldRows ==
  ASSUME Rows, NEW c \in Clients, NEW title \in Titles, TitlesFold(c, title) PROVE Rows'
<1>1. TypeOK /\ look \in [Clients -> Job] /\ look[c].job = "titles"
  BY DEF Rows, TypeOK, TitlesFold
<1>2. look[c].work \in Names /\ look[c].seen \in Work
  BY <1>1, JobShape
<1>3. look[c].seen.ids["openalex"] \in Value["openalex"] \cup {NoId}
  BY <1>2, ScalarsShape DEF Work, Types
<1> DEFINE r == Titled(look[c].seen.ids["openalex"], title)
           d == Decision(r)
           seen == IF d.first = look[c].work THEN look[c].seen ELSE d.seen
<1>4. r \in Work
  BY <1>3, TitledShape
<1>5. Upsert(d, r, seen) /\ Done(c) /\ UNCHANGED <<member, file, cites>>
  BY DEF TitlesFold
<1> HIDE DEF r
<1>6. d.first \in 0..MaxWorks /\ d.against \in SUBSET Names /\ d.seen \in Work
  <2> HIDE DEF d
  <2> QED
    BY <1>1, <1>4, DecisionShape DEF d
<1>7. seen \in Work
  BY <1>2, <1>6
<1>8. member' \in [Names -> {"none", "metadata_only", "included", "excluded"}]
  BY <1>1, <1>5 DEF TypeOK
<1> HIDE DEF d, seen
<1> QED
  BY <1>4, <1>5, <1>6, <1>7, <1>8, UpsertRows

LEMMA WorksAreNames == TypeOK => DOMAIN works \subseteq Names /\ DOMAIN works \subseteq 0..MaxWorks
<1> SUFFICES ASSUME TypeOK PROVE DOMAIN works \subseteq Names /\ DOMAIN works \subseteq 0..MaxWorks
  OBVIOUS
<1>1. DOMAIN works \subseteq 1..minted /\ minted \in 0..MaxWorks /\ MaxWorks \in Nat
  BY BoundsAssumption DEF TypeOK
<1> QED
  BY <1>1 DEF Names

\* The row a candidate gives a title-only work, and the ids that come with it.
Free(cand) == Pairs(StrongIds(cand)) \ DOMAIN owner
Resolved(w, cand) ==
  [works[w] EXCEPT !.ids = [t \in Types |-> IF \E i \in Free(cand) : i[1] = t
                                            THEN StrongIds(cand)[t] ELSE @[t]]]

LEMMA ResolvedShape ==
  ASSUME TypeOK, NEW c \in Clients, NEW cand \in Candidates, ResolveAttach(c, cand), NEW w, w = look[c].work
  PROVE  /\ cand \in Work /\ w \in DOMAIN works /\ Done(c) /\ UNCHANGED <<member, queue>>
         /\ Resolved(w, cand) \in Work /\ Free(cand) \in SUBSET Ids
         /\ Resolved(w, cand).title = works[w].title
         /\ \A t \in Types : Resolved(w, cand).ids[t] =
              IF \E i \in Free(cand) : i[1] = t THEN StrongIds(cand)[t] ELSE works[w].ids[t]
         /\ Rewritten(w, Resolved(w, cand), Free(cand))
<1>1. cand \in Work /\ w \in DOMAIN works /\ works[w] \in Work
  BY RecordsAssumption DEF ResolveAttach, TypeOK
<1> DEFINE f == [t \in Types |-> IF \E i \in Free(cand) : i[1] = t
                                 THEN StrongIds(cand)[t] ELSE works[w].ids[t]]
<1>2. \A t \in Types : StrongIds(cand)[t] \in Value[t] \cup {NoId}
  BY <1>1, StrongTyped, ScalarsShape
<1>3. \A t \in Types : works[w].ids[t] \in Value[t] \cup {NoId}
  BY <1>1, ScalarsShape DEF Work
<1>4. f = [t \in Types |-> f[t]] /\ \A t \in Types : f[t] \in Value[t] \cup {NoId}
  BY <1>2, <1>3
<1>5. f \in Scalars
  <2> HIDE DEF f
  <2> QED
    BY <1>4, ScalarsBuilt
<1>6. Resolved(w, cand) = [works[w] EXCEPT !.ids = f]
  BY DEF Resolved
<1>7. Resolved(w, cand) \in Work /\ Resolved(w, cand).ids = f /\ Resolved(w, cand).title = works[w].title
  <2> HIDE DEF f
  <2> QED
    BY <1>1, <1>5, <1>6 DEF Work
<1>8. Free(cand) \in SUBSET Ids /\ Free(cand) \cap DOMAIN owner = {}
  BY DEF Free, Pairs
<1>9. Rewritten(w, Resolved(w, cand), Free(cand))
  <2>1. works' = [works EXCEPT ![w].ids = f]
    BY DEF ResolveAttach, Free
  <2>2. works' = [works EXCEPT ![w] = Resolved(w, cand)]
    <3> HIDE DEF f
    <3> QED
      BY <1>6, <2>1
  <2>3. owner' = [i \in DOMAIN owner \cup Free(cand) |-> IF i \in Free(cand) THEN w ELSE owner[i]]
    BY DEF ResolveAttach, Free
  <2>4. owner' = [i \in DOMAIN owner \cup Free(cand) |-> IF i \in DOMAIN owner THEN owner[i] ELSE w]
    BY <1>8, <2>3
  <2>5. UNCHANGED <<minted, became, file, cites>>
    BY DEF ResolveAttach, Done
  <2> QED
    BY <2>2, <2>4, <2>5 DEF Rewritten
<1> QED
  BY <1>1, <1>7, <1>8, <1>9 DEF ResolveAttach

LEMMA ResolveAttachRows ==
  ASSUME Rows, NEW c \in Clients, NEW cand \in Candidates, ResolveAttach(c, cand) PROVE Rows'
<1> DEFINE w == look[c].work
<1>1. TypeOK
  BY DEF Rows
<1>2. /\ w \in DOMAIN works /\ Done(c) /\ UNCHANGED <<member, queue>>
      /\ Resolved(w, cand) \in Work /\ Free(cand) \in SUBSET Ids
      /\ Rewritten(w, Resolved(w, cand), Free(cand))
  BY <1>1, ResolvedShape
<1>3. << >> \in Seq(Item) /\ DOMAIN << >> = {} /\ Asked(<< >>)
  BY <1>2 DEF Asked
<1>4. member' \in [Names -> {"none", "metadata_only", "included", "excluded"}]
  BY <1>1, <1>2 DEF TypeOK
<1> HIDE DEF w
<1> QED
  BY <1>2, <1>3, <1>4, RewrittenRows

LEMMA ResolveAskRows == ASSUME Rows, NEW c \in Clients, ResolveAsk(c) PROVE Rows'
<1> DEFINE w == look[c].work
           items == Asks(w, 0, {})
<1>1. TypeOK /\ look \in [Clients -> Job] /\ look[c].job = "resolve" /\ w \in Names
  BY JobShape DEF Rows, TypeOK, ResolveAsk
<1>2. /\ items \in Seq(Item) /\ DOMAIN items = {1}
      /\ items[1] = [target |-> w, first |-> 0, against |-> {}, action |-> "open"]
  <2>1. 0 \in 0..MaxWorks /\ {} \in SUBSET Names
    BY BoundsAssumption
  <2> QED
    BY <1>1, <2>1, AsksOne
<1>3. Asked(items) /\ Done(c) /\ UNCHANGED <<works, minted, owner, member, file, cites>>
  BY DEF ResolveAsk, Asked
<1>4. ~Overlap => w \in DOMAIN works
  BY <1>1 DEF Rows, ResolvesLive
<1> HIDE DEF items
<1>5. /\ queue' \in Seq(Item) /\ Len(queue') <= MaxItems
      /\ \A i \in DOMAIN queue' :
           \/ i \in DOMAIN queue /\ queue'[i] = queue[i]
           \/ queue'[i].target = w /\ queue'[i].against = {}
  BY <1>1, <1>2, <1>3, AskedShape
<1>6. /\ minted' = minted /\ minted' \in 0..MaxWorks /\ minted <= minted'
      /\ DOMAIN works' = DOMAIN works /\ DOMAIN works' \subseteq 1..minted'
      /\ \A v \in DOMAIN works' : works'[v] \in Work
  BY <1>1, <1>3, BoundsAssumption DEF TypeOK
<1>7. /\ DOMAIN owner' \subseteq Ids /\ \A i \in DOMAIN owner' : owner'[i] \in DOMAIN works'
      /\ member' \in [Names -> {"none", "metadata_only", "included", "excluded"}]
      /\ file' \subseteq DOMAIN works' /\ cites' \subseteq (DOMAIN works') \X (DOMAIN works')
  BY <1>1, <1>3 DEF TypeOK
<1>8. \A d \in Clients : look'[d].job = "resolve" => look'[d] = look[d]
  BY <1>1, <1>3, DoneShape DEF Idle
<1>9. look' \in [Clients -> Job] /\ UNCHANGED became
  BY <1>1, <1>3, DoneShape
<1>10. Overlap \in BOOLEAN
  BY InstanceAssumption
<1>11. \A i \in DOMAIN queue' :
           \/ i \in DOMAIN queue /\ queue'[i] = queue[i]
           \/ queue'[i].target \in DOMAIN works'
           \/ Overlap /\ queue'[i].against = {}
  BY <1>4, <1>5, <1>6, <1>10
<1> QED
  BY <1>5, <1>6, <1>7, <1>8, <1>9, <1>11, RowsGrow

\* The row a paper gives its work, the ids that come with it, and the items.
New(w, meta) == {t \in Types : Attaches(w, t, meta.ids[t])}
Says(w, meta) == {<<t, meta.ids[t]>> : t \in New(w, meta)}
Told(w, meta, force) ==
  [ids |-> [t \in Types |-> IF t \in New(w, meta) THEN meta.ids[t] ELSE works[w].ids[t]],
   title |-> IF meta.title # NoTitle /\ (force \/ FilenameTitled(w)) THEN meta.title ELSE works[w].title]

LEMMA DisputesShape ==
  ASSUME TypeOK, NEW w \in DOMAIN works, NEW t, NEW v
  PROVE  Disputes(w, t, v) \in Seq(Item) /\ \A k \in DOMAIN Disputes(w, t, v) : Disputes(w, t, v)[k].target = w
<1>1. w \in Names /\ w \in 0..MaxWorks /\ {w} \in SUBSET Names
  BY WorksAreNames
<1>2. CASE Disputes(w, t, v) = <<>>
  BY <1>2
<1>3. ASSUME NEW first \in 0..MaxWorks, NEW against \in SUBSET Names, Disputes(w, t, v) = Asks(w, first, against)
      PROVE  Disputes(w, t, v) \in Seq(Item)
             /\ \A k \in DOMAIN Disputes(w, t, v) : Disputes(w, t, v)[k].target = w
  <2> DEFINE a == Asks(w, first, against)
  <2>1. /\ a \in Seq(Item) /\ DOMAIN a = {1}
        /\ a[1] = [target |-> w, first |-> first, against |-> against, action |-> "open"]
    BY <1>1, <1>3, AsksOne
  <2>2. Disputes(w, t, v) = a
    BY <1>3
  <2> HIDE DEF a
  <2>3. a[1].target = w
    BY <2>1
  <2> QED
    BY <2>1, <2>2, <2>3
<1>4. \/ Disputes(w, t, v) = <<>>
      \/ Disputes(w, t, v) = Asks(w, w, {w})
      \/ <<t, v>> \in DOMAIN owner /\ Disputes(w, t, v) = Asks(w, owner[<<t, v>>], {owner[<<t, v>>]})
  BY DEF Disputes
<1>5. <<t, v>> \in DOMAIN owner => owner[<<t, v>>] \in 0..MaxWorks /\ {owner[<<t, v>>]} \in SUBSET Names
  BY WorksAreNames DEF TypeOK
<1> QED
  BY <1>1, <1>2, <1>3, <1>4, <1>5

LEMMA ToldShape ==
  ASSUME TypeOK, NEW c \in Clients, NEW meta \in Metadata, BiblioApply(c, meta), NEW w, w = look[c].work
  PROVE  /\ w \in DOMAIN works /\ Done(c) /\ UNCHANGED member
         /\ Told(w, meta, look[c].force) \in Work /\ Says(w, meta) \in SUBSET Ids
         /\ \A t \in Types : Told(w, meta, look[c].force).ids[t] =
              IF t \in New(w, meta) THEN meta.ids[t] ELSE works[w].ids[t]
         /\ \A t \in New(w, meta) : meta.ids[t] # NoId /\ Owned(w, t) = NoId /\ <<t, meta.ids[t]>> \notin DOMAIN owner
         /\ Rewritten(w, Told(w, meta, look[c].force), Says(w, meta))
         /\ \E items \in Seq(Item) : Enqueue(items) /\ \A k \in DOMAIN items : items[k].target = w
<1>1. meta \in Work /\ w \in DOMAIN works /\ works[w] \in Work
  BY RecordsAssumption DEF BiblioApply, TypeOK
<1> DEFINE f == [t \in Types |-> IF t \in New(w, meta) THEN meta.ids[t] ELSE works[w].ids[t]]
           title == IF meta.title # NoTitle /\ (look[c].force \/ FilenameTitled(w))
                    THEN meta.title ELSE works[w].title
<1>2. \A t \in Types : meta.ids[t] \in Value[t] \cup {NoId} /\ works[w].ids[t] \in Value[t] \cup {NoId}
  BY <1>1, ScalarsShape DEF Work
<1>3. f = [t \in Types |-> f[t]] /\ \A t \in Types : f[t] \in Value[t] \cup {NoId}
  BY <1>2
<1>4. f \in Scalars
  <2> HIDE DEF f
  <2> QED
    BY <1>3, ScalarsBuilt
<1>5. title \in Titles \cup {NoTitle}
  BY <1>1 DEF Work
<1>6. Told(w, meta, look[c].force) = [ids |-> f, title |-> title]
  BY DEF Told
<1>7. Told(w, meta, look[c].force) \in Work /\ Told(w, meta, look[c].force).ids = f
  <2> HIDE DEF f, title
  <2> QED
    BY <1>4, <1>5, <1>6 DEF Work
<1>8. \A t \in New(w, meta) : meta.ids[t] # NoId /\ Owned(w, t) = NoId /\ <<t, meta.ids[t]>> \notin DOMAIN owner
  BY DEF New, Attaches
<1>9. Says(w, meta) \in SUBSET Ids
  <2>1. ASSUME NEW t \in New(w, meta) PROVE <<t, meta.ids[t]>> \in Ids
    <3>1. t \in Types /\ meta.ids[t] \in Value[t]
      BY <1>2, <1>8, <2>1 DEF New
    <3> QED
      BY <3>1 DEF Ids
  <2> QED
    BY <2>1 DEF Says
<1>10. Rewritten(w, Told(w, meta, look[c].force), Says(w, meta))
  <2>1. works' = [works EXCEPT ![w] = Told(w, meta, look[c].force)]
    BY DEF BiblioApply, Told, New
  <2>2. owner' = [i \in DOMAIN owner \cup Says(w, meta) |-> IF i \in DOMAIN owner THEN owner[i] ELSE w]
    BY DEF BiblioApply, Says, New
  <2>3. UNCHANGED <<minted, became, file, cites>>
    BY DEF BiblioApply, Done
  <2> QED
    BY <2>1, <2>2, <2>3 DEF Rewritten
<1>11. \E items \in Seq(Item) : Enqueue(items) /\ \A k \in DOMAIN items : items[k].target = w
  <2>1. PICK a \in Seq(Item) : a = Disputes(w, "doi", meta.ids["doi"]) /\ \A k \in DOMAIN a : a[k].target = w
    BY <1>1, DisputesShape
  <2>2. PICK b \in Seq(Item) : b = Disputes(w, "arxiv", meta.ids["arxiv"]) /\ \A k \in DOMAIN b : b[k].target = w
    BY <1>1, DisputesShape
  <2>3. Enqueue(a \o b)
    BY <2>1, <2>2 DEF BiblioApply
  <2>4. a \o b \in Seq(Item) /\ \A k \in DOMAIN (a \o b) : (a \o b)[k].target = w
    <3>1. a \o b \in Seq(Item) /\ Len(a \o b) = Len(a) + Len(b)
      OBVIOUS
    <3>2. ASSUME NEW k \in DOMAIN (a \o b) PROVE (a \o b)[k].target = w
      <4>1. k \in 1..(Len(a) + Len(b))
        BY <3>1
      <4>2. CASE k <= Len(a)
        BY <2>1, <4>1, <4>2
      <4>3. CASE ~(k <= Len(a))
        <5>1. k - Len(a) \in DOMAIN b /\ (a \o b)[k] = b[k - Len(a)]
          BY <4>1, <4>3
        <5> QED
          BY <2>2, <5>1
      <4> QED
        BY <4>2, <4>3
    <3> QED
      BY <3>1, <3>2
  <2> QED
    BY <2>3, <2>4
<1> QED
  BY <1>1, <1>7, <1>8, <1>9, <1>10, <1>11 DEF BiblioApply

LEMMA BiblioApplyRows ==
  ASSUME Rows, NEW c \in Clients, NEW meta \in Metadata, BiblioApply(c, meta) PROVE Rows'
<1> DEFINE w == look[c].work
<1>1. TypeOK
  BY DEF Rows
<1>2. /\ w \in DOMAIN works /\ Done(c) /\ UNCHANGED member
      /\ Told(w, meta, look[c].force) \in Work /\ Says(w, meta) \in SUBSET Ids
      /\ Rewritten(w, Told(w, meta, look[c].force), Says(w, meta))
  BY <1>1, ToldShape
<1>3. PICK items \in Seq(Item) : Enqueue(items) /\ \A k \in DOMAIN items : items[k].target = w
  BY <1>1, ToldShape
<1>4. member' \in [Names -> {"none", "metadata_only", "included", "excluded"}] /\ Asked(items)
  BY <1>1, <1>2, <1>3 DEF TypeOK, Asked
<1> HIDE DEF w
<1> QED
  BY <1>2, <1>3, <1>4, RewrittenRows

\* Jobs that read, or end without a write.
LEMMA LookRows ==
  ASSUME Rows, NEW c \in Clients, NEW r \in Incoming, NEW status \in Standings, Look(c, r, status)
  PROVE  Rows'
<1>1. TypeOK /\ r \in Work /\ status \in {"included", "metadata_only"}
  BY RecordsAssumption, InstanceAssumption DEF Rows
<1> DEFINE d == Decision(r)
           j == [job |-> "upsert", record |-> r, status |-> status,
                 plan |-> d.plan, first |-> d.first, against |-> d.against, seen |-> d.seen]
<1>2. look' = [look EXCEPT ![c] = j] /\ UNCHANGED <<tables, became>>
  BY DEF Look
<1>3. /\ d.plan \in {"create", "merge", "demote"} /\ d.first \in 0..MaxWorks
      /\ d.against \in SUBSET Names /\ d.seen \in Work
  <2> HIDE DEF d
  <2> QED
    BY <1>1, DecisionShape DEF d
<1> HIDE DEF d
<1>4. j \in Job /\ j.job # "resolve"
  BY <1>1, <1>3 DEF Job
<1> HIDE DEF j
<1> QED
  BY <1>2, <1>4, ReadRows

LEMMA SelectRows ==
  ASSUME Rows, NEW c \in Clients, NEW w \in Names, NEW force \in BOOLEAN,
         TitlesSelect(c, w) \/ ResolveSelect(c, w) \/ BiblioSelect(c, w, force)
  PROVE  Rows'
<1>1. TypeOK
  BY DEF Rows
<1>2. ASSUME NEW job \in {"titles", "resolve"}, w \in DOMAIN works, UNCHANGED <<tables, became>>,
             look' = [look EXCEPT ![c] = [job |-> job, work |-> w, seen |-> works[w]]]
      PROVE  Rows'
  <2> DEFINE j == [job |-> job, work |-> w, seen |-> works[w]]
  <2>1. works[w] \in Work
    BY <1>1, <1>2 DEF TypeOK
  <2>2. j \in Job /\ j.work \in DOMAIN works
    BY <1>2, <2>1 DEF Job
  <2>3. look' = [look EXCEPT ![c] = j]
    BY <1>2
  <2> HIDE DEF j
  <2> QED
    BY <1>2, <2>2, <2>3, ReadRows
<1>3. CASE TitlesSelect(c, w)
  BY <1>2, <1>3 DEF TitlesSelect
<1>4. CASE ResolveSelect(c, w)
  BY <1>2, <1>4 DEF ResolveSelect
<1>5. CASE BiblioSelect(c, w, force)
  <2> DEFINE j == [job |-> "biblio", work |-> w, force |-> force]
  <2>1. j \in Job /\ j.job # "resolve"
    BY DEF Job
  <2>2. look' = [look EXCEPT ![c] = j] /\ UNCHANGED <<tables, became>>
    BY <1>5 DEF BiblioSelect
  <2> HIDE DEF j
  <2> QED
    BY <2>1, <2>2, ReadRows
<1> QED
  BY <1>3, <1>4, <1>5

LEMMA EndRows ==
  ASSUME Rows, NEW c \in Clients, Done(c), UNCHANGED tables PROVE Rows'
<1>1. look' = [look EXCEPT ![c] = Idle] /\ UNCHANGED <<tables, became>>
  BY DEF Done
<1>2. Idle \in Job /\ Idle.job # "resolve"
  BY DEF Job, Idle
<1> QED
  BY <1>1, <1>2, ReadRows

\* Neighbours and verdicts that take no row away.
LEMMA NeighbourRows ==
  ASSUME Rows, NEW v \in Names, NEW w \in Names, Acquire(w) \/ Cite(v, w) PROVE Rows'
<1>1. /\ minted \in 0..MaxWorks /\ DOMAIN works \subseteq 1..minted /\ minted \in Nat
      /\ member \in [Names -> {"none", "metadata_only", "included", "excluded"}]
  BY BoundsAssumption DEF Rows, TypeOK
<1>2. UNCHANGED <<works, minted, owner, queue, look, became>>
  BY DEF Acquire, Cite
<1>3. file' \subseteq DOMAIN works' /\ cites' \subseteq (DOMAIN works') \X (DOMAIN works')
  BY <1>2 DEF Rows, TypeOK, Acquire, Cite
<1>4. member' \in [Names -> {"none", "metadata_only", "included", "excluded"}]
  BY <1>1 DEF Acquire, Cite
<1>5. /\ \A u \in DOMAIN works' : works'[u] \in Work
      /\ DOMAIN owner' \subseteq Ids /\ \A i \in DOMAIN owner' : owner'[i] \in DOMAIN works'
      /\ queue' \in Seq(Item) /\ Len(queue') <= MaxItems /\ look' \in [Clients -> Job]
  BY <1>2 DEF Rows, TypeOK
<1>6. \A i \in DOMAIN queue' : i \in DOMAIN queue /\ queue'[i] = queue[i]
  BY <1>2
<1> QED
  BY <1>1, <1>2, <1>3, <1>4, <1>5, <1>6, RowsGrow

\* An item is settled: it is no longer open, the others are as they were.
LEMMA SettledShape ==
  ASSUME queue \in Seq(Item), NEW i \in DOMAIN queue, NEW action \in {"merge", "exclude", "reject"},
         queue' = [queue EXCEPT ![i].action = action]
  PROVE  /\ queue' \in Seq(Item) /\ Len(queue') = Len(queue) /\ DOMAIN queue' = DOMAIN queue
         /\ queue'[i].action = action /\ queue'[i].target = queue[i].target
         /\ queue'[i].against = queue[i].against
         /\ \A k \in DOMAIN queue : k # i => queue'[k] = queue[k]
<1>1. queue[i] \in Item
  OBVIOUS
<1> DEFINE item == [queue[i] EXCEPT !.action = action]
<1>2. /\ item \in Item /\ item.action = action
      /\ item.target = queue[i].target /\ item.against = queue[i].against
  BY <1>1 DEF Item
<1>3. queue' = [queue EXCEPT ![i] = item]
  OBVIOUS
<1> HIDE DEF item
<1> QED
  BY <1>2, <1>3

LEMMA VerdictRows ==
  ASSUME Rows, NEW i, ResolveExclude(i) \/ ResolveReject(i) PROVE Rows'
<1>1. /\ minted \in 0..MaxWorks /\ DOMAIN works \subseteq 1..minted /\ minted \in Nat
      /\ member \in [Names -> {"none", "metadata_only", "included", "excluded"}]
      /\ queue \in Seq(Item) /\ i \in DOMAIN queue
  BY BoundsAssumption DEF Rows, TypeOK, ResolveExclude, ResolveReject, Open
<1>2. UNCHANGED <<works, minted, owner, file, cites, look, became>>
  BY DEF ResolveExclude, ResolveReject
<1>3. PICK action \in {"merge", "exclude", "reject"} : queue' = [queue EXCEPT ![i].action = action]
  BY DEF ResolveExclude, ResolveReject
<1>4. /\ queue' \in Seq(Item) /\ Len(queue') = Len(queue) /\ DOMAIN queue' = DOMAIN queue
      /\ queue'[i].action # "open" /\ \A k \in DOMAIN queue : k # i => queue'[k] = queue[k]
  BY <1>1, <1>3, SettledShape
<1>5. member' \in [Names -> {"none", "metadata_only", "included", "excluded"}]
  BY <1>1 DEF ResolveExclude, ResolveReject
<1>6. /\ \A u \in DOMAIN works' : works'[u] \in Work
      /\ DOMAIN owner' \subseteq Ids /\ \A k \in DOMAIN owner' : owner'[k] \in DOMAIN works'
      /\ file' \subseteq DOMAIN works' /\ cites' \subseteq (DOMAIN works') \X (DOMAIN works')
      /\ Len(queue') <= MaxItems /\ look' \in [Clients -> Job]
  BY <1>2, <1>4 DEF Rows, TypeOK
<1> QED
  BY <1>1, <1>2, <1>4, <1>5, <1>6, RowsGrow

\* A merge moves the victim's rows to the survivor and fills its empty columns.
LEMMA MergeShape ==
  ASSUME TypeOK, NEW s \in DOMAIN works, NEW v \in DOMAIN works, s # v, MergeWorks(s, v)
  PROVE  /\ DOMAIN works' = DOMAIN works \ {v}
         /\ works'[s] = Backfill(works[s], works[s], works[v])
         /\ \A w \in DOMAIN works' : works'[w] \in Work /\ (w # s => works'[w] = works[w])
         /\ DOMAIN owner' = DOMAIN owner
         /\ \A i \in DOMAIN owner : owner'[i] = IF owner[i] = v THEN s ELSE owner[i]
         /\ \A w \in Names : became'[w] = IF became[w] = v THEN s ELSE became[w]
         /\ became' \in [Names -> Names]
         /\ file' \subseteq DOMAIN works' /\ cites' \subseteq (DOMAIN works') \X (DOMAIN works')
         /\ member' \in [Names -> {"none", "metadata_only", "included", "excluded"}]
<1> DEFINE new == Backfill(works[s], works[s], works[v])
<1>1. s \in Names /\ v \in Names
  BY WorksAreNames
<1>2. new \in Work
  <2>1. works[s] \in Work /\ works[v] \in Work
    BY DEF TypeOK
  <2> QED
    BY <2>1, BackfillShape
<1>3. works' = [w \in DOMAIN works \ {v} |-> IF w = s THEN new ELSE works[w]]
  BY DEF MergeWorks
<1> HIDE DEF new
<1>4. /\ DOMAIN works' = DOMAIN works \ {v} /\ works'[s] = new
      /\ \A w \in DOMAIN works' : works'[w] \in Work /\ (w # s => works'[w] = works[w])
  BY <1>2, <1>3 DEF TypeOK
<1>5. /\ DOMAIN owner' = DOMAIN owner
      /\ \A i \in DOMAIN owner : owner'[i] = IF owner[i] = v THEN s ELSE owner[i]
  BY DEF MergeWorks
<1>6. became' = [w \in Names |-> IF became[w] = v THEN s ELSE became[w]]
  BY DEF MergeWorks
<1>7. became' \in [Names -> Names]
  BY <1>1, <1>6 DEF TypeOK
<1>8. file' \subseteq DOMAIN works'
  BY <1>4 DEF MergeWorks, TypeOK
<1>9. cites' \subseteq (DOMAIN works') \X (DOMAIN works')
  <2> DEFINE Now(w) == IF w = v THEN s ELSE w
  <2>1. cites' = {e \in {<<Now(e[1]), Now(e[2])>> : e \in cites} : e[1] # e[2]}
    BY DEF MergeWorks
  <2>2. \A w \in DOMAIN works : Now(w) \in DOMAIN works'
    BY <1>4
  <2>3. \A e \in cites : e[1] \in DOMAIN works /\ e[2] \in DOMAIN works
    BY DEF TypeOK
  <2> HIDE DEF Now
  <2> QED
    BY <2>1, <2>2, <2>3
<1>10. member' \in [Names -> {"none", "metadata_only", "included", "excluded"}]
  <2>1. member \in [Names -> {"none", "metadata_only", "included", "excluded"}]
    BY DEF TypeOK
  <2>2. member' = [member EXCEPT
          ![v] = "none",
          ![s] = IF @ = "none" THEN member[v]
                 ELSE IF @ = "metadata_only" /\ member[v] = "included" THEN "included" ELSE @]
    BY DEF MergeWorks
  <2> QED
    BY <1>1, <2>1, <2>2
<1> QED
  BY <1>4, <1>5, <1>6, <1>7, <1>8, <1>9, <1>10 DEF new

\* The reviewer says "merge": nothing moves, or one work folds into another and
\* the items that were open follow it.
Merged(i, s, v) ==
  /\ Open(i) /\ s \in DOMAIN works /\ v \in DOMAIN works /\ s # v
  /\ MergeWorks(s, v) /\ UNCHANGED <<minted, look>>
  /\ queue' = [Retargeted(s, v) EXCEPT ![i].action = "merge"]

Followed(i, s, v) ==
  /\ queue' \in Seq(Item) /\ Len(queue') = Len(queue) /\ DOMAIN queue' = DOMAIN queue
  /\ queue'[i].action = "merge"
  /\ \A k \in DOMAIN queue : queue'[k].against = queue[k].against
  /\ \A k \in DOMAIN queue : k # i => queue'[k].action = queue[k].action
  /\ \A k \in DOMAIN queue : queue'[k].target =
       IF queue[k].action = "open" /\ queue[k].target = v THEN s ELSE queue[k].target

LEMMA RetargetedShape ==
  ASSUME TypeOK, NEW i, NEW s \in Names, NEW v \in Names, Merged(i, s, v)
  PROVE  Followed(i, s, v)
<1> DEFINE T(k) == IF queue[k].action = "open" /\ queue[k].target = v
                   THEN [queue[k] EXCEPT !.target = s] ELSE queue[k]
           U(k) == IF k = i THEN [T(k) EXCEPT !.action = "merge"] ELSE T(k)
<1>0. queue \in Seq(Item) /\ i \in DOMAIN queue /\ queue' = [Retargeted(s, v) EXCEPT ![i].action = "merge"]
  BY DEF TypeOK, Merged, Open
<1>1. queue' = [k \in DOMAIN queue |-> U(k)]
  <2>1. Retargeted(s, v) = [k \in DOMAIN queue |-> T(k)]
    BY DEF Retargeted, Open
  <2> HIDE DEF T
  <2> QED
    BY <1>0, <2>1
<1>2. ASSUME NEW k \in DOMAIN queue
      PROVE  /\ T(k) \in Item /\ T(k).action = queue[k].action /\ T(k).against = queue[k].against
             /\ T(k).target = IF queue[k].action = "open" /\ queue[k].target = v THEN s ELSE queue[k].target
  <2>1. queue[k] \in Item
    BY <1>0
  <2> QED
    BY <2>1 DEF Item
<1> HIDE DEF T
<1>3. ASSUME NEW k \in DOMAIN queue
      PROVE  /\ U(k) \in Item /\ U(k).against = queue[k].against
             /\ U(k).target = IF queue[k].action = "open" /\ queue[k].target = v THEN s ELSE queue[k].target
             /\ IF k = i THEN U(k).action = "merge" ELSE U(k).action = queue[k].action
  BY <1>2 DEF Item
<1> HIDE DEF U
<1>4. Len(queue) \in Nat /\ DOMAIN queue = 1..Len(queue)
  BY <1>0
<1>5. queue' \in [1..Len(queue) -> Item]
  BY <1>1, <1>3, <1>4
<1>6. queue' \in Seq(Item) /\ Len(queue') = Len(queue) /\ DOMAIN queue' = DOMAIN queue
  <2>1. PICK n \in Nat : n = Len(queue)
    BY <1>4
  <2>2. queue' \in [1..n -> Item] /\ DOMAIN queue' = 1..n
    BY <1>5, <2>1
  <2>3. queue' \in Seq(Item)
    BY <2>2
  <2>4. Len(queue') = n
    BY <2>2, <2>3
  <2> QED
    BY <1>4, <2>1, <2>2, <2>3, <2>4
<1>7. \A k \in DOMAIN queue : queue'[k] = U(k)
  BY <1>1
<1> QED
  BY <1>0, <1>3, <1>6, <1>7 DEF Followed

LEMMA MergeCases ==
  ASSUME Rows, NEW i, NEW survivor \in Names, ResolveMerge(i, survivor)
  PROVE  /\ i \in DOMAIN queue /\ queue[i].action = "open" /\ Alone
         /\ \/ /\ UNCHANGED <<works, minted, owner, member, file, cites, became, look>>
               /\ queue' = [queue EXCEPT ![i].action = "merge"]
            \/ \E v \in Names :
                 /\ Merged(i, survivor, v)
                 /\ survivor # queue[i].target => v = queue[i].target
<1>1. DOMAIN works \subseteq Names
  BY WorksAreNames DEF Rows
<1>2. i \in DOMAIN queue /\ queue[i].action = "open" /\ Alone /\ UNCHANGED <<minted, look>>
  BY DEF ResolveMerge, Open
<1> DEFINE victim == IF survivor = queue[i].target THEN queue[i].first ELSE queue[i].target
<1>3. /\ survivor \in DOMAIN works /\ victim \in DOMAIN works
      /\ IF survivor = victim
         THEN /\ queue' = [queue EXCEPT ![i].action = "merge"]
              /\ UNCHANGED <<works, owner, member, file, cites, became>>
         ELSE /\ MergeWorks(survivor, victim)
              /\ queue' = [Retargeted(survivor, victim) EXCEPT ![i].action = "merge"]
  BY DEF ResolveMerge
<1>4. survivor # queue[i].target => victim = queue[i].target
  OBVIOUS
<1> HIDE DEF victim
<1>5. CASE survivor = victim
  BY <1>2, <1>3, <1>5
<1>6. CASE survivor # victim
  <2>1. Merged(i, survivor, victim) /\ victim \in Names
    BY <1>1, <1>2, <1>3, <1>6 DEF Merged, Open
  <2> QED
    BY <1>2, <1>4, <2>1
<1> QED
  BY <1>5, <1>6

LEMMA MergedRows ==
  ASSUME Rows, NEW i, NEW s \in Names, NEW v \in Names, Merged(i, s, v), Alone PROVE Rows'
<1>1. /\ TypeOK /\ s \in DOMAIN works /\ v \in DOMAIN works /\ s # v /\ MergeWorks(s, v)
      /\ UNCHANGED <<minted, look>> /\ queue' = [Retargeted(s, v) EXCEPT ![i].action = "merge"]
      /\ i \in DOMAIN queue /\ queue \in Seq(Item) /\ Len(queue) <= MaxItems
  BY DEF Rows, TypeOK, Merged, Open
<1>2. /\ DOMAIN works' = DOMAIN works \ {v} /\ \A w \in DOMAIN works' : works'[w] \in Work
      /\ DOMAIN owner' = DOMAIN owner
      /\ \A k \in DOMAIN owner : owner'[k] = IF owner[k] = v THEN s ELSE owner[k]
      /\ \A w \in Names : became'[w] = IF became[w] = v THEN s ELSE became[w]
      /\ became' \in [Names -> Names]
      /\ file' \subseteq DOMAIN works' /\ cites' \subseteq (DOMAIN works') \X (DOMAIN works')
      /\ member' \in [Names -> {"none", "metadata_only", "included", "excluded"}]
  BY <1>1, MergeShape
<1>0. TypeOK
  BY <1>1
<1>8. Followed(i, s, v)
  BY <1>0, RetargetedShape
<1>3. /\ queue' \in Seq(Item) /\ Len(queue') = Len(queue) /\ DOMAIN queue' = DOMAIN queue
      /\ queue'[i].action = "merge"
      /\ \A k \in DOMAIN queue : queue'[k].against = queue[k].against
      /\ \A k \in DOMAIN queue : k # i => queue'[k].action = queue[k].action
      /\ \A k \in DOMAIN queue : queue'[k].target =
           IF queue[k].action = "open" /\ queue[k].target = v THEN s ELSE queue[k].target
  BY <1>8 DEF Followed
<1>4. TypeOK'
  <2>1. \A k \in DOMAIN owner' : owner'[k] \in DOMAIN works'
    BY <1>1, <1>2 DEF TypeOK
  <2>2. /\ DOMAIN works' \subseteq 1..minted' /\ minted' \in 0..MaxWorks /\ DOMAIN owner' \subseteq Ids
        /\ look' \in [Clients -> Job] /\ Len(queue') <= MaxItems
    BY <1>1, <1>2, <1>3 DEF TypeOK
  <2> QED
    BY <1>2, <1>3, <2>1, <2>2 DEF TypeOK
<1>5. NamesOK'
  <2>1. ASSUME NEW w \in DOMAIN works' PROVE became'[w] = w
    <3>1. w \in DOMAIN works /\ w # v /\ w \in Names
      BY <1>1, <1>2, <2>1, WorksAreNames
    <3>2. became[w] = w
      BY <3>1 DEF Rows, NamesOK
    <3> QED
      BY <1>2, <3>1, <3>2
  <2>2. s <= minted /\ v <= minted /\ minted \in Nat
    BY <1>1, BoundsAssumption DEF TypeOK
  <2>3. ASSUME NEW w \in Names PROVE IF w > minted' THEN became'[w] = w ELSE became'[w] <= minted'
    <3>1. w \in Nat
      BY DEF Names
    <3>2. IF w > minted THEN became[w] = w ELSE became[w] <= minted
      BY DEF Rows, NamesOK
    <3> QED
      BY <1>1, <1>2, <2>2, <3>1, <3>2
  <2> QED
    BY <2>1, <2>3 DEF NamesOK
<1>6. ResolvesLive'
  BY <1>1, InstanceAssumption DEF Alone, ResolvesLive, Idle
<1>7. OpenItemsTargetWorks'
  <2>1. ASSUME NEW k \in DOMAIN queue, queue'[k].action = "open", queue'[k].target \notin DOMAIN works'
        PROVE  Overlap /\ queue'[k].against = {}
    <3>1. k # i /\ queue[k].action = "open"
      BY <1>3, <2>1
    <3>2. queue[k].target # v
      BY <1>1, <1>2, <1>3, <2>1, <3>1
    <3>3. queue[k].target \notin DOMAIN works
      BY <1>2, <1>3, <2>1, <3>1, <3>2
    <3> QED
      BY <1>3, <3>1, <3>3 DEF Rows, OpenItemsTargetWorks, Open
  <2> QED
    BY <1>3, <2>1 DEF OpenItemsTargetWorks, Open
<1> QED
  BY <1>4, <1>5, <1>6, <1>7 DEF Rows

LEMMA ResolveMergeRows ==
  ASSUME Rows, NEW i, NEW survivor \in Names, ResolveMerge(i, survivor) PROVE Rows'
<1>1. i \in DOMAIN queue /\ queue[i].action = "open" /\ Alone
  BY MergeCases
<1>2. CASE /\ UNCHANGED <<works, minted, owner, member, file, cites, became, look>>
           /\ queue' = [queue EXCEPT ![i].action = "merge"]
  <2>1. queue \in Seq(Item) /\ Len(queue) <= MaxItems
    BY DEF Rows, TypeOK
  <2>2. /\ queue' \in Seq(Item) /\ Len(queue') = Len(queue) /\ DOMAIN queue' = DOMAIN queue
        /\ queue'[i].action # "open" /\ \A k \in DOMAIN queue : k # i => queue'[k] = queue[k]
    BY <1>1, <1>2, <2>1, SettledShape
  <2>3. TypeOK'
    BY <1>2, <2>1, <2>2 DEF Rows, TypeOK
  <2>4. NamesOK' /\ ResolvesLive' /\ OpenItemsTargetWorks'
    BY <1>2, <2>2 DEF Rows, NamesOK, ResolvesLive, OpenItemsTargetWorks, Open
  <2> QED
    BY <2>3, <2>4 DEF Rows
<1>3. CASE \E v \in Names : Merged(i, survivor, v)
  BY <1>1, <1>3, MergedRows
<1> QED
  BY <1>2, <1>3, MergeCases

LEMMA RowsInit == Init => Rows
<1> SUFFICES ASSUME Init PROVE Rows
  OBVIOUS
<1>1. TypeOK
  <2>1. DOMAIN works = {} /\ DOMAIN owner = {}
    BY DEF Init
  <2>2. queue \in Seq(Item) /\ Len(queue) <= MaxItems /\ minted \in 0..MaxWorks
    BY BoundsAssumption DEF Init
  <2>3. look \in [Clients -> Job]
    BY DEF Init, Job
  <2> QED
    BY <2>1, <2>2, <2>3 DEF Init, TypeOK
<1>2. NamesOK
  BY DEF Init, NamesOK, Names
<1>3. ResolvesLive /\ OpenItemsTargetWorks
  BY DEF Init, ResolvesLive, OpenItemsTargetWorks, Open, Idle
<1> QED
  BY <1>1, <1>2, <1>3 DEF Rows

LEMMA RowsStep == Rows /\ [Next]_vars => Rows'
<1> SUFFICES ASSUME Rows, [Next]_vars PROVE Rows'
  OBVIOUS
<1>1. CASE UNCHANGED vars
  BY <1>1 DEF vars, tables, Rows, TypeOK, NamesOK, ResolvesLive, OpenItemsTargetWorks, Open
<1>2. ASSUME NEW c \in Clients, JobStep(c) PROVE Rows'
  <2>1. CASE \E r \in Incoming, status \in Standings : Look(c, r, status)
    BY <2>1, LookRows
  <2>2. CASE Store(c)
    BY <2>2, StoreRows
  <2>3. CASE RollBack(c) \/ TitlesMiss(c) \/ ResolveMiss(c) \/ BiblioGone(c)
    BY <2>3, EndRows DEF RollBack, TitlesMiss, ResolveMiss, BiblioGone
  <2>4. CASE \E w \in Names : TitlesSelect(c, w) \/ ResolveSelect(c, w)
    BY <2>4, SelectRows
  <2>5. CASE \E title \in Titles : TitlesFold(c, title)
    BY <2>5, TitlesFoldRows
  <2>6. CASE \E cand \in Candidates : ResolveAttach(c, cand)
    BY <2>6, ResolveAttachRows
  <2>7. CASE ResolveAsk(c)
    BY <2>7, ResolveAskRows
  <2>8. CASE \E w \in Names, force \in BOOLEAN : BiblioSelect(c, w, force)
    BY <2>8, SelectRows
  <2>9. CASE \E meta \in Metadata : BiblioApply(c, meta)
    BY <2>9, BiblioApplyRows
  <2> QED
    BY <1>2, <2>1, <2>2, <2>3, <2>4, <2>5, <2>6, <2>7, <2>8, <2>9 DEF JobStep
<1>3. CASE \E v, w \in Names : Acquire(w) \/ Cite(v, w)
  BY <1>3, NeighbourRows
<1>4. CASE ReviewStep
  BY <1>4, ResolveMergeRows, VerdictRows DEF ReviewStep
<1> QED
  BY <1>1, <1>2, <1>3, <1>4 DEF Next

\* The tables stay typed and no open item dangles, for every set of records,
\* clients and bounds, whoever acts between whose read and write (identity.py,
\* merge.py's retargeting of open items).
THEOREM NoDangling == Spec => []NoRowDangles
<1>1. Init => Rows
  BY RowsInit
<1>2. Rows /\ [Next]_vars => Rows'
  BY RowsStep
<1>3. Rows => NoRowDangles
  BY DEF Rows, NoRowDangles
<1> QED
  BY <1>1, <1>2, <1>3, PTL DEF Spec

-----------------------------------------------------------------------------
(* What a merge keeps *)

Keeps ==
  /\ \A i \in DOMAIN owner : i \in DOMAIN owner' /\ owner'[i] = became'[owner[i]]
  /\ \A e \in cites : became'[e[1]] # became'[e[2]] =>
       <<became'[e[1]], became'[e[2]]>> \in cites'
  /\ \A w \in file : became'[w] \in file'
  /\ \A w \in DOMAIN works : member[w] = "included" /\ w \notin DOMAIN works' =>
       member'[became'[w]] \in {"included", "excluded"}

\* A step that takes no row away and moves none.
LEMMA GrowingKeeps ==
  ASSUME Rows, UNCHANGED became, DOMAIN works \subseteq DOMAIN works', DOMAIN owner \subseteq DOMAIN owner',
         \A i \in DOMAIN owner : owner'[i] = owner[i], file \subseteq file', cites \subseteq cites'
  PROVE  Keeps
<1>1. \A w \in DOMAIN works : became'[w] = w
  BY DEF Rows, NamesOK
<1>2. \A e \in cites : e[1] \in DOMAIN works /\ e[2] \in DOMAIN works /\ e = <<e[1], e[2]>>
  BY DEF Rows, TypeOK
<1>3. (\A i \in DOMAIN owner : owner[i] \in DOMAIN works) /\ file \subseteq DOMAIN works
  BY DEF Rows, TypeOK
<1>4. \A e \in cites : <<became'[e[1]], became'[e[2]]>> \in cites'
  BY <1>1, <1>2
<1>5. \A w \in file : became'[w] \in file'
  BY <1>1, <1>3
<1>6. \A i \in DOMAIN owner : i \in DOMAIN owner' /\ owner'[i] = became'[owner[i]]
  BY <1>1, <1>3
<1> QED
  BY <1>4, <1>5, <1>6 DEF Keeps

LEMMA UnmovedKeeps ==
  ASSUME Rows, UNCHANGED <<works, owner, became>>, file \subseteq file', cites \subseteq cites'
  PROVE  Keeps
BY GrowingKeeps

LEMMA RewrittenKeeps ==
  ASSUME Rows, NEW w \in DOMAIN works, NEW new \in Work, NEW ids \in SUBSET Ids, Rewritten(w, new, ids)
  PROVE  Keeps
<1>1. TypeOK /\ UNCHANGED <<became, file, cites>>
  BY DEF Rows, Rewritten
<1>2. /\ DOMAIN works' = DOMAIN works /\ DOMAIN owner' = DOMAIN owner \cup ids
      /\ \A i \in DOMAIN owner : owner'[i] = owner[i]
  BY <1>1, RewrittenShape
<1> QED
  BY <1>1, <1>2, GrowingKeeps

LEMMA MintKeeps ==
  ASSUME Rows, NEW r \in Work, Mint(r), UNCHANGED <<became, file, cites>> PROVE Keeps
<1>1. TypeOK
  BY DEF Rows
<1>2. /\ DOMAIN works' = DOMAIN works \cup {minted + 1}
      /\ DOMAIN owner' = DOMAIN owner \cup Pairs(StrongIds(r))
      /\ \A i \in DOMAIN owner : owner'[i] = owner[i]
  BY <1>1, MintShape
<1> QED
  BY <1>2, GrowingKeeps

LEMMA UpsertKeeps ==
  ASSUME Rows, NEW r \in Work, NEW seen \in Work, NEW d,
         d.first \in 0..MaxWorks, d.against \in SUBSET Names,
         Upsert(d, r, seen), UNCHANGED <<file, cites, became>>
  PROVE  Keeps
<1>1. TypeOK
  BY DEF Rows
<1>2. CASE Mint(r)
  BY <1>2, MintKeeps
<1>3. CASE /\ d.first \in DOMAIN works
           /\ Rewritten(d.first, Backfill(works[d.first], seen, r), Pairs(StrongIds(r)))
  <2> DEFINE new == Backfill(works[d.first], seen, r)
             ids == Pairs(StrongIds(r))
  <2>1. new \in Work /\ ids \in SUBSET Ids
    BY <1>1, <1>3, BackfillShape DEF TypeOK, Pairs
  <2> HIDE DEF new, ids
  <2>2. Rewritten(d.first, new, ids)
    BY <1>3 DEF new, ids
  <2> QED
    BY <1>3, <2>1, <2>2, RewrittenKeeps
<1> QED
  BY <1>1, <1>2, <1>3, UpsertShape

\* The two jobs that upsert: what they have read is a record and a decision.
LEMMA StoreShape ==
  ASSUME TypeOK, NEW c \in Clients, Store(c)
  PROVE  /\ look[c].job = "upsert" /\ look[c].record \in Work /\ look[c].seen \in Work
         /\ look[c].first \in 0..MaxWorks /\ look[c].against \in SUBSET Names
         /\ Upsert(look[c], look[c].record, look[c].seen) /\ Done(c) /\ UNCHANGED <<file, cites, became>>
<1>1. look \in [Clients -> Job] /\ look[c].job = "upsert"
  BY DEF TypeOK, Store
<1> QED
  BY <1>1, JobShape DEF Store, Done

Fetched(c, title) == Titled(look[c].seen.ids["openalex"], title)
FoldSees(c, title) ==
  IF Decision(Fetched(c, title)).first = look[c].work
  THEN look[c].seen ELSE Decision(Fetched(c, title)).seen

LEMMA TitlesFoldShape ==
  ASSUME TypeOK, NEW c \in Clients, NEW title \in Titles, TitlesFold(c, title),
         NEW d, d = Decision(Fetched(c, title))
  PROVE  /\ look[c].job = "titles" /\ look[c].work \in Names /\ look[c].seen \in Work
         /\ Fetched(c, title) \in Work /\ FoldSees(c, title) \in Work
         /\ d.first \in 0..MaxWorks /\ d.against \in SUBSET Names /\ d.seen \in Work
         /\ Upsert(d, Fetched(c, title), FoldSees(c, title)) /\ Done(c)
         /\ UNCHANGED <<member, file, cites, became>>
<1>1. look \in [Clients -> Job] /\ look[c].job = "titles"
  BY DEF TypeOK, TitlesFold
<1>2. look[c].work \in Names /\ look[c].seen \in Work
  BY <1>1, JobShape
<1>3. look[c].seen.ids["openalex"] \in Value["openalex"] \cup {NoId}
  BY <1>2, ScalarsShape DEF Work, Types
<1>4. Fetched(c, title) \in Work
  BY <1>3, TitledShape DEF Fetched
<1>5. d.first \in 0..MaxWorks /\ d.against \in SUBSET Names /\ d.seen \in Work
  BY <1>4, DecisionShape
<1>6. FoldSees(c, title) \in Work
  BY <1>2, <1>5 DEF FoldSees
<1>7. /\ Upsert(d, Fetched(c, title), FoldSees(c, title)) /\ Done(c)
      /\ UNCHANGED <<member, file, cites, became>>
  BY DEF TitlesFold, Fetched, FoldSees, Done
<1> QED
  BY <1>1, <1>2, <1>4, <1>5, <1>6, <1>7

LEMMA MergedKeeps ==
  ASSUME Rows, NEW i, NEW s \in Names, NEW v \in Names, Merged(i, s, v) PROVE Keeps
<1>1. /\ TypeOK /\ s \in DOMAIN works /\ v \in DOMAIN works /\ s # v /\ MergeWorks(s, v)
      /\ DOMAIN works \subseteq Names
  BY WorksAreNames DEF Rows, Merged
<1>2. /\ DOMAIN works' = DOMAIN works \ {v} /\ DOMAIN owner' = DOMAIN owner
      /\ \A k \in DOMAIN owner : owner'[k] = IF owner[k] = v THEN s ELSE owner[k]
      /\ \A w \in Names : became'[w] = IF became[w] = v THEN s ELSE became[w]
  BY <1>1, MergeShape
<1>3. \A w \in DOMAIN works : became'[w] = IF w = v THEN s ELSE w
  BY <1>1, <1>2 DEF Rows, NamesOK
<1>4. \A k \in DOMAIN owner : k \in DOMAIN owner' /\ owner'[k] = became'[owner[k]]
  BY <1>1, <1>2, <1>3 DEF TypeOK
<1>5. ASSUME NEW e \in cites, became'[e[1]] # became'[e[2]]
      PROVE  <<became'[e[1]], became'[e[2]]>> \in cites'
  <2> DEFINE Now(w) == IF w = v THEN s ELSE w
  <2>1. cites' = {f \in {<<Now(f[1]), Now(f[2])>> : f \in cites} : f[1] # f[2]}
    BY <1>1 DEF MergeWorks
  <2>2. became'[e[1]] = Now(e[1]) /\ became'[e[2]] = Now(e[2])
    BY <1>1, <1>3 DEF TypeOK
  <2> HIDE DEF Now
  <2> QED
    BY <1>5, <2>1, <2>2
<1>6. ASSUME NEW w \in file PROVE became'[w] \in file'
  BY <1>1, <1>3 DEF TypeOK, MergeWorks
<1>7. ASSUME NEW w \in DOMAIN works, member[w] = "included", w \notin DOMAIN works'
      PROVE  member'[became'[w]] \in {"included", "excluded"}
  <2>1. w = v /\ became'[w] = s
    BY <1>2, <1>3, <1>7
  <2>2. member \in [Names -> {"none", "metadata_only", "included", "excluded"}]
    BY <1>1 DEF TypeOK
  <2>3. member' = [member EXCEPT
          ![v] = "none",
          ![s] = IF @ = "none" THEN member[v]
                 ELSE IF @ = "metadata_only" /\ member[v] = "included" THEN "included" ELSE @]
    BY <1>1 DEF MergeWorks
  <2>4. member'[s] = IF member[s] = "none" THEN member[v]
                     ELSE IF member[s] = "metadata_only" /\ member[v] = "included" THEN "included" ELSE member[s]
    BY <1>1, <2>2, <2>3
  <2>5. member[s] \in {"none", "metadata_only", "included", "excluded"} /\ member[v] = "included"
    BY <1>7, <2>1, <2>2
  <2> QED
    BY <2>1, <2>4, <2>5
<1> QED
  BY <1>4, <1>5, <1>6, <1>7 DEF Keeps

LEMMA KeepsStep == Rows /\ [Next]_vars => [Keeps]_vars
<1> SUFFICES ASSUME Rows, Next PROVE Keeps
  OBVIOUS
<1>0. TypeOK
  BY DEF Rows
<1>1. ASSUME NEW c \in Clients, JobStep(c) PROVE Keeps
  <2>1. ASSUME UNCHANGED <<tables, became>> PROVE Keeps
    BY <2>1, UnmovedKeeps DEF tables
  <2>2. CASE \/ \E r \in Incoming, status \in Standings : Look(c, r, status)
             \/ \E w \in Names : TitlesSelect(c, w) \/ ResolveSelect(c, w)
             \/ \E w \in Names, force \in BOOLEAN : BiblioSelect(c, w, force)
             \/ RollBack(c) \/ TitlesMiss(c) \/ ResolveMiss(c) \/ BiblioGone(c)
    BY <2>1, <2>2, Zenon DEF Look, TitlesSelect, ResolveSelect, BiblioSelect,
                             RollBack, TitlesMiss, ResolveMiss, BiblioGone, Done
  <2>3. CASE Store(c)
    BY <1>0, <2>3, StoreShape, UpsertKeeps
  <2>4. CASE \E title \in Titles : TitlesFold(c, title)
    <3>1. PICK title \in Titles : TitlesFold(c, title)
      BY <2>4
    <3> DEFINE d == Decision(Fetched(c, title))
    <3>2. /\ Fetched(c, title) \in Work /\ FoldSees(c, title) \in Work
          /\ d.first \in 0..MaxWorks /\ d.against \in SUBSET Names
          /\ Upsert(d, Fetched(c, title), FoldSees(c, title)) /\ UNCHANGED <<file, cites, became>>
      BY <1>0, <3>1, TitlesFoldShape
    <3> HIDE DEF d
    <3> QED
      BY <3>2, UpsertKeeps
  <2>5. CASE \E cand \in Candidates : ResolveAttach(c, cand)
    BY <1>0, <2>5, ResolvedShape, RewrittenKeeps
  <2>6. CASE \E meta \in Metadata : BiblioApply(c, meta)
    BY <1>0, <2>6, ToldShape, RewrittenKeeps
  <2>7. CASE ResolveAsk(c)
    BY <2>7, UnmovedKeeps DEF ResolveAsk, Done
  <2> QED
    BY <1>1, <2>2, <2>3, <2>4, <2>5, <2>6, <2>7 DEF JobStep
<1>2. ASSUME NEW v \in Names, NEW w \in Names, Acquire(w) \/ Cite(v, w) PROVE Keeps
  BY <1>2, UnmovedKeeps DEF Acquire, Cite
<1>3. CASE ReviewStep
  <2>1. PICK i \in 1..MaxItems :
          \/ \E survivor \in Names : ResolveMerge(i, survivor)
          \/ ResolveExclude(i) \/ ResolveReject(i)
    BY <1>3 DEF ReviewStep
  <2>2. CASE ResolveExclude(i) \/ ResolveReject(i)
    BY <2>2, UnmovedKeeps DEF ResolveExclude, ResolveReject
  <2>3. ASSUME NEW survivor \in Names, ResolveMerge(i, survivor) PROVE Keeps
    <3>1. CASE UNCHANGED <<works, owner, file, cites, became>>
      BY <3>1, UnmovedKeeps
    <3>2. CASE \E v \in Names : Merged(i, survivor, v)
      BY <3>2, MergedKeeps
    <3> QED
      BY <2>3, <3>1, <3>2, MergeCases
  <2> QED
    BY <2>1, <2>2, <2>3
<1> QED
  BY <1>1, <1>2, <1>3 DEF Next

\* A merge moves every identifier, citation, source file and place in the corpus
\* of its victim to the survivor, and no other step moves an identifier
\* (merge_works).
THEOREM MergesKeepRows == Spec => MergeKeepsRows
<1>1. Init => Rows
  BY RowsInit
<1>2. Rows /\ [Next]_vars => Rows'
  BY RowsStep
<1>3. Rows /\ [Next]_vars => [Keeps]_vars
  BY KeepsStep
<1>4. Spec => [][Keeps]_vars
  BY <1>1, <1>2, <1>3, PTL DEF Spec
<1> QED
  BY <1>4 DEF Keeps, MergeKeepsRows

-----------------------------------------------------------------------------
(* Bonds: who owns the ids the works carry                                   *)
(*                                                                           *)
(* Two hypotheses.  With several processes between the reads and the writes  *)
(* of each other, two may both find an id free (the second insert then fails *)
(* on the UNIQUE index, which this model leaves out).  And a paper that      *)
(* names itself by arXiv's DOI puts it in a column: a merge folds it into    *)
(* the survivor as an arXiv id that nobody owns or somebody else does.       *)

OneAtATime == Overlap => \A c, d \in Clients : c = d
NoAliasDois == \A r \in Metadata : r.ids["doi"] \notin {"10.48550"} \X Arxivs

Unmerged(w) == \A v \in Names : became[v] = w => v = w

ColumnsOwned == \A w \in DOMAIN works : Pairs(works[w].ids) \subseteq DOMAIN owner
OwnedMirrored ==
  \A i \in DOMAIN owner : Unmerged(owner[i]) => works[owner[i]].ids[i[1]] = i[2]
PlainColumns == \A w \in DOMAIN works : works[w].ids["doi"] \notin {"10.48550"} \X Arxivs

Bonds == ColumnsOwned /\ OwnedMirrored /\ PlainColumns /\ SharedIdIsReviewed

\* Items are never lost, only settled and retargeted.
ItemsStay ==
  \A i \in DOMAIN queue : i \in DOMAIN queue' /\ queue'[i].target = queue[i].target
                          /\ queue'[i].against = queue[i].against

LEMMA LinkedStays ==
  ASSUME UNCHANGED became, ItemsStay, NEW a, NEW b, Linked(a, b) PROVE Linked(a, b)'
<1>1. PICK i \in DOMAIN queue : \E x \in queue[i].against : {a, b} = {became[queue[i].target], became[x]}
  BY DEF Linked
<1>2. PICK x \in queue[i].against : {a, b} = {became[queue[i].target], became[x]}
  BY <1>1
<1>3. i \in DOMAIN queue' /\ x \in queue'[i].against /\ {a, b} = {became'[queue'[i].target], became'[x]}
  BY <1>1, <1>2 DEF ItemsStay
<1> QED
  BY <1>3 DEF Linked

LEMMA LinkedTurns == \A a, b : Linked(a, b) <=> Linked(b, a)
BY DEF Linked

\* What a work carries somebody owns.
LEMMA CarriedIsOwned ==
  ASSUME ColumnsOwned, NEW w \in DOMAIN works PROVE Carries(w) \subseteq DOMAIN owner
BY DEF ColumnsOwned, Carries

LEMMA CarriesItsOwn == \A i \in DOMAIN owner : i \in Carries(owner[i])
BY DEF Carries

\* A group no item leads out of shares no id with the rest.
LEMMA GroupsApart ==
  ASSUME SharedIdIsReviewed, NEW group \in SUBSET DOMAIN works,
         \A a \in group, b \in DOMAIN works \ group : ~Linked(a, b),
         NEW a \in group, NEW b \in DOMAIN works \ group
  PROVE  Carries(a) \cap Carries(b) = {}
BY DEF SharedIdIsReviewed

LEMMA StillBonds ==
  ASSUME Bonds, UNCHANGED <<works, owner, became>>, ItemsStay PROVE Bonds'
<1>1. ColumnsOwned' /\ OwnedMirrored' /\ PlainColumns'
  BY DEF Bonds, ColumnsOwned, OwnedMirrored, PlainColumns, Unmerged
<1>2. SharedIdIsReviewed'
  <2>1. SUFFICES ASSUME NEW group \in SUBSET DOMAIN works',
                        \A a \in group, b \in DOMAIN works' \ group : ~Linked(a, b)',
                        NEW a \in group, NEW b \in DOMAIN works' \ group
                 PROVE  Carries(a)' \cap Carries(b)' = {}
    BY DEF SharedIdIsReviewed
  <2>2. \A x \in group, y \in DOMAIN works \ group : ~Linked(x, y)
    BY <2>1, LinkedStays
  <2>3. Carries(a)' = Carries(a) /\ Carries(b)' = Carries(b)
    BY DEF Carries
  <2> QED
    BY <2>2, <2>3, GroupsApart DEF Bonds
<1> QED
  BY <1>1, <1>2 DEF Bonds

\* No record's strong ids name arXiv's DOI.
LEMMA PlainStrong ==
  ASSUME NEW r \in Work PROVE StrongIds(r)["doi"] \notin {"10.48550"} \X Arxivs
<1>1. NoId \notin {"10.48550"} \X Arxivs
  BY ValueIsSome DEF Types, Value
<1>2. r.ids \in Scalars
  BY DEF Work
<1> QED
  BY <1>1, <1>2, ScalarsShape DEF StrongIds, Types

\* A new work: the works that own its ids are brought to a reviewer with it.
LEMMA MintBonds ==
  ASSUME Rows, Bonds, NEW r \in Work, Mint(r), UNCHANGED became, ItemsStay,
         NEW m, m = minted + 1, \A u \in Owners(StrongIds(r)) : Linked(m, u)'
  PROVE  Bonds'
<1> DEFINE ids == StrongIds(r)
<1>1. TypeOK /\ ids \in Scalars
  BY StrongTyped DEF Rows
<1>2. /\ m \notin DOMAIN works /\ DOMAIN works' = DOMAIN works \cup {m} /\ works'[m].ids = ids
      /\ \A w \in DOMAIN works : works'[w] = works[w]
      /\ DOMAIN owner' = DOMAIN owner \cup Pairs(ids)
      /\ \A i \in DOMAIN owner : owner'[i] = owner[i]
      /\ \A i \in DOMAIN owner' : i \notin DOMAIN owner => owner'[i] = m
  <2>1. /\ m \notin DOMAIN works /\ DOMAIN works' = DOMAIN works \cup {m}
        /\ works'[m] = [ids |-> StrongIds(r), title |-> r.title]
        /\ \A w \in DOMAIN works : works'[w] = works[w]
        /\ DOMAIN owner' = DOMAIN owner \cup Pairs(StrongIds(r))
        /\ \A i \in DOMAIN owner : owner'[i] = owner[i]
        /\ \A i \in DOMAIN owner' : i \notin DOMAIN owner => owner'[i] = m
    BY <1>1, MintShape, Zenon
  <2> QED
    BY <2>1
<1>3. \A i \in Pairs(ids) : i[2] = ids[i[1]]
  BY <1>1, PairsOf
<1>4. \A i \in DOMAIN owner : owner[i] \in DOMAIN works
  BY <1>1 DEF TypeOK
<1>5. ids["doi"] \notin {"10.48550"} \X Arxivs
  BY PlainStrong
<1> HIDE DEF ids
<1>6. ColumnsOwned'
  BY <1>2 DEF Bonds, ColumnsOwned
<1>7. OwnedMirrored'
  BY <1>2, <1>3, <1>4 DEF Bonds, OwnedMirrored, Unmerged
<1>8. PlainColumns'
  BY <1>2, <1>5 DEF Bonds, PlainColumns
<1>9. \A w \in DOMAIN works : Carries(w)' = Carries(w)
  BY <1>2, <1>4 DEF Carries
<1>10. Carries(m)' = Pairs(ids)
  BY <1>2, <1>4 DEF Carries
<1>11. SharedIdIsReviewed'
  <2>1. SUFFICES ASSUME NEW group \in SUBSET DOMAIN works',
                        \A a \in group, b \in DOMAIN works' \ group : ~Linked(a, b)',
                        NEW a \in group, NEW b \in DOMAIN works' \ group,
                        NEW i \in Carries(a)' \cap Carries(b)'
                 PROVE  FALSE
    BY DEF SharedIdIsReviewed
  <2> DEFINE old == group \ {m}
  <2>2. old \in SUBSET DOMAIN works /\ \A x \in old, y \in DOMAIN works \ old : ~Linked(x, y)
    BY <1>2, <2>1, LinkedStays
  <2>3. \A x \in old, y \in DOMAIN works \ old : Carries(x) \cap Carries(y) = {}
    <3> HIDE DEF old
    <3> QED
      BY <2>2, GroupsApart DEF Bonds
  <2>4. ASSUME NEW x \in DOMAIN works, i \in Pairs(ids), i \in Carries(x)
        PROVE  \E u \in DOMAIN works : i \in Carries(u) /\ Linked(m, u)' /\ Linked(u, m)'
    <3>1. i \in DOMAIN owner
      BY <2>4, CarriedIsOwned DEF Bonds
    <3>2. PICK u \in DOMAIN works : u \in Owners(ids) /\ i \in Carries(u)
      BY <1>4, <2>4, <3>1, CarriesItsOwn DEF Owners
    <3>3. Linked(m, u)'
      BY <3>2 DEF ids
    <3>4. Linked(u, m)'
      BY <3>3 DEF Linked
    <3> QED
      BY <3>2, <3>3, <3>4
  <2>5. CASE a # m /\ b # m
    BY <1>2, <1>9, <2>1, <2>3, <2>5
  <2>6. CASE a = m
    <3>1. b \in DOMAIN works \ old /\ i \in Pairs(ids) /\ i \in Carries(b)
      BY <1>2, <1>9, <1>10, <2>1, <2>6
    <3>2. PICK u \in DOMAIN works : i \in Carries(u) /\ Linked(m, u)'
      BY <2>4, <3>1
    <3>3. u \in old
      BY <1>2, <2>1, <2>6, <3>2
    <3> QED
      BY <2>3, <3>1, <3>2, <3>3
  <2>7. CASE b = m
    <3>1. a \in old /\ i \in Pairs(ids) /\ i \in Carries(a)
      BY <1>2, <1>9, <1>10, <2>1, <2>7
    <3>2. PICK u \in DOMAIN works : i \in Carries(u) /\ Linked(u, m)'
      BY <1>2, <2>1, <2>4, <3>1
    <3>3. u \in DOMAIN works \ old
      BY <1>2, <2>1, <2>7, <3>2
    <3> QED
      BY <2>3, <3>1, <3>2, <3>3
  <2> QED
    BY <2>5, <2>6, <2>7
<1> QED
  BY <1>6, <1>7, <1>8, <1>11 DEF Bonds

\* A work takes ids nobody owns, and shows what it owns unless one was merged
\* into it.
LEMMA RewrittenBonds ==
  ASSUME Rows, Bonds, NEW w \in DOMAIN works, NEW new \in Work, NEW ids \in SUBSET Ids,
         Rewritten(w, new, ids), ItemsStay,
         \A i \in Pairs(new.ids) : i \in Carries(w) \/ (i \in ids /\ i \notin DOMAIN owner),
         Unmerged(w) => \A i \in DOMAIN owner' : owner'[i] = w => new.ids[i[1]] = i[2],
         new.ids["doi"] \notin {"10.48550"} \X Arxivs
  PROVE  Bonds'
<1>1. TypeOK /\ UNCHANGED became
  BY DEF Rows, Rewritten
<1>2. /\ DOMAIN works' = DOMAIN works /\ works'[w] = new
      /\ \A x \in DOMAIN works : x # w => works'[x] = works[x]
      /\ DOMAIN owner' = DOMAIN owner \cup ids
      /\ \A i \in DOMAIN owner : owner'[i] = owner[i]
      /\ \A i \in DOMAIN owner' : i \notin DOMAIN owner => owner'[i] = w
  BY <1>1, RewrittenShape
<1>3. \A i \in DOMAIN owner : owner[i] \in DOMAIN works
  BY <1>1 DEF TypeOK
<1>4. \A x \in DOMAIN works : Carries(x) \subseteq DOMAIN owner
  BY CarriedIsOwned DEF Bonds
<1>5. ColumnsOwned'
  <2>1. \A x \in DOMAIN works : Pairs(works[x].ids) \subseteq DOMAIN owner
    BY DEF Bonds, ColumnsOwned
  <2>2. Pairs(new.ids) \subseteq DOMAIN owner'
    BY <1>2, <1>4
  <2>3. ASSUME NEW x \in DOMAIN works' PROVE Pairs(works'[x].ids) \subseteq DOMAIN owner'
    BY <1>2, <2>1, <2>2
  <2> QED
    BY <2>3 DEF ColumnsOwned, Pairs
<1>6. OwnedMirrored'
  <2>1. ASSUME NEW i \in DOMAIN owner', Unmerged(owner[i])', NEW u, u = owner'[i], \A x \in Names : became[x] = u => x = u
        PROVE  works'[u].ids[i[1]] = i[2]
    <3>1. CASE u = w
      BY <1>2, <2>1, <3>1 DEF Unmerged
    <3>2. CASE u # w
      BY <1>2, <1>3, <2>1, <3>2 DEF Bonds, OwnedMirrored, Unmerged
    <3> QED
      BY <3>1, <3>2
  <2> QED
    BY <1>1, <2>1 DEF OwnedMirrored, Unmerged
<1>7. PlainColumns'
  BY <1>2 DEF Bonds, PlainColumns
<1>8. \A x \in DOMAIN works : x # w => Carries(x)' = Carries(x)
  BY <1>2, <1>3 DEF Carries
<1>9. \A i \in Carries(w)' : i \in Carries(w) \/ i \notin DOMAIN owner
  BY <1>2 DEF Carries
<1>10. SharedIdIsReviewed'
  <2>1. SUFFICES ASSUME NEW group \in SUBSET DOMAIN works',
                        \A a \in group, b \in DOMAIN works' \ group : ~Linked(a, b)',
                        NEW a \in group, NEW b \in DOMAIN works' \ group,
                        NEW i \in Carries(a)' \cap Carries(b)'
                 PROVE  FALSE
    BY DEF SharedIdIsReviewed
  <2>2. \A x \in group, y \in DOMAIN works \ group : ~Linked(x, y)
    BY <1>1, <1>2, <2>1, LinkedStays
  <2>3. Carries(a) \cap Carries(b) = {}
    BY <1>2, <2>1, <2>2, GroupsApart DEF Bonds
  <2>4. i \in Carries(a) /\ i \in Carries(b)
    <3>1. CASE a = w
      BY <1>2, <1>4, <1>8, <1>9, <2>1, <3>1
    <3>2. CASE b = w
      BY <1>2, <1>4, <1>8, <1>9, <2>1, <3>2
    <3>3. CASE a # w /\ b # w
      BY <1>2, <1>8, <2>1, <3>3
    <3> QED
      BY <3>1, <3>2, <3>3
  <2> QED
    BY <2>3, <2>4
<1> QED
  BY <1>5, <1>6, <1>7, <1>10 DEF Bonds

Folded(s, v) == Backfill(works[s], works[s], works[v])

\* A row that is folded into another: without arXiv DOIs in columns, the
\* survivor carries no more than the two did.
LEMMA FoldedCarries ==
  ASSUME TypeOK, PlainColumns, NEW s \in DOMAIN works, NEW v \in DOMAIN works, NEW new, new = Folded(s, v)
  PROVE  /\ new \in Work /\ Pairs(new.ids) \subseteq Pairs(works[s].ids) \cup Pairs(works[v].ids)
         /\ new.ids["doi"] \notin {"10.48550"} \X Arxivs
         /\ \A t \in Types : works[s].ids[t] # NoId => new.ids[t] = works[s].ids[t]
         /\ works[s].title # NoTitle => new.title = works[s].title
<1>1. works[s] \in Work /\ works[v] \in Work
  BY DEF TypeOK
<1>2. StrongIds(works[v]) = works[v].ids
  BY DEF StrongIds, PlainColumns
<1>3. /\ new \in Work
      /\ \A t \in Types : new.ids[t] = IF works[s].ids[t] = NoId /\ works[v].ids[t] # NoId
                                       THEN works[v].ids[t] ELSE works[s].ids[t]
      /\ new.title = IF works[s].title = NoTitle /\ works[v].title # NoTitle
                     THEN works[v].title ELSE works[s].title
  <2> DEFINE b == Backfill(works[s], works[s], works[v])
  <2>1. /\ b \in Work
        /\ \A t \in Types : b.ids[t] = IF works[s].ids[t] = NoId /\ StrongIds(works[v])[t] # NoId
                                       THEN StrongIds(works[v])[t] ELSE works[s].ids[t]
        /\ b.title = IF works[s].title = NoTitle /\ works[v].title # NoTitle
                     THEN works[v].title ELSE works[s].title
    BY <1>1, BackfillShape
  <2> HIDE DEF b
  <2>2. new = b
    BY DEF b, Folded
  <2> QED
    BY <1>2, <2>1, <2>2
<1>4. Pairs(new.ids) \subseteq Pairs(works[s].ids) \cup Pairs(works[v].ids)
  <2>1. ASSUME NEW i \in Pairs(new.ids) PROVE i \in Pairs(works[s].ids) \cup Pairs(works[v].ids)
    <3>1. i \in Ids /\ i[1] \in Types /\ i[2] = new.ids[i[1]]
      BY <1>3, PairsOf DEF Work
    <3> QED
      BY <1>3, <3>1 DEF Pairs
  <2> QED
    BY <2>1
<1>5. new.ids["doi"] \in {works[s].ids["doi"], works[v].ids["doi"]}
  BY <1>3 DEF Types
<1> QED
  BY <1>3, <1>4, <1>5 DEF PlainColumns

\* A merge: what is closed after it came from what was closed before it.
LEMMA MergedBonds ==
  ASSUME Rows, Bonds, NEW i, NEW s \in Names, NEW v \in Names, Merged(i, s, v) PROVE Bonds'
<1>1. /\ TypeOK /\ s \in DOMAIN works /\ v \in DOMAIN works /\ s # v /\ MergeWorks(s, v)
      /\ DOMAIN works \subseteq Names
  BY WorksAreNames DEF Rows, Merged
<1>2. PICK new \in Work :
        /\ new = Backfill(works[s], works[s], works[v])
        /\ Pairs(new.ids) \subseteq Pairs(works[s].ids) \cup Pairs(works[v].ids)
        /\ new.ids["doi"] \notin {"10.48550"} \X Arxivs
  <2>1. PlainColumns
    BY DEF Bonds
  <2>2. PICK b : b = Folded(s, v)
    OBVIOUS
  <2>3. /\ b \in Work /\ b.ids["doi"] \notin {"10.48550"} \X Arxivs
        /\ Pairs(b.ids) \subseteq Pairs(works[s].ids) \cup Pairs(works[v].ids)
    <3>1. TypeOK /\ s \in DOMAIN works /\ v \in DOMAIN works
      BY <1>1
    <3> QED
      BY <2>1, <2>2, <3>1, FoldedCarries
  <2> QED
    BY <2>2, <2>3 DEF Folded
<1>3. /\ DOMAIN works' = DOMAIN works \ {v} /\ works'[s] = new
      /\ \A w \in DOMAIN works' : w # s => works'[w] = works[w]
      /\ DOMAIN owner' = DOMAIN owner
      /\ \A k \in DOMAIN owner : owner'[k] = IF owner[k] = v THEN s ELSE owner[k]
      /\ \A w \in Names : became'[w] = IF became[w] = v THEN s ELSE became[w]
  <2>1. /\ DOMAIN works' = DOMAIN works \ {v}
        /\ works'[s] = Backfill(works[s], works[s], works[v])
        /\ \A w \in DOMAIN works' : works'[w] \in Work /\ (w # s => works'[w] = works[w])
        /\ DOMAIN owner' = DOMAIN owner
        /\ \A k \in DOMAIN owner : owner'[k] = IF owner[k] = v THEN s ELSE owner[k]
        /\ \A w \in Names : became'[w] = IF became[w] = v THEN s ELSE became[w]
    BY <1>1, MergeShape
  <2> QED
    BY <1>2, <2>1
<1>4. \A k \in DOMAIN owner : owner[k] \in DOMAIN works
  BY <1>1 DEF TypeOK
<1>5. became[s] = s /\ became[v] = v /\ became'[s] = s /\ became'[v] = s
  BY <1>1, <1>3 DEF Rows, NamesOK
<1>6. ColumnsOwned'
  <2>1. \A x \in DOMAIN works : Pairs(works[x].ids) \subseteq DOMAIN owner
    BY DEF Bonds, ColumnsOwned
  <2>2. ASSUME NEW x \in DOMAIN works' PROVE Pairs(works'[x].ids) \subseteq DOMAIN owner'
    BY <1>1, <1>2, <1>3, <2>1
  <2> QED
    BY <2>2 DEF ColumnsOwned, Pairs
<1>7. OwnedMirrored'
  <2>1. ASSUME NEW k \in DOMAIN owner', NEW u, u = owner'[k], \A x \in Names : became'[x] = u => x = u
        PROVE  works'[u].ids[k[1]] = k[2]
    <3>1. u # s /\ u # v
      BY <1>1, <1>3, <1>5, <2>1
    <3>2. owner[k] = u /\ u \in DOMAIN works' /\ works'[u] = works[u]
      BY <1>3, <1>4, <2>1, <3>1
    <3>3. Unmerged(u)
      BY <1>3, <2>1, <3>1 DEF Unmerged
    <3> QED
      BY <1>3, <3>2, <3>3 DEF Bonds, OwnedMirrored
  <2> QED
    BY <2>1 DEF OwnedMirrored, Unmerged
<1>8. PlainColumns'
  BY <1>2, <1>3 DEF Bonds, PlainColumns
<1> DEFINE Now(w) == IF w = v THEN s ELSE w
<1>9. ASSUME NEW a \in DOMAIN works, NEW b \in DOMAIN works, Linked(a, b), NEW p, NEW q, p = Now(a), q = Now(b)
      PROVE  Linked(p, q)'
  <2>2. PICK k \in DOMAIN queue : \E x \in queue[k].against : {a, b} = {became[queue[k].target], became[x]}
    BY <1>9 DEF Linked
  <2>3. PICK x \in queue[k].against : {a, b} = {became[queue[k].target], became[x]}
    BY <2>2
  <2>4. k \in DOMAIN queue' /\ queue'[k].against = queue[k].against
        /\ queue'[k].target = IF queue[k].action = "open" /\ queue[k].target = v THEN s ELSE queue[k].target
    <3>1. TypeOK
      BY <1>1
    <3>2. Followed(i, s, v)
      BY <3>1, RetargetedShape
    <3> QED
      BY <3>2 DEF Followed
  <2>5. queue[k].target \in Names /\ x \in Names
    <3>1. queue[k] \in Item
      BY <1>1 DEF TypeOK
    <3> QED
      BY <2>3, <3>1 DEF Item
  <2>6. became'[x] = Now(became[x]) /\ became'[queue'[k].target] = Now(became[queue[k].target])
    BY <1>3, <1>5, <2>4, <2>5
  <2>7. {p, q} = {became'[queue'[k].target], became'[x]}
    BY <1>9, <2>3, <2>6
  <2> QED
    BY <2>3, <2>4, <2>7 DEF Linked
<1>10. \A x \in DOMAIN works' : \A k \in Carries(x)' :
         \E w \in DOMAIN works : Now(w) = x /\ k \in Carries(w)
  <2>1. SUFFICES ASSUME NEW x \in DOMAIN works', NEW k \in Carries(x)'
                 PROVE  \E w \in DOMAIN works : Now(w) = x /\ k \in Carries(w)
    OBVIOUS
  <2>2. k \in Pairs(works'[x].ids) \/ (k \in DOMAIN owner' /\ owner'[k] = x)
    BY DEF Carries, Pairs
  <2>3. CASE k \in DOMAIN owner' /\ owner'[k] = x
    <3>1. owner[k] \in DOMAIN works /\ Now(owner[k]) = x /\ k \in Carries(owner[k])
      BY <1>3, <1>4, <2>3, CarriesItsOwn
    <3> QED
      BY <3>1
  <2>4. CASE k \in Pairs(works'[x].ids) /\ x # s
    BY <1>3, <2>4 DEF Carries
  <2>5. CASE k \in Pairs(works'[x].ids) /\ x = s
    BY <1>1, <1>2, <1>3, <2>5 DEF Carries
  <2> QED
    BY <2>2, <2>3, <2>4, <2>5
<1>11. SharedIdIsReviewed'
  <2>1. SUFFICES ASSUME NEW group \in SUBSET DOMAIN works',
                        \A a \in group, b \in DOMAIN works' \ group : ~Linked(a, b)',
                        NEW a \in group, NEW b \in DOMAIN works' \ group,
                        NEW k \in Carries(a)' \cap Carries(b)'
                 PROVE  FALSE
    BY DEF SharedIdIsReviewed
  <2> DEFINE before == {w \in DOMAIN works : Now(w) \in group}
  <2>2. \A w \in DOMAIN works : Now(w) \in DOMAIN works'
    BY <1>1, <1>3
  <2>3. before \in SUBSET DOMAIN works /\ \A x \in before, y \in DOMAIN works \ before : ~Linked(x, y)
    <3>1. ASSUME NEW x \in before, NEW y \in DOMAIN works \ before, Linked(x, y) PROVE FALSE
      <4>1. PICK p, q : p = Now(x) /\ q = Now(y)
        OBVIOUS
      <4>2. p \in group /\ q \in DOMAIN works' \ group /\ ~Linked(p, q)'
        BY <2>1, <2>2, <3>1, <4>1
      <4>3. Linked(p, q)'
        BY <1>9, <3>1, <4>1
      <4> QED
        BY <4>2, <4>3
    <3> QED
      BY <3>1
  <2>4. PICK x \in DOMAIN works : Now(x) = a /\ k \in Carries(x)
    BY <1>10, <2>1
  <2>5. PICK y \in DOMAIN works : Now(y) = b /\ k \in Carries(y)
    BY <1>10, <2>1
  <2>6. x \in before /\ y \in DOMAIN works \ before
    BY <2>1, <2>4, <2>5
  <2>7. Carries(x) \cap Carries(y) = {}
    <3> HIDE DEF before
    <3> QED
      BY <2>3, <2>6, GroupsApart DEF Bonds
  <2> QED
    BY <2>4, <2>5, <2>7
<1> QED
  BY <1>6, <1>7, <1>8, <1>11 DEF Bonds

\* A record becomes a work, or folds into one: what the job knows of the works
\* that own its ids is that they are those its items name, and, of a work nobody
\* merged into, the row it saw.
LEMMA UpsertBonds ==
  ASSUME Rows, Bonds, NEW r \in Work, NEW seen \in Work, NEW d,
         d.first \in 0..MaxWorks, d.against \in SUBSET Names,
         Upsert(d, r, seen), UNCHANGED <<file, cites, became>>,
         Owners(StrongIds(r)) \subseteq {became[x] : x \in d.against},
         d.plan = "create" => d.against = {},
         d.plan = "merge" =>
           /\ d.against = {d.first}
           /\ d.first \in DOMAIN works /\ Unmerged(d.first) =>
                works[d.first] = seen /\ ~Contradicts(d.first, StrongIds(r))
  PROVE  Bonds'
<1> DEFINE ids == StrongIds(r)
<1>1. TypeOK /\ ids \in Scalars /\ DOMAIN works \subseteq Names
  BY StrongTyped, WorksAreNames DEF Rows
<1>2. ASSUME d.plan \in {"create", "demote"}, Mint(r), NEW first \in 0..MaxWorks, NEW against \in SUBSET Names,
             Asked(Asks(minted + 1, first, against)),
             d.plan = "demote" => against = d.against /\ Enqueue(Asks(minted + 1, first, against))
      PROVE  Bonds'
  <2>1. PICK m : m = minted + 1
    OBVIOUS
  <2>2. m \in Names /\ m > minted /\ became[m] = m
    <3>1. m \in Names /\ minted \in Nat
      BY <1>1, <1>2, <2>1, MintShape
    <3> QED
      BY <2>1, <3>1 DEF Rows, NamesOK
  <2> DEFINE items == Asks(m, first, against)
  <2>3. /\ items \in Seq(Item) /\ DOMAIN items = {1} /\ items[1].target = m /\ items[1].against = against
    <3>1. /\ items \in Seq(Item) /\ DOMAIN items = {1}
          /\ items[1] = [target |-> m, first |-> first, against |-> against, action |-> "open"]
      BY <2>2, AsksOne
    <3> HIDE DEF items
    <3> QED
      BY <3>1
  <2>4. Asked(items) /\ (d.plan = "demote" => against = d.against /\ Enqueue(items))
    BY <1>2, <2>1
  <2> HIDE DEF items
  <2>5. ItemsStay
    BY <1>1, <2>3, <2>4, AskedShape DEF ItemsStay
  <2>6. ASSUME NEW u \in Owners(ids) PROVE Linked(m, u)'
    <3>1. PICK x \in d.against : u = became[x]
      BY <2>6
    <3>2. against = d.against /\ Enqueue(items)
      BY <1>2, <2>4, <3>1
    <3>3. queue \in Seq(Item)
      BY <1>1 DEF TypeOK
    <3>4. \A k \in DOMAIN items : \E q \in DOMAIN queue' : queue'[q] = items[k]
      BY <2>3, <3>2, <3>3, Enqueued
    <3>5. PICK q \in DOMAIN queue' : queue'[q] = items[1]
      BY <2>3, <3>4
    <3>6. {m, u} = {became'[queue'[q].target], became'[x]} /\ x \in queue'[q].against
      BY <2>2, <2>3, <3>1, <3>2, <3>5
    <3> QED
      BY <3>6 DEF Linked
  <2>7. UNCHANGED became
    OBVIOUS
  <2> QED
    BY <1>2, <2>1, <2>5, <2>6, <2>7, MintBonds
<1>3. ASSUME d.plan = "merge", d.first \in DOMAIN works, UNCHANGED queue,
             Rewritten(d.first, Backfill(works[d.first], seen, r), Pairs(StrongIds(r)))
      PROVE  Bonds'
  <2>1. PICK w \in DOMAIN works : w = d.first
    BY <1>3
  <2>2. PICK new : new = Backfill(works[w], seen, r)
    OBVIOUS
  <2>3. works[w] \in Work /\ works[w].ids \in Scalars
    BY <1>1 DEF TypeOK, Work
  <2>4. /\ new \in Work
        /\ \A t \in Types : new.ids[t] = IF seen.ids[t] = NoId /\ ids[t] # NoId THEN ids[t] ELSE works[w].ids[t]
    <3>1. /\ Backfill(works[w], seen, r) \in Work
          /\ \A t \in Types : Backfill(works[w], seen, r).ids[t] =
               IF seen.ids[t] = NoId /\ StrongIds(r)[t] # NoId THEN StrongIds(r)[t] ELSE works[w].ids[t]
      BY <2>3, BackfillShape
    <3> QED
      BY <2>2, <3>1
  <2> HIDE DEF ids
  <2>5. Pairs(ids) \in SUBSET Ids /\ \A i \in Pairs(ids) : i[1] \in Types /\ i[2] = ids[i[1]] /\ ids[i[1]] # NoId
    BY <1>1, PairsOf DEF Pairs
  <2>6. Owners(ids) \subseteq {w}
    <3>1. became[w] = w
      BY DEF Rows, NamesOK
    <3> QED
      BY <1>3, <2>1, <3>1 DEF ids
  <2>7. \A i \in Pairs(ids) : i \in Carries(w) \/ i \notin DOMAIN owner
    BY <2>6 DEF Owners, Carries
  <2>8. ASSUME NEW i \in Pairs(new.ids)
        PROVE  i \in Carries(w) \/ (i \in Pairs(ids) /\ i \notin DOMAIN owner)
    <3>1. i \in Ids /\ i[1] \in Types /\ i[2] = new.ids[i[1]]
      BY <2>4, PairsOf DEF Work
    <3>2. i \in Pairs(ids) \/ i \in Pairs(works[w].ids)
      BY <2>4, <3>1 DEF Pairs
    <3> QED
      BY <2>7, <3>2 DEF Carries
  <2>9. ASSUME Unmerged(w), NEW i \in DOMAIN owner', owner'[i] = w PROVE new.ids[i[1]] = i[2]
    <3>1. works[w] = seen /\ ~Contradicts(w, ids)
      BY <1>3, <2>1, <2>9 DEF ids
    <3>2. Rewritten(w, new, Pairs(ids))
      BY <1>3, <2>1, <2>2 DEF ids
    <3>3. DOMAIN owner' = DOMAIN owner \cup Pairs(ids) /\ \A k \in DOMAIN owner : owner'[k] = owner[k]
      BY <1>1, <2>4, <2>5, <3>2, RewrittenShape
    <3>4. CASE i \in DOMAIN owner
      <4>1. works[w].ids[i[1]] = i[2]
        BY <2>9, <3>3, <3>4 DEF Bonds, OwnedMirrored
      <4>2. i[1] \in Types /\ i[2] # NoId
        BY <1>1, <3>4, IdShape DEF TypeOK
      <4> QED
        BY <2>4, <3>1, <4>1, <4>2
    <3>5. CASE i \in Pairs(ids)
      <4>1. i[1] \in Types /\ i[2] = ids[i[1]] /\ ids[i[1]] # NoId
        BY <2>5, <3>5
      <4>2. works[w].ids[i[1]] # NoId => works[w].ids[i[1]] = ids[i[1]]
        BY <1>1, <3>1, <4>1, OwnedShape DEF Contradicts
      <4> QED
        BY <2>4, <3>1, <4>1, <4>2
    <3> QED
      BY <3>3, <3>4, <3>5
  <2>10. new.ids["doi"] \notin {"10.48550"} \X Arxivs
    <3>1. ids["doi"] \notin {"10.48550"} \X Arxivs
      BY PlainStrong DEF ids
    <3> QED
      BY <2>4, <3>1 DEF Bonds, PlainColumns, Types
  <2>11. ItemsStay /\ Rewritten(w, new, Pairs(ids))
    BY <1>3, <2>1, <2>2 DEF ItemsStay, ids
  <2> QED
    BY <2>4, <2>5, <2>8, <2>9, <2>10, <2>11, RewrittenBonds
<1> QED
  BY <1>1, <1>2, <1>3, UpsertShape

-----------------------------------------------------------------------------
(* What a job has read is still so when it writes *)

OneActive == \A c, d \in Clients : look[c] # Idle /\ look[d] # Idle => c = d

\* Nobody merged anything into the work since the job read it: nobody ever did,
\* or nobody acts while a job is between its read and its write.
Untouched(w) == w \in DOMAIN works /\ (Unmerged(w) \/ ~Overlap)

UpsertSees(c) ==
  look[c].job = "upsert" =>
    /\ Owners(StrongIds(look[c].record)) \subseteq {became[x] : x \in look[c].against}
    /\ look[c].plan = "create" => look[c].against = {}
    /\ look[c].plan = "merge" =>
         /\ look[c].against = {look[c].first}
         /\ Untouched(look[c].first) =>
              /\ works[look[c].first] = look[c].seen
              /\ ~Contradicts(look[c].first, StrongIds(look[c].record))

WorkSees(c) ==
  /\ look[c].job \in {"titles", "resolve"} /\ Untouched(look[c].work) => works[look[c].work] = look[c].seen
  /\ look[c].job = "resolve" => look[c].seen.ids = Nothing.ids

TitlesSees(c) ==
  look[c].job = "titles" =>
    /\ look[c].seen.title = NoTitle /\ look[c].seen.ids["openalex"] # NoId
    /\ look[c].work \in DOMAIN works =>
         /\ works[look[c].work].ids["openalex"] = look[c].seen.ids["openalex"]
         /\ <<"openalex", look[c].seen.ids["openalex"]>> \in DOMAIN owner
         /\ owner[<<"openalex", look[c].seen.ids["openalex"]>>] = look[c].work

Sees(c) == UpsertSees(c) /\ WorkSees(c) /\ TitlesSees(c)
Reads == OneActive /\ \A c \in Clients : Sees(c)

LEMMA IdleSeesNext == ASSUME NEW c, look'[c] = Idle PROVE Sees(c)'
BY DEF Sees, UpsertSees, WorkSees, TitlesSees, Idle

\* The one job that was under way has ended.
LEMMA EndedReads ==
  ASSUME Rows, OneActive, NEW c \in Clients, look[c].job # "idle", Done(c) PROVE Reads'
<1>1. look \in [Clients -> Job] /\ look[c] # Idle
  BY DEF Rows, TypeOK, Idle
<1>2. \A d \in Clients : look'[d] = Idle
  BY <1>1, DoneShape DEF OneActive
<1>3. \A d \in Clients : Sees(d)'
  BY <1>2, IdleSeesNext
<1> QED
  BY <1>2, <1>3 DEF Reads, OneActive

\* A job starts: no other is under way.
LEMMA StartedReads ==
  ASSUME OneAtATime, Rows, NEW c \in Clients, NEW j \in Job, Alone, look[c] = Idle,
         look' = [look EXCEPT ![c] = j], Sees(c)'
  PROVE  Reads'
<1>1. look \in [Clients -> Job]
  BY DEF Rows, TypeOK
<1>2. ASSUME NEW d \in Clients, d # c PROVE look'[d] = Idle
  BY <1>1, <1>2, InstanceAssumption DEF OneAtATime, Alone
<1>3. \A d \in Clients : Sees(d)'
  BY <1>2, IdleSeesNext
<1>4. OneActive'
  BY <1>2 DEF OneActive
<1> QED
  BY <1>3, <1>4 DEF Reads

LEMMA UnmovedReads ==
  ASSUME Reads, UNCHANGED <<look, works, owner, became>> PROVE Reads'
<1>1. OneActive'
  BY DEF Reads, OneActive
<1>2. ASSUME NEW c \in Clients PROVE Sees(c)'
  BY DEF Reads, Sees, UpsertSees, WorkSees, TitlesSees, Untouched, Unmerged, Owners, Contradicts, Owned
<1> QED
  BY <1>1, <1>2 DEF Reads

LEMMA LookReads ==
  ASSUME OneAtATime, Rows, Reads, NEW c \in Clients, NEW r \in Incoming, NEW status \in Standings,
         Look(c, r, status)
  PROVE  Reads'
<1>1. TypeOK /\ r \in Work /\ status \in {"included", "metadata_only"}
  BY RecordsAssumption, InstanceAssumption DEF Rows
<1>2. PICK d : d = Decision(r)
  OBVIOUS
<1>3. /\ d.plan \in {"create", "merge", "demote"} /\ d.first \in 0..MaxWorks
      /\ d.against = Owners(StrongIds(r)) /\ d.against \in SUBSET Names /\ d.seen \in Work
      /\ d.plan = "create" => d.against = {}
      /\ d.plan = "merge" =>
           /\ d.first \in DOMAIN works /\ d.against = {d.first} /\ d.seen = works[d.first]
           /\ ~Contradicts(d.first, StrongIds(r))
  BY <1>1, <1>2, DecisionShape
<1>4. PICK j : j = [job |-> "upsert", record |-> r, status |-> status,
                    plan |-> d.plan, first |-> d.first, against |-> d.against, seen |-> d.seen]
  OBVIOUS
<1>5. j \in Job
  BY <1>1, <1>3, <1>4 DEF Job
<1>6. /\ look' = [look EXCEPT ![c] = j] /\ look[c] = Idle /\ Alone
      /\ UNCHANGED <<works, owner, became>>
  BY <1>2, <1>4 DEF Look, Start, tables
<1>7. look'[c] = j
  BY <1>1, <1>6 DEF TypeOK
<1>8. /\ j.job = "upsert" /\ j.record = r /\ j.plan = d.plan /\ j.first = d.first
      /\ j.against = d.against /\ j.seen = d.seen
  BY <1>4
<1>9. Owners(StrongIds(r)) \subseteq {became[x] : x \in d.against}
  <2>1. \A x \in d.against : x \in DOMAIN works /\ became[x] = x
    BY <1>1, <1>3, StrongTyped, OwnersAreWorks DEF Rows, NamesOK
  <2> QED
    BY <1>3, <2>1
<1>10. UpsertSees(c)'
  <2>1. /\ Owners(StrongIds(r))' = Owners(StrongIds(r))
        /\ \A w : Contradicts(w, StrongIds(r))' <=> Contradicts(w, StrongIds(r))
    BY <1>6 DEF Owners, Contradicts, Owned
  <2>2. /\ Owners(StrongIds(look[c].record))' = Owners(StrongIds(r))
        /\ {became'[x] : x \in look'[c].against} = {became[x] : x \in d.against}
    BY <1>6, <1>7, <1>8, <2>1 DEF Owners
  <2>3. ASSUME d.plan = "merge"
        PROVE  works'[look'[c].first] = look'[c].seen /\ ~Contradicts(look[c].first, StrongIds(look[c].record))'
    BY <1>3, <1>6, <1>7, <1>8, <2>3 DEF Contradicts, Owned
  <2> QED
    BY <1>3, <1>7, <1>8, <1>9, <2>2, <2>3 DEF UpsertSees
<1>11. WorkSees(c)' /\ TitlesSees(c)'
  BY <1>7, <1>8 DEF WorkSees, TitlesSees
<1> QED
  BY <1>5, <1>6, <1>10, <1>11, StartedReads DEF Sees

LEMMA SelectReads ==
  ASSUME OneAtATime, Rows, Reads, NEW c \in Clients, NEW w \in Names, NEW force \in BOOLEAN,
         TitlesSelect(c, w) \/ ResolveSelect(c, w) \/ BiblioSelect(c, w, force)
  PROVE  Reads'
<1>1. TypeOK
  BY DEF Rows
<1>2. /\ look[c] = Idle /\ Alone /\ UNCHANGED <<works, owner, became>>
  BY DEF TitlesSelect, ResolveSelect, BiblioSelect, Start, tables
<1>3. CASE BiblioSelect(c, w, force)
  <2>1. PICK j \in Job : j = [job |-> "biblio", work |-> w, force |-> force]
    BY DEF Job
  <2>2. look' = [look EXCEPT ![c] = j] /\ j.job = "biblio"
    BY <1>3, <2>1 DEF BiblioSelect
  <2>3. look'[c] = j
    BY <1>1, <2>2 DEF TypeOK
  <2>4. Sees(c)'
    BY <2>2, <2>3 DEF Sees, UpsertSees, WorkSees, TitlesSees
  <2> QED
    BY <1>2, <2>2, <2>4, StartedReads
<1>4. ASSUME NEW job \in {"titles", "resolve"}, w \in DOMAIN works,
             look' = [look EXCEPT ![c] = [job |-> job, work |-> w, seen |-> works[w]]],
             job = "titles" => /\ works[w].title = NoTitle
                               /\ <<"openalex", works[w].ids["openalex"]>> \in DOMAIN owner
                               /\ owner[<<"openalex", works[w].ids["openalex"]>>] = w,
             job = "resolve" => works[w].ids = Nothing.ids
      PROVE  Reads'
  <2>1. works[w] \in Work
    BY <1>1, <1>4 DEF TypeOK
  <2>2. PICK j : j = [job |-> job, work |-> w, seen |-> works[w]]
    OBVIOUS
  <2>3. j \in Job
    BY <2>1, <2>2 DEF Job
  <2>4. look' = [look EXCEPT ![c] = j] /\ j.job = job /\ j.work = w /\ j.seen = works[w]
    BY <1>4, <2>2
  <2>5. look'[c] = j
    BY <1>1, <2>4 DEF TypeOK
  <2>6. job = "titles" => works[w].ids["openalex"] # NoId
    <3>1. ASSUME job = "titles" PROVE works[w].ids["openalex"] # NoId
      <4>1. <<"openalex", works[w].ids["openalex"]>> \in Ids
        BY <1>1, <1>4, <3>1 DEF TypeOK
      <4>2. <<"openalex", works[w].ids["openalex"]>>[2] # NoId
        BY <4>1, IdShape
      <4> QED
        BY <4>2
    <3> QED
      BY <3>1
  <2>7. UpsertSees(c)' /\ WorkSees(c)'
    BY <1>2, <1>4, <2>4, <2>5 DEF UpsertSees, WorkSees
  <2>8. TitlesSees(c)'
    BY <1>2, <1>4, <2>4, <2>5, <2>6 DEF TitlesSees
  <2> QED
    BY <1>2, <2>3, <2>4, <2>7, <2>8, StartedReads DEF Sees
<1>5. CASE TitlesSelect(c, w)
  BY <1>4, <1>5 DEF TitlesSelect
<1>6. CASE ResolveSelect(c, w)
  BY <1>4, <1>6 DEF ResolveSelect
<1> QED
  BY <1>3, <1>5, <1>6

OwnedOf(row, rows, t) ==
  IF row.ids[t] # NoId \/ rows = {} THEN row.ids[t] ELSE (CHOOSE i \in rows : TRUE)[2]

\* A merge beside a job: of works it does not touch the job still sees all; the
\* one it selected keeps its ids.
LEMMA MergedReads ==
  ASSUME Rows, Bonds, Reads, NEW i, NEW s \in Names, NEW v \in Names, Merged(i, s, v), Alone PROVE Reads'
<1>1. /\ TypeOK /\ s \in DOMAIN works /\ v \in DOMAIN works /\ s # v /\ MergeWorks(s, v)
      /\ UNCHANGED look /\ look \in [Clients -> Job]
  BY DEF Rows, Merged, TypeOK
<1>2. PICK new \in Work :
        /\ new = Backfill(works[s], works[s], works[v])
        /\ \A t \in Types : works[s].ids[t] # NoId => new.ids[t] = works[s].ids[t]
  <2>1. PlainColumns
    BY DEF Bonds
  <2>2. PICK b : b = Folded(s, v)
    OBVIOUS
  <2>3. b \in Work /\ \A t \in Types : works[s].ids[t] # NoId => b.ids[t] = works[s].ids[t]
    <3>1. TypeOK /\ s \in DOMAIN works /\ v \in DOMAIN works
      BY <1>1
    <3> QED
      BY <2>1, <2>2, <3>1, FoldedCarries
  <2> QED
    BY <2>2, <2>3 DEF Folded
<1>3. /\ DOMAIN works' = DOMAIN works \ {v} /\ works'[s] = new
      /\ \A w \in DOMAIN works' : w # s => works'[w] = works[w]
      /\ DOMAIN owner' = DOMAIN owner
      /\ \A k \in DOMAIN owner : owner'[k] = IF owner[k] = v THEN s ELSE owner[k]
      /\ \A w \in Names : became'[w] = IF became[w] = v THEN s ELSE became[w]
  <2>1. /\ DOMAIN works' = DOMAIN works \ {v}
        /\ works'[s] = Backfill(works[s], works[s], works[v])
        /\ \A w \in DOMAIN works' : works'[w] \in Work /\ (w # s => works'[w] = works[w])
        /\ DOMAIN owner' = DOMAIN owner
        /\ \A k \in DOMAIN owner : owner'[k] = IF owner[k] = v THEN s ELSE owner[k]
        /\ \A w \in Names : became'[w] = IF became[w] = v THEN s ELSE became[w]
    BY <1>1, MergeShape
  <2> QED
    BY <1>2, <2>1
<1>4. became'[v] = s
  BY <1>1, <1>3 DEF Rows, NamesOK
<1>5. OneActive'
  BY <1>1 DEF Reads, OneActive
<1>6. CASE ~Overlap
  <2>1. \A c \in Clients : look'[c] = Idle
    BY <1>1, <1>6 DEF Alone
  <2> QED
    BY <1>5, <2>1, IdleSeesNext DEF Reads
<1>7. CASE Overlap
  <2>1. ASSUME NEW w \in DOMAIN works', \A x \in Names : became'[x] = w => x = w
        PROVE  /\ Untouched(w) /\ works'[w] = works[w]
               /\ \A k \in DOMAIN owner : owner'[k] = w <=> owner[k] = w
    <3>1. w # s /\ w # v
      BY <1>1, <1>3, <1>4, <2>1
    <3>2. Unmerged(w)
      BY <1>3, <2>1, <3>1 DEF Unmerged
    <3> QED
      BY <1>3, <3>1, <3>2 DEF Untouched
  <2>2. ASSUME NEW w \in DOMAIN works', \A x \in Names : became'[x] = w => x = w,
               NEW ids, ~Contradicts(w, ids)
        PROVE  ~Contradicts(w, ids)'
    <3>1. ASSUME NEW t PROVE Owned(w, t)' = Owned(w, t)
      <4>1. {k \in DOMAIN owner' : k[1] = t /\ owner'[k] = w} = {k \in DOMAIN owner : k[1] = t /\ owner[k] = w}
        BY <1>3, <2>1, <2>2
      <4>2. works'[w] = works[w]
        BY <2>1, <2>2
      <4>3. Owned(w, t) = OwnedOf(works[w], {k \in DOMAIN owner : k[1] = t /\ owner[k] = w}, t)
        BY DEF Owned, OwnedOf
      <4>4. Owned(w, t)' = OwnedOf(works'[w], {k \in DOMAIN owner' : k[1] = t /\ owner'[k] = w}, t)
        BY DEF Owned, OwnedOf
      <4> QED
        BY <4>1, <4>2, <4>3, <4>4
    <3> QED
      BY <2>2, <3>1 DEF Contradicts
  <2>3. ASSUME NEW c \in Clients PROVE UpsertSees(c)'
    <3>1. SUFFICES ASSUME look[c].job = "upsert" PROVE UpsertSees(c)'
      BY <1>1 DEF UpsertSees
    <3>2. PICK j : j = look[c] /\ j = look'[c]
      BY <1>1
    <3>3. PICK ids : ids = StrongIds(j.record)
      OBVIOUS
    <3>4. /\ Owners(ids) \subseteq {became[x] : x \in j.against}
          /\ j.plan = "create" => j.against = {}
          /\ j.plan = "merge" =>
               /\ j.against = {j.first}
               /\ Untouched(j.first) => works[j.first] = j.seen /\ ~Contradicts(j.first, ids)
      BY <3>1, <3>2, <3>3 DEF Reads, Sees, UpsertSees
    <3>5. j.against \in SUBSET Names
      BY <1>1, <3>1, <3>2, JobShape
    <3>6. Owners(ids)' \subseteq {became'[x] : x \in j.against}
      <4>1. ASSUME NEW o \in Owners(ids)' PROVE o \in {became'[x] : x \in j.against}
        <5>1. PICK k \in Pairs(ids) \cap DOMAIN owner : o = owner'[k]
          BY <1>3 DEF Owners, Pairs
        <5>2. PICK x \in j.against : owner[k] = became[x]
          BY <3>4, <5>1 DEF Owners
        <5>3. o = became'[x]
          BY <1>3, <3>5, <5>1, <5>2
        <5> QED
          BY <5>3
      <4> QED
        BY <4>1
    <3>7. ASSUME j.plan = "merge", NEW w, w = j.first, w \in DOMAIN works', \A x \in Names : became'[x] = w => x = w
          PROVE  works'[w] = j.seen /\ ~Contradicts(w, ids)'
      <4>1. works[w] = j.seen /\ ~Contradicts(w, ids) /\ works'[w] = works[w]
        BY <2>1, <3>4, <3>7
      <4> QED
        BY <2>2, <3>7, <4>1
    <3>8. Owners(StrongIds(look[c].record))' = Owners(ids)'
      BY <3>2, <3>3
    <3>9. j.plan = "merge" /\ Untouched(look[c].first)' =>
            works'[look'[c].first] = look'[c].seen /\ ~Contradicts(look[c].first, StrongIds(look[c].record))'
      BY <1>7, <3>2, <3>3, <3>7 DEF Untouched, Unmerged, Contradicts, Owned
    <3> QED
      BY <3>2, <3>4, <3>6, <3>8, <3>9 DEF UpsertSees
  <2>4. ASSUME NEW c \in Clients PROVE WorkSees(c)'
    <3>1. ASSUME look[c].job \in {"titles", "resolve"}, NEW w, w = look[c].work,
                 w \in DOMAIN works', \A x \in Names : became'[x] = w => x = w
          PROVE  works'[w] = look[c].seen
      BY <2>1, <3>1 DEF Reads, Sees, WorkSees
    <3> QED
      BY <1>1, <1>7, <3>1 DEF Reads, Sees, WorkSees, Untouched, Unmerged
  <2>5. ASSUME NEW c \in Clients PROVE TitlesSees(c)'
    <3>1. SUFFICES ASSUME look[c].job = "titles" PROVE TitlesSees(c)'
      BY <1>1 DEF TitlesSees
    <3>2. PICK j : j = look[c] /\ j = look'[c]
      BY <1>1
    <3>3. j.seen.title = NoTitle /\ j.seen.ids["openalex"] # NoId
      BY <3>1, <3>2 DEF Reads, Sees, TitlesSees
    <3>4. ASSUME j.work \in DOMAIN works'
          PROVE  /\ works'[j.work].ids["openalex"] = j.seen.ids["openalex"]
                 /\ <<"openalex", j.seen.ids["openalex"]>> \in DOMAIN owner'
                 /\ owner'[<<"openalex", j.seen.ids["openalex"]>>] = j.work
      <4>1. /\ j.work # v /\ works[j.work].ids["openalex"] = j.seen.ids["openalex"]
            /\ <<"openalex", j.seen.ids["openalex"]>> \in DOMAIN owner
            /\ owner[<<"openalex", j.seen.ids["openalex"]>>] = j.work
        BY <1>3, <3>1, <3>2, <3>4 DEF Reads, Sees, TitlesSees
      <4>2. works'[j.work].ids["openalex"] = works[j.work].ids["openalex"]
        BY <1>2, <1>3, <3>3, <3>4, <4>1 DEF Types
      <4> QED
        BY <1>3, <4>1, <4>2
    <3> QED
      BY <3>2, <3>3, <3>4 DEF TitlesSees
  <2> QED
    BY <1>5, <2>3, <2>4, <2>5 DEF Reads, Sees
<1> QED
  BY <1>6, <1>7, InstanceAssumption

-----------------------------------------------------------------------------
(* Every step keeps the bonds *)

LEMMA AskedStay == ASSUME TypeOK, NEW items \in Seq(Item), Asked(items) PROVE ItemsStay
BY AskedShape DEF ItemsStay

LEMMA StoreBonds == ASSUME Rows, Bonds, Reads, NEW c \in Clients, Store(c) PROVE Bonds'
<1>1. TypeOK
  BY DEF Rows
<1>2. /\ look[c].job = "upsert" /\ look[c].record \in Work /\ look[c].seen \in Work
      /\ look[c].first \in 0..MaxWorks /\ look[c].against \in SUBSET Names
      /\ Upsert(look[c], look[c].record, look[c].seen) /\ Done(c) /\ UNCHANGED <<file, cites, became>>
  BY <1>1, StoreShape
<1>3. UpsertSees(c)
  BY DEF Reads, Sees
<1>4. /\ Owners(StrongIds(look[c].record)) \subseteq {became[x] : x \in look[c].against}
      /\ look[c].plan = "create" => look[c].against = {}
      /\ look[c].plan = "merge" =>
           /\ look[c].against = {look[c].first}
           /\ look[c].first \in DOMAIN works /\ Unmerged(look[c].first) =>
                works[look[c].first] = look[c].seen
                /\ ~Contradicts(look[c].first, StrongIds(look[c].record))
  BY <1>2, <1>3 DEF UpsertSees, Untouched
<1> QED
  BY <1>2, <1>4, UpsertBonds

LEMMA TitlesFoldBonds ==
  ASSUME Rows, Bonds, Reads, NEW c \in Clients, NEW title \in Titles, TitlesFold(c, title) PROVE Bonds'
<1>1. TypeOK
  BY DEF Rows
<1>2. PICK d : d = Decision(Fetched(c, title))
  OBVIOUS
<1>3. /\ look[c].job = "titles" /\ Fetched(c, title) \in Work /\ FoldSees(c, title) \in Work
      /\ d.first \in 0..MaxWorks /\ d.against \in SUBSET Names
      /\ Upsert(d, Fetched(c, title), FoldSees(c, title)) /\ UNCHANGED <<file, cites, became>>
  BY <1>1, <1>2, TitlesFoldShape
<1>4. PICK r \in Work : r = Fetched(c, title)
  BY <1>3
<1>5. /\ d.against = Owners(StrongIds(r))
      /\ d.plan = "create" => d.against = {}
      /\ d.plan = "merge" =>
           /\ d.first \in DOMAIN works /\ d.against = {d.first} /\ d.seen = works[d.first]
           /\ ~Contradicts(d.first, StrongIds(r))
  BY <1>1, <1>2, <1>4, DecisionShape
<1>6. Owners(StrongIds(r)) \subseteq {became[x] : x \in d.against}
  <2>1. \A x \in d.against : x \in DOMAIN works /\ became[x] = x
    BY <1>1, <1>4, <1>5, StrongTyped, OwnersAreWorks DEF Rows, NamesOK
  <2> QED
    BY <1>5, <2>1
<1>7. ASSUME d.plan = "merge", d.first \in DOMAIN works, Unmerged(d.first)
      PROVE  works[d.first] = FoldSees(c, title)
  <2>1. CASE d.first = look[c].work
    <3>1. works[look[c].work] = look[c].seen
      BY <1>3, <1>7, <2>1 DEF Reads, Sees, WorkSees, Untouched
    <3> QED
      BY <1>2, <2>1, <3>1 DEF FoldSees
  <2>2. CASE d.first # look[c].work
    BY <1>2, <1>5, <1>7, <2>2 DEF FoldSees
  <2> QED
    BY <2>1, <2>2
<1>8. PICK seen \in Work : seen = FoldSees(c, title)
  BY <1>3
<1>9. Upsert(d, r, seen)
  BY <1>3, <1>4, <1>8
<1> QED
  BY <1>3, <1>5, <1>6, <1>7, <1>8, <1>9, UpsertBonds

LEMMA ResolveAttachBonds ==
  ASSUME Rows, Bonds, Reads, NEW c \in Clients, NEW cand \in Candidates, ResolveAttach(c, cand) PROVE Bonds'
<1>1. TypeOK
  BY DEF Rows
<1>2. PICK w : w = look[c].work
  OBVIOUS
<1>3. PICK new : new = Resolved(w, cand)
  OBVIOUS
<1>4. /\ cand \in Work /\ w \in DOMAIN works /\ UNCHANGED queue
      /\ new \in Work /\ Free(cand) \in SUBSET Ids
      /\ \A t \in Types : new.ids[t] =
           IF \E i \in Free(cand) : i[1] = t THEN StrongIds(cand)[t] ELSE works[w].ids[t]
      /\ Rewritten(w, new, Free(cand)) /\ look[c].job = "resolve"
  <2>1. /\ cand \in Work /\ w \in DOMAIN works /\ UNCHANGED <<member, queue>>
        /\ Resolved(w, cand) \in Work /\ Free(cand) \in SUBSET Ids
        /\ \A t \in Types : Resolved(w, cand).ids[t] =
             IF \E i \in Free(cand) : i[1] = t THEN StrongIds(cand)[t] ELSE works[w].ids[t]
        /\ Rewritten(w, Resolved(w, cand), Free(cand))
    BY <1>1, <1>2, ResolvedShape
  <2>2. look[c].job = "resolve"
    BY DEF ResolveAttach
  <2> QED
    BY <1>3, <2>1, <2>2
<1>5. \A i \in Free(cand) : i[1] \in Types /\ i[2] = StrongIds(cand)[i[1]] /\ i \notin DOMAIN owner
  BY <1>4, StrongTyped, PairsOf DEF Free
<1>6. ASSUME NEW i \in Pairs(new.ids) PROVE i \in Carries(w) \/ (i \in Free(cand) /\ i \notin DOMAIN owner)
  <2>1. i \in Ids /\ i[1] \in Types /\ i[2] = new.ids[i[1]] /\ i = <<i[1], i[2]>>
    BY <1>4, PairsOf, IdShape DEF Work
  <2>2. CASE \E k \in Free(cand) : k[1] = i[1]
    <3>1. PICK k \in Free(cand) : k[1] = i[1]
      BY <2>2
    <3>2. k = <<k[1], k[2]>> /\ k[2] = i[2]
      BY <1>4, <1>5, <2>1, <2>2, <3>1, IdShape
    <3> QED
      BY <1>5, <2>1, <3>1, <3>2
  <2>3. CASE ~\E k \in Free(cand) : k[1] = i[1]
    BY <1>4, <2>1, <2>3 DEF Carries, Pairs
  <2> QED
    BY <2>2, <2>3
<1>7. ASSUME Unmerged(w), NEW i \in DOMAIN owner', owner'[i] = w PROVE new.ids[i[1]] = i[2]
  <2>1. works[w].ids = Nothing.ids
    BY <1>2, <1>4, <1>7 DEF Reads, Sees, WorkSees, Untouched
  <2>2. DOMAIN owner' = DOMAIN owner \cup Free(cand) /\ \A k \in DOMAIN owner : owner'[k] = owner[k]
    BY <1>1, <1>4, RewrittenShape
  <2>3. i \notin DOMAIN owner
    <3>1. ASSUME i \in DOMAIN owner PROVE FALSE
      <4>1. works[w].ids[i[1]] = i[2]
        BY <1>7, <2>2, <3>1 DEF Bonds, OwnedMirrored
      <4>2. i[1] \in Types /\ i[2] # NoId
        BY <1>1, <3>1, IdShape DEF TypeOK
      <4> QED
        BY <2>1, <4>1, <4>2 DEF Nothing
    <3> QED
      BY <3>1
  <2>4. i \in Free(cand)
    BY <2>2, <2>3
  <2> QED
    BY <1>4, <1>5, <2>4
<1>8. new.ids["doi"] \notin {"10.48550"} \X Arxivs
  <2>1. StrongIds(cand)["doi"] \notin {"10.48550"} \X Arxivs /\ "doi" \in Types
    BY <1>4, PlainStrong DEF Types
  <2> QED
    BY <1>4, <2>1 DEF Bonds, PlainColumns
<1>9. ItemsStay
  BY <1>4 DEF ItemsStay
<1> QED
  BY <1>4, <1>6, <1>7, <1>8, <1>9, RewrittenBonds

LEMMA BiblioApplyBonds ==
  ASSUME NoAliasDois, Rows, Bonds, NEW c \in Clients, NEW meta \in Metadata, BiblioApply(c, meta) PROVE Bonds'
<1>1. TypeOK /\ meta \in Work
  BY RecordsAssumption DEF Rows
<1>2. PICK w : w = look[c].work
  OBVIOUS
<1>3. PICK new : new = Told(w, meta, look[c].force)
  OBVIOUS
<1>4. /\ w \in DOMAIN works /\ new \in Work /\ Says(w, meta) \in SUBSET Ids
      /\ \A t \in Types : new.ids[t] = IF t \in New(w, meta) THEN meta.ids[t] ELSE works[w].ids[t]
      /\ \A t \in New(w, meta) : meta.ids[t] # NoId /\ Owned(w, t) = NoId /\ <<t, meta.ids[t]>> \notin DOMAIN owner
      /\ Rewritten(w, new, Says(w, meta))
  <2>1. /\ w \in DOMAIN works /\ Told(w, meta, look[c].force) \in Work /\ Says(w, meta) \in SUBSET Ids
        /\ \A t \in Types : Told(w, meta, look[c].force).ids[t] =
             IF t \in New(w, meta) THEN meta.ids[t] ELSE works[w].ids[t]
        /\ \A t \in New(w, meta) : meta.ids[t] # NoId /\ Owned(w, t) = NoId /\ <<t, meta.ids[t]>> \notin DOMAIN owner
        /\ Rewritten(w, Told(w, meta, look[c].force), Says(w, meta))
    BY <1>1, <1>2, ToldShape
  <2> QED
    BY <1>3, <2>1
<1>5. \A t \in New(w, meta) : t \in Types
  BY DEF New
<1>6. ASSUME NEW i \in Pairs(new.ids) PROVE i \in Carries(w) \/ (i \in Says(w, meta) /\ i \notin DOMAIN owner)
  <2>1. i \in Ids /\ i[1] \in Types /\ i[2] = new.ids[i[1]] /\ i = <<i[1], i[2]>>
    BY <1>4, PairsOf, IdShape DEF Work
  <2>2. CASE i[1] \in New(w, meta)
    <3>1. i = <<i[1], meta.ids[i[1]]>>
      BY <1>4, <2>1, <2>2
    <3>2. <<i[1], meta.ids[i[1]]>> \in Says(w, meta) /\ <<i[1], meta.ids[i[1]]>> \notin DOMAIN owner
      BY <1>4, <2>2 DEF Says
    <3> QED
      BY <3>1, <3>2
  <2>3. CASE i[1] \notin New(w, meta)
    BY <1>4, <2>1, <2>3 DEF Carries, Pairs
  <2> QED
    BY <2>2, <2>3
<1>7. ASSUME Unmerged(w), NEW i \in DOMAIN owner', owner'[i] = w PROVE new.ids[i[1]] = i[2]
  <2>1. DOMAIN owner' = DOMAIN owner \cup Says(w, meta) /\ \A k \in DOMAIN owner : owner'[k] = owner[k]
    BY <1>1, <1>4, RewrittenShape
  <2>2. CASE i \in DOMAIN owner
    <3>1. works[w].ids[i[1]] = i[2] /\ owner[i] = w
      BY <1>7, <2>1, <2>2 DEF Bonds, OwnedMirrored
    <3>2. i[1] \in Types
      BY <1>1, <2>2, IdShape DEF TypeOK
    <3>3. i[1] \notin New(w, meta)
      BY <1>1, <1>4, <2>2, <3>1, <3>2, OwnedShape
    <3> QED
      BY <1>4, <3>1, <3>2, <3>3
  <2>3. CASE i \in Says(w, meta)
    <3>1. PICK t \in New(w, meta) : i = <<t, meta.ids[t]>>
      BY <2>3 DEF Says
    <3> QED
      BY <1>4, <1>5, <3>1
  <2> QED
    BY <2>1, <2>2, <2>3
<1>8. new.ids["doi"] \notin {"10.48550"} \X Arxivs
  <2>1. meta.ids["doi"] \notin {"10.48550"} \X Arxivs /\ "doi" \in Types
    BY DEF NoAliasDois, Types
  <2> QED
    BY <1>4, <2>1 DEF Bonds, PlainColumns
<1>9. ItemsStay
  <2>1. PICK items \in Seq(Item) : Enqueue(items)
    BY <1>1, <1>2, ToldShape
  <2> QED
    BY <1>1, <2>1, AskedStay DEF Asked
<1> QED
  BY <1>4, <1>6, <1>7, <1>8, <1>9, RewrittenBonds

IdentityInv == Rows /\ Bonds /\ Reads

LEMMA IdentityInit == Init => IdentityInv
<1> SUFFICES ASSUME Init PROVE IdentityInv
  OBVIOUS
<1>1. Rows
  BY RowsInit
<1>2. DOMAIN works = {} /\ DOMAIN owner = {} /\ \A c \in Clients : look[c] = Idle
  BY DEF Init
<1>3. Bonds
  BY <1>2 DEF Bonds, ColumnsOwned, OwnedMirrored, PlainColumns, SharedIdIsReviewed
<1>4. ASSUME NEW c \in Clients PROVE Sees(c)
  BY <1>2 DEF Sees, UpsertSees, WorkSees, TitlesSees, Idle
<1>5. Reads
  BY <1>2, <1>4 DEF Reads, OneActive
<1> QED
  BY <1>1, <1>3, <1>5 DEF IdentityInv

LEMMA JobBonds ==
  ASSUME OneAtATime, NoAliasDois, IdentityInv, NEW c \in Clients, JobStep(c) PROVE Bonds' /\ Reads'
<1>1. Rows /\ Bonds /\ Reads /\ OneActive /\ TypeOK
  BY DEF IdentityInv, Rows, Reads
<1>2. ASSUME UNCHANGED <<tables, became>> PROVE Bonds'
  <2>1. UNCHANGED <<works, owner, became>> /\ ItemsStay
    BY <1>2 DEF tables, ItemsStay
  <2> QED
    BY <1>1, <2>1, StillBonds
<1>3. ASSUME NEW r \in Incoming, NEW status \in Standings, Look(c, r, status) PROVE Bonds' /\ Reads'
  BY <1>1, <1>2, <1>3, LookReads DEF Look
<1>4. ASSUME NEW w \in Names, NEW force \in BOOLEAN,
             TitlesSelect(c, w) \/ ResolveSelect(c, w) \/ BiblioSelect(c, w, force)
      PROVE  Bonds' /\ Reads'
  <2>1. UNCHANGED <<tables, became>>
    BY <1>4 DEF TitlesSelect, ResolveSelect, BiblioSelect
  <2> QED
    BY <1>1, <1>2, <1>4, <2>1, SelectReads
<1>5. CASE RollBack(c) \/ TitlesMiss(c) \/ ResolveMiss(c) \/ BiblioGone(c)
  <2>1. Done(c) /\ UNCHANGED <<tables, became>> /\ look[c].job # "idle"
    BY <1>5 DEF RollBack, TitlesMiss, ResolveMiss, BiblioGone, Done
  <2> QED
    BY <1>1, <1>2, <2>1, EndedReads
<1>6. CASE Store(c)
  <2>1. Done(c) /\ look[c].job # "idle"
    BY <1>6 DEF Store
  <2> QED
    BY <1>1, <1>6, <2>1, StoreBonds, EndedReads
<1>7. ASSUME NEW title \in Titles, TitlesFold(c, title) PROVE Bonds' /\ Reads'
  <2>1. Done(c) /\ look[c].job # "idle"
    BY <1>7 DEF TitlesFold
  <2> QED
    BY <1>1, <1>7, <2>1, TitlesFoldBonds, EndedReads
<1>8. ASSUME NEW cand \in Candidates, ResolveAttach(c, cand) PROVE Bonds' /\ Reads'
  <2>1. Done(c) /\ look[c].job # "idle"
    BY <1>8 DEF ResolveAttach
  <2> QED
    BY <1>1, <1>8, <2>1, ResolveAttachBonds, EndedReads
<1>9. CASE ResolveAsk(c)
  <2>1. /\ Done(c) /\ look[c].job # "idle" /\ UNCHANGED <<works, owner, became>>
        /\ Enqueue(Asks(look[c].work, 0, {}))
    BY <1>9 DEF ResolveAsk, Done
  <2>2. Asks(look[c].work, 0, {}) \in Seq(Item)
    <3>1. look \in [Clients -> Job] /\ look[c].job = "resolve"
      BY <1>1, <1>9 DEF TypeOK, ResolveAsk
    <3>2. look[c].work \in Names /\ 0 \in 0..MaxWorks /\ {} \in SUBSET Names
      BY <3>1, JobShape, BoundsAssumption
    <3> QED
      BY <3>2, AsksOne
  <2>3. ItemsStay
    BY <1>1, <2>1, <2>2, AskedStay DEF Asked
  <2> QED
    BY <1>1, <2>1, <2>3, StillBonds, EndedReads
<1>10. ASSUME NEW meta \in Metadata, BiblioApply(c, meta) PROVE Bonds' /\ Reads'
  <2>1. Done(c) /\ look[c].job # "idle"
    BY <1>10 DEF BiblioApply
  <2> QED
    BY <1>1, <1>10, <2>1, BiblioApplyBonds, EndedReads
<1> QED
  BY <1>3, <1>4, <1>5, <1>6, <1>7, <1>8, <1>9, <1>10 DEF JobStep

LEMMA SettledStay ==
  ASSUME TypeOK, NEW i \in DOMAIN queue, NEW action \in {"merge", "exclude", "reject"},
         queue' = [queue EXCEPT ![i].action = action]
  PROVE  ItemsStay
<1>1. queue \in Seq(Item)
  BY DEF TypeOK
<1>2. /\ DOMAIN queue' = DOMAIN queue /\ queue'[i].target = queue[i].target
      /\ queue'[i].against = queue[i].against
      /\ \A k \in DOMAIN queue : k # i => queue'[k] = queue[k]
  BY <1>1, SettledShape
<1> QED
  BY <1>2 DEF ItemsStay

LEMMA ReviewBonds ==
  ASSUME IdentityInv, ReviewStep PROVE Bonds' /\ Reads'
<1>1. Rows /\ Bonds /\ Reads /\ TypeOK
  BY DEF IdentityInv, Rows
<1>2. PICK i \in 1..MaxItems :
        \/ \E survivor \in Names : ResolveMerge(i, survivor)
        \/ ResolveExclude(i) \/ ResolveReject(i)
  BY DEF ReviewStep
<1>3. ASSUME i \in DOMAIN queue, NEW action \in {"merge", "exclude", "reject"},
             queue' = [queue EXCEPT ![i].action = action],
             UNCHANGED <<look, works, owner, became>>
      PROVE  Bonds' /\ Reads'
  <2>1. ItemsStay
    BY <1>1, <1>3, SettledStay
  <2> QED
    BY <1>1, <1>3, <2>1, StillBonds, UnmovedReads
<1>4. CASE ResolveExclude(i)
  BY <1>3, <1>4 DEF ResolveExclude, Open
<1>5. CASE ResolveReject(i)
  BY <1>3, <1>5 DEF ResolveReject, Open
<1>6. ASSUME NEW survivor \in Names, ResolveMerge(i, survivor) PROVE Bonds' /\ Reads'
  <2>1. i \in DOMAIN queue /\ Alone
    BY <1>1, <1>6, MergeCases
  <2>2. CASE /\ UNCHANGED <<works, minted, owner, member, file, cites, became, look>>
             /\ queue' = [queue EXCEPT ![i].action = "merge"]
    BY <1>3, <2>1, <2>2
  <2>3. CASE \E v \in Names : Merged(i, survivor, v)
    BY <1>1, <2>1, <2>3, MergedBonds, MergedReads
  <2> QED
    BY <1>1, <1>6, <2>2, <2>3, MergeCases
<1> QED
  BY <1>2, <1>4, <1>5, <1>6

LEMMA IdentityStep ==
  ASSUME OneAtATime, NoAliasDois, IdentityInv, [Next]_vars PROVE IdentityInv'
<1>1. Rows /\ Bonds /\ Reads
  BY DEF IdentityInv
<1>2. Rows'
  BY <1>1, RowsStep
<1>3. ASSUME UNCHANGED <<look, works, owner, became, queue>> PROVE Bonds' /\ Reads'
  <2>1. ItemsStay
    BY <1>3 DEF ItemsStay
  <2> QED
    BY <1>1, <1>3, <2>1, StillBonds, UnmovedReads
<1>4. ASSUME UNCHANGED vars PROVE Bonds' /\ Reads'
  BY <1>3, <1>4 DEF vars, tables
<1>5. ASSUME NEW v \in Names, NEW w \in Names, Acquire(w) \/ Cite(v, w) PROVE Bonds' /\ Reads'
  BY <1>3, <1>5 DEF Acquire, Cite
<1>6. Bonds' /\ Reads'
  <2>1. CASE \E c \in Clients : JobStep(c)
    BY <2>1, JobBonds
  <2>2. CASE ReviewStep
    BY <2>2, ReviewBonds
  <2> QED
    BY <1>4, <1>5, <2>1, <2>2 DEF Next
<1> QED
  BY <1>2, <1>6 DEF IdentityInv

\* A work shows every id it owns until another is merged into it.
LEMMA TwoIdsMeanMerged == Rows /\ OwnedMirrored => TwoIdsOnlyByReview
<1> SUFFICES ASSUME Rows, OwnedMirrored, NEW i \in DOMAIN owner, NEW k \in DOMAIN owner,
                    owner[i] = owner[k], i[1] = k[1], i # k
             PROVE  \E w \in Names \ {owner[i]} : became[w] = owner[i]
  BY DEF TwoIdsOnlyByReview
<1>1. i = <<i[1], i[2]>> /\ k = <<k[1], k[2]>>
  BY IdShape DEF Rows, TypeOK
<1>2. CASE Unmerged(owner[i])
  <2>1. works[owner[i]].ids[i[1]] = i[2] /\ works[owner[i]].ids[k[1]] = k[2]
    BY <1>2 DEF OwnedMirrored
  <2> QED
    BY <1>1, <2>1
<1>3. CASE ~Unmerged(owner[i])
  BY <1>3 DEF Unmerged
<1> QED
  BY <1>2, <1>3

\* Two works that carry the same identifier have been brought to a reviewer, for
\* every set of records and every bound, if jobs do not run between the reads
\* and writes of each other and no paper names itself by arXiv's DOI
\* (upsert_work, merge_works).
THEOREM SharedIdsReviewed ==
  ASSUME OneAtATime, NoAliasDois PROVE Spec => []SharedIdIsReviewed
<1>1. Init => IdentityInv
  BY IdentityInit
<1>2. IdentityInv /\ [Next]_vars => IdentityInv'
  BY IdentityStep
<1>3. IdentityInv => SharedIdIsReviewed
  BY DEF IdentityInv, Bonds
<1> QED
  BY <1>1, <1>2, <1>3, PTL DEF Spec

\* No job takes two papers for one: a work has two identifiers of one type only
\* if a reviewer merged another into it (upsert_work, resolve_corpus,
\* update_work_bibliography).
THEOREM TwoIdsReviewed ==
  ASSUME OneAtATime, NoAliasDois PROVE Spec => []TwoIdsOnlyByReview
<1>1. Init => IdentityInv
  BY IdentityInit
<1>2. IdentityInv /\ [Next]_vars => IdentityInv'
  BY IdentityStep
<1>3. IdentityInv => TwoIdsOnlyByReview
  BY TwoIdsMeanMerged DEF IdentityInv, Bonds
<1> QED
  BY <1>1, <1>2, <1>3, PTL DEF Spec

-----------------------------------------------------------------------------
(* What the repairs do *)

\* The selected work owns the OpenAlex id it was selected for, so what comes
\* back for it is folded into it.
LEMMA TitlesHitTheirWork ==
  ASSUME Rows, Bonds, Reads, NEW c \in Clients, NEW title \in Titles, TitlesFold(c, title),
         look[c].work \in DOMAIN works, NEW d, d = Decision(Fetched(c, title))
  PROVE  d.plan = "merge" /\ d.first = look[c].work
<1>1. TypeOK /\ look \in [Clients -> Job] /\ look[c].job = "titles"
  BY DEF Rows, TypeOK, TitlesFold
<1>2. PICK w \in DOMAIN works : w = look[c].work
  OBVIOUS
<1>3. PICK o : o = look[c].seen.ids["openalex"]
  OBVIOUS
<1>4. look[c].seen \in Work
  BY <1>1, JobShape
<1>5. o \in Value["openalex"] \cup {NoId}
  BY <1>3, <1>4, ScalarsShape DEF Work, Types
<1>6. /\ o # NoId /\ works[w].ids["openalex"] = o
      /\ <<"openalex", o>> \in DOMAIN owner /\ owner[<<"openalex", o>>] = w
  BY <1>1, <1>2, <1>3 DEF Reads, Sees, TitlesSees
<1>7. PICK r \in Work : r = Fetched(c, title)
  BY <1>3, <1>5, TitledShape DEF Fetched
<1>8. PICK ids \in Scalars : ids = StrongIds(r)
  BY StrongTyped
<1>9. \A t \in Types : ids[t] = IF t = "openalex" THEN o ELSE NoId
  BY <1>3, <1>5, <1>7, <1>8, TitledShape DEF Fetched
<1>10. Pairs(ids) = {<<"openalex", o>>}
  <2>1. ASSUME NEW i \in Pairs(ids) PROVE i = <<"openalex", o>>
    <3>1. i \in Ids /\ i[1] \in Types /\ i[2] = ids[i[1]] /\ ids[i[1]] # NoId /\ i = <<i[1], i[2]>>
      BY PairsOf, IdShape
    <3> QED
      BY <1>9, <3>1
  <2>2. <<"openalex", o>> \in Pairs(ids)
    <3>1. "openalex" \in Types
      BY DEF Types
    <3> QED
      BY <1>6, <1>9, <3>1, PairsOf
  <2> QED
    BY <2>1, <2>2
<1>11. Owners(ids) = {w}
  BY <1>6, <1>10 DEF Owners
<1>12. Foremost(ids) = w
  BY <1>1, <1>11, OwnersAreWorks
<1>13. Owned(w, "openalex") = o
  <2>1. "openalex" \in Types
    BY DEF Types
  <2> QED
    BY <1>1, <1>6, <2>1, OwnedShape
<1>14. ~Contradicts(w, ids)
  BY <1>9, <1>13 DEF Contradicts
<1>15. ~WeakMatch(w, r)
  <2>1. "openalex" \in Strong /\ "openalex" \in Types
    BY DEF Strong, Types
  <2> QED
    BY <1>6, <1>8, <1>9, <1>13, <2>1 DEF WeakMatch
<1>16. ~(Cardinality({w}) > 1)
  <2>1. Cardinality({w}) = 1
    BY FS_Singleton
  <2> QED
    BY <2>1
<1>17. Decision(r) = [plan |-> "merge", first |-> w, against |-> {w}, seen |-> works[w]]
  BY <1>8, <1>11, <1>12, <1>14, <1>15, <1>16 DEF Decision
<1> QED
  BY <1>2, <1>7, <1>17

LEMMA TitlesFill == ASSUME IdentityInv PROVE TitlesOnlyFill
<1> SUFFICES ASSUME NEW c \in Clients, NEW title \in Titles, TitlesFold(c, title), look[c].work \in DOMAIN works
             PROVE  UNCHANGED <<minted, queue>> /\ works'[look[c].work].title # NoTitle
  BY DEF TitlesOnlyFill
<1>1. Rows /\ Bonds /\ Reads /\ TypeOK
  BY DEF IdentityInv, Rows
<1>2. PICK d : d = Decision(Fetched(c, title))
  OBVIOUS
<1>3. d.plan = "merge" /\ d.first = look[c].work
  BY <1>1, <1>2, TitlesHitTheirWork
<1>4. PICK r \in Work, seen \in Work :
        /\ r = Fetched(c, title) /\ seen = FoldSees(c, title) /\ Upsert(d, r, seen) /\ look[c].job = "titles"
        /\ look[c].seen \in Work
  BY <1>1, <1>2, TitlesFoldShape
<1>5. PICK w \in DOMAIN works : w = look[c].work
  OBVIOUS
<1>6. seen = look[c].seen /\ seen.title = NoTitle
  BY <1>1, <1>2, <1>3, <1>4 DEF FoldSees, Reads, Sees, TitlesSees
<1>7. Fold(w, r, seen)
  BY <1>3, <1>4, <1>5 DEF Upsert
<1>8. UNCHANGED <<minted, queue>> /\ works'[w] = Backfill(works[w], seen, r)
  BY <1>7 DEF Fold
<1>9. r.title = title /\ title # NoTitle
  BY <1>4, NothingAssumption DEF Fetched, Titled
<1>10. works[w] \in Work
  BY <1>1 DEF TypeOK
<1>11. works'[w].title = title
  BY <1>4, <1>6, <1>8, <1>9, <1>10, BackfillShape
<1> QED
  BY <1>5, <1>8, <1>9, <1>11

\* Rows that are written keep the ids they have.
LEMMA RewrittenColumns ==
  ASSUME TypeOK, NEW w \in DOMAIN works, NEW new \in Work, NEW ids \in SUBSET Ids, Rewritten(w, new, ids),
         \A t \in Types : works[w].ids[t] # NoId => new.ids[t] = works[w].ids[t]
  PROVE  KeepsColumns
<1>1. works'[w] = new /\ \A x \in DOMAIN works : x # w => works'[x] = works[x]
  BY RewrittenShape
<1> QED
  BY <1>1 DEF KeepsColumns

LEMMA UpsertColumns ==
  ASSUME TypeOK, NEW r \in Work, NEW seen \in Work, NEW d,
         d.first \in 0..MaxWorks, d.against \in SUBSET Names,
         Upsert(d, r, seen), UNCHANGED <<file, cites, became>>,
         d.plan = "merge" /\ d.first \in DOMAIN works => works[d.first] = seen
  PROVE  KeepsColumns
<1>1. CASE Mint(r)
  <2>1. \A w \in DOMAIN works : works'[w] = works[w]
    BY <1>1, MintShape
  <2> QED
    BY <2>1 DEF KeepsColumns
<1>2. ASSUME d.plan = "merge", d.first \in DOMAIN works,
             Rewritten(d.first, Backfill(works[d.first], seen, r), Pairs(StrongIds(r)))
      PROVE  KeepsColumns
  <2>1. PICK w \in DOMAIN works : w = d.first /\ works[w] = seen
    BY <1>2
  <2>2. PICK new : new = Backfill(works[w], seen, r)
    OBVIOUS
  <2>3. /\ Backfill(works[w], seen, r) \in Work
        /\ \A t \in Types : Backfill(works[w], seen, r).ids[t] =
             IF seen.ids[t] = NoId /\ StrongIds(r)[t] # NoId THEN StrongIds(r)[t] ELSE works[w].ids[t]
    <3>1. works[w] \in Work
      BY DEF TypeOK
    <3> QED
      BY <3>1, BackfillShape
  <2>4. new \in Work /\ \A t \in Types : works[w].ids[t] # NoId => new.ids[t] = works[w].ids[t]
    BY <2>1, <2>2, <2>3
  <2>5. Rewritten(w, new, Pairs(StrongIds(r))) /\ Pairs(StrongIds(r)) \in SUBSET Ids
    BY <1>2, <2>1, <2>2 DEF Pairs
  <2> QED
    BY <2>4, <2>5, RewrittenColumns
<1> QED
  BY <1>1, <1>2, UpsertShape

LEMMA JobColumns ==
  ASSUME ~Overlap, IdentityInv, NEW c \in Clients, JobStep(c) PROVE KeepsColumns
<1>1. Rows /\ Bonds /\ Reads /\ TypeOK
  BY DEF IdentityInv, Rows
<1>2. ASSUME UNCHANGED works PROVE KeepsColumns
  BY <1>2 DEF KeepsColumns
<1>3. CASE \/ \E r \in Incoming, status \in Standings : Look(c, r, status)
           \/ \E w \in Names : TitlesSelect(c, w) \/ ResolveSelect(c, w)
           \/ \E w \in Names, force \in BOOLEAN : BiblioSelect(c, w, force)
           \/ RollBack(c) \/ TitlesMiss(c) \/ ResolveMiss(c) \/ BiblioGone(c) \/ ResolveAsk(c)
  BY <1>2, <1>3, Zenon DEF Look, TitlesSelect, ResolveSelect, BiblioSelect, tables,
                           RollBack, TitlesMiss, ResolveMiss, BiblioGone, ResolveAsk
<1>4. CASE Store(c)
  <2>1. /\ look[c].job = "upsert" /\ look[c].record \in Work /\ look[c].seen \in Work
        /\ look[c].first \in 0..MaxWorks /\ look[c].against \in SUBSET Names
        /\ Upsert(look[c], look[c].record, look[c].seen) /\ UNCHANGED <<file, cites, became>>
    BY <1>1, <1>4, StoreShape
  <2>2. look[c].plan = "merge" /\ look[c].first \in DOMAIN works => works[look[c].first] = look[c].seen
    BY <1>1, <2>1 DEF Reads, Sees, UpsertSees, Untouched
  <2> QED
    BY <1>1, <2>1, <2>2, UpsertColumns
<1>5. ASSUME NEW title \in Titles, TitlesFold(c, title) PROVE KeepsColumns
  <2>1. PICK d : d = Decision(Fetched(c, title))
    OBVIOUS
  <2>2. /\ look[c].job = "titles" /\ Fetched(c, title) \in Work /\ FoldSees(c, title) \in Work
        /\ d.first \in 0..MaxWorks /\ d.against \in SUBSET Names
        /\ Upsert(d, Fetched(c, title), FoldSees(c, title)) /\ UNCHANGED <<file, cites, became>>
    BY <1>1, <1>5, <2>1, TitlesFoldShape
  <2>3. ASSUME d.plan = "merge", d.first \in DOMAIN works PROVE works[d.first] = FoldSees(c, title)
    <3>1. d.seen = works[d.first]
      BY <1>1, <2>1, <2>2, <2>3, DecisionShape
    <3>2. CASE d.first = look[c].work
      <4>1. works[look[c].work] = look[c].seen
        BY <1>1, <2>2, <2>3, <3>2 DEF Reads, Sees, WorkSees, Untouched
      <4> QED
        BY <2>1, <3>2, <4>1 DEF FoldSees
    <3>3. CASE d.first # look[c].work
      BY <2>1, <3>1, <3>3 DEF FoldSees
    <3> QED
      BY <3>2, <3>3
  <2> QED
    BY <1>1, <2>2, <2>3, UpsertColumns
<1>6. ASSUME NEW cand \in Candidates, ResolveAttach(c, cand) PROVE KeepsColumns
  <2>1. PICK w : w = look[c].work
    OBVIOUS
  <2>2. /\ w \in DOMAIN works /\ Resolved(w, cand) \in Work /\ Free(cand) \in SUBSET Ids
        /\ Rewritten(w, Resolved(w, cand), Free(cand))
    BY <1>1, <1>6, <2>1, ResolvedShape
  <2>3. works[w].ids = Nothing.ids
    BY <1>1, <1>6, <2>1, <2>2 DEF Reads, Sees, WorkSees, Untouched, ResolveAttach
  <2>4. \A t \in Types : works[w].ids[t] = NoId
    BY <2>3 DEF Nothing
  <2> QED
    BY <1>1, <2>2, <2>4, RewrittenColumns
<1>7. ASSUME NEW meta \in Metadata, BiblioApply(c, meta) PROVE KeepsColumns
  <2>1. PICK w : w = look[c].work
    OBVIOUS
  <2>2. PICK new : new = Told(w, meta, look[c].force)
    OBVIOUS
  <2>3. /\ w \in DOMAIN works /\ new \in Work /\ Says(w, meta) \in SUBSET Ids
        /\ \A t \in Types : new.ids[t] = IF t \in New(w, meta) THEN meta.ids[t] ELSE works[w].ids[t]
        /\ \A t \in New(w, meta) : Owned(w, t) = NoId
        /\ Rewritten(w, new, Says(w, meta))
    <3>1. /\ w \in DOMAIN works /\ Told(w, meta, look[c].force) \in Work /\ Says(w, meta) \in SUBSET Ids
          /\ \A t \in Types : Told(w, meta, look[c].force).ids[t] =
               IF t \in New(w, meta) THEN meta.ids[t] ELSE works[w].ids[t]
          /\ \A t \in New(w, meta) : meta.ids[t] # NoId /\ Owned(w, t) = NoId /\ <<t, meta.ids[t]>> \notin DOMAIN owner
          /\ Rewritten(w, Told(w, meta, look[c].force), Says(w, meta))
      BY <1>1, <1>7, <2>1, ToldShape
    <3> QED
      BY <2>2, <3>1
  <2>4. \A t \in Types : works[w].ids[t] # NoId => new.ids[t] = works[w].ids[t]
    BY <1>1, <2>3, OwnedShape DEF New
  <2> QED
    BY <1>1, <2>3, <2>4, RewrittenColumns
<1> QED
  BY <1>3, <1>4, <1>5, <1>6, <1>7 DEF JobStep

LEMMA MergedColumns ==
  ASSUME Rows, NEW i, NEW s \in Names, NEW v \in Names, Merged(i, s, v) PROVE KeepsColumns
<1>1. TypeOK /\ s \in DOMAIN works /\ v \in DOMAIN works /\ s # v /\ MergeWorks(s, v)
  BY DEF Rows, Merged
<1>2. /\ DOMAIN works' = DOMAIN works \ {v}
      /\ works'[s] = Backfill(works[s], works[s], works[v])
      /\ \A w \in DOMAIN works' : works'[w] \in Work /\ (w # s => works'[w] = works[w])
  BY <1>1, MergeShape
<1>3. works[s] \in Work /\ works[v] \in Work
  BY <1>1 DEF TypeOK
<1>4. \A t \in Types : Backfill(works[s], works[s], works[v]).ids[t] =
        IF works[s].ids[t] = NoId /\ StrongIds(works[v])[t] # NoId
        THEN StrongIds(works[v])[t] ELSE works[s].ids[t]
  BY <1>3, BackfillShape
<1>5. \A t \in Types : works[s].ids[t] # NoId => works'[s].ids[t] = works[s].ids[t]
  BY <1>2, <1>4
<1> QED
  BY <1>2, <1>5 DEF KeepsColumns

LEMMA ColumnsStay ==
  ASSUME ~Overlap, IdentityInv, Next PROVE KeepsColumns
<1>1. Rows
  BY DEF IdentityInv
<1>2. ASSUME UNCHANGED works PROVE KeepsColumns
  BY <1>2 DEF KeepsColumns
<1>3. ASSUME NEW v \in Names, NEW w \in Names, Acquire(w) \/ Cite(v, w) PROVE KeepsColumns
  BY <1>2, <1>3 DEF Acquire, Cite
<1>4. ASSUME NEW i, ResolveExclude(i) \/ ResolveReject(i) PROVE KeepsColumns
  BY <1>2, <1>4 DEF ResolveExclude, ResolveReject
<1>5. ASSUME NEW i, NEW survivor \in Names, ResolveMerge(i, survivor) PROVE KeepsColumns
  <2>1. CASE UNCHANGED <<works, minted, owner, member, file, cites, became, look>>
    BY <1>2, <2>1
  <2>2. CASE \E v \in Names : Merged(i, survivor, v)
    BY <1>1, <2>2, MergedColumns
  <2> QED
    BY <1>1, <1>5, <2>1, <2>2, MergeCases
<1>6. ASSUME NEW c \in Clients, JobStep(c) PROVE KeepsColumns
  BY <1>6, JobColumns
<1> QED
  BY <1>3, <1>4, <1>5, <1>6 DEF Next, ReviewStep

\* A pass over titles fills the title of the work it selected and mints nothing,
\* as long as that work is there: a reviewer may merge others into it meanwhile
\* (backfill_titles).
THEOREM TitlesFillOnly ==
  ASSUME OneAtATime, NoAliasDois PROVE Spec => [][TitlesOnlyFill]_vars
<1>1. Init => IdentityInv
  BY IdentityInit
<1>2. IdentityInv /\ [Next]_vars => IdentityInv'
  BY IdentityStep
<1>3. IdentityInv /\ [Next]_vars => [TitlesOnlyFill]_vars
  BY TitlesFill
<1> QED
  BY <1>1, <1>2, <1>3, PTL DEF Spec

\* One job at a time, an id column keeps its value as long as the work exists,
\* whatever is folded into it (backfill, merge_works).
THEOREM ColumnsKept ==
  ASSUME ~Overlap, NoAliasDois PROVE Spec => [][KeepsColumns]_vars
<1>1. OneAtATime
  BY DEF OneAtATime
<1>2. Init => IdentityInv
  BY IdentityInit
<1>3. IdentityInv /\ [Next]_vars => IdentityInv'
  BY <1>1, IdentityStep
<1>4. IdentityInv /\ [Next]_vars => [KeepsColumns]_vars
  BY ColumnsStay
<1> QED
  BY <1>2, <1>3, <1>4, PTL DEF Spec
================================================================================
