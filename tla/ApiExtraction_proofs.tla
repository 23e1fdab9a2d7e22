--------------------------- MODULE ApiExtraction_proofs ---------------------------
(* What the commands that turn papers into notes keep, for any number of works,  *)
(* commands and threads: what may be spent beyond a limit, what of it is logged,  *)
(* and how a paper's note follows from its chunks.                               *)
EXTENDS ApiExtraction, TLAPS, FiniteSetTheorems, SequenceTheorems, WellFoundedInduction

-----------------------------------------------------------------------------
(* The inductive invariant. *)

ThreadPcs ==
  {"idle", "admit", "admitchunks", "call", "save", "account",
   "chunk", "chunkcall", "chunkrow", "usage", "reduce"}
ChunkPcs == {"chunk", "chunkcall", "chunkrow", "usage", "reduce"}
CallPcs  == {"call", "save", "account", "chunkcall", "chunkrow"}
MapStatus == {"success", "extraction_failed", "skipped_oversize_section", "skipped_budget"}

AnyThread ==
  [pc : ThreadPcs, work : NoteWorks \cup {NoText}, text : Nat \cup {NoText}, cost : Nat, good : BOOLEAN,
   paper : Nat, chunk : Nat, spent : Nat]
AnyCommand ==
  [kind : CommandKinds \cup {"none"}, left : SUBSET NoteWorks, month : Nat, prior : Nat, spent : Nat, stopped : BOOLEAN]
AnyMap == [index : Nat, status : MapStatus]
AnyPaper ==
  [work : NoteWorks, text : Nat, count : Nat, maps : Seq(AnyMap),
   status : MapStatus \cup {"open"}]
AnyNote == [work : NoteWorks, text : Nat, by : {"whole", "chunked"}]

ApiTypeOK ==
  /\ noteCfg \in AnyNoteConfig
  /\ text \in [NoteWorks -> Nat \cup {NoText}]
  /\ command \in [Commands -> AnyCommand]
  /\ threads \in [NoteThreads -> AnyThread]
  /\ papers \in Seq(AnyPaper)
  /\ notes \in Seq(AnyNote)
  /\ billed \in Nat /\ logged \in Nat /\ noteFaults \in Nat

\* A busy thread has a work and a command that runs; a sequential command has one thread.
ControlAt(t) ==
  /\ threads[t].pc # "idle" => threads[t].work \in NoteWorks /\ Running(Of(t))
  /\ Mine(t).kind \in SequentialKinds /\ t[2] # 1 => threads[t].pc = "idle"
  /\ threads[t].pc \notin {"idle", "admit", "admitchunks"} => threads[t].text \in Nat

\* What a thread has been billed and has not yet logged; past the limit the latch is closed.
CostsAt(t) ==
  /\ threads[t].cost <= MaxCost
  /\ threads[t].pc \notin {"save", "account", "chunkrow"} => threads[t].cost = 0
  /\ threads[t].pc \notin {"chunk", "chunkcall", "chunkrow", "usage"} => threads[t].spent = 0
  /\ noteCfg.perRun # NoLimit =>
       /\ threads[t].spent <= Over(noteCfg.perRun, 0) + MaxCost
       /\ threads[t].pc \in {"chunkcall", "chunkrow"} => threads[t].spent <= Over(noteCfg.perRun, 0)
       /\ threads[t].pc = "chunk" => threads[t].spent <= Over(noteCfg.perRun, 0) \/ Mine(t).stopped

ThreadsOK == \A t \in NoteThreads : ControlAt(t) /\ CostsAt(t)

\* Only a call that had begun when the latch closed can still add to the spend.
InCall(c) == {t \in NoteThreads : Of(t) = c /\ threads[t].pc \in CallPcs}

BudgetAt(c) ==
  noteCfg.monthly # NoLimit =>
    \/ command[c].spent <= Over(noteCfg.monthly, command[c].prior)
    \/ /\ command[c].stopped
       /\ command[c].spent + Cardinality(InCall(c)) * MaxCost
            <= Over(noteCfg.monthly, command[c].prior) + Pool(c) * MaxCost

BudgetOK == \A c \in Commands : BudgetAt(c)

ApiInv == ApiTypeOK /\ ThreadsOK /\ BudgetOK

-----------------------------------------------------------------------------
(* One thread moves. *)

LEMMA ThreadIsAPair ==
  ASSUME NEW t \in NoteThreads
  PROVE  /\ Of(t) \in Commands /\ t[2] \in Nat
         /\ \A u \in NoteThreads : Of(u) = Of(t) /\ u[2] = t[2] => u = t
BY ApiAssumption DEF Of

LEMMA OverIsNat ==
  ASSUME NEW l \in Nat, NEW p \in Nat
  PROVE  Over(l, p) \in Nat
BY DEF Over

LEMMA IdleIsAThread == Idle \in AnyThread /\ Off \in AnyCommand
BY DEF Idle, AnyThread, ThreadPcs, Off, AnyCommand

LEMMA OneThread ==
  ASSUME ApiTypeOK, ThreadsOK, NEW t \in NoteThreads,
         threads' = [threads EXCEPT ![t] = threads'[t]], threads'[t] \in AnyThread,
         ControlAt(t)', CostsAt(t)', noteCfg' = noteCfg,
         \A c \in Commands : /\ command'[c].kind = command[c].kind
                             /\ command[c].stopped => command'[c].stopped
  PROVE  threads' \in [NoteThreads -> AnyThread] /\ ThreadsOK'
<1>1. threads' \in [NoteThreads -> AnyThread] /\ \A u \in NoteThreads : u # t => threads'[u] = threads[u]
  BY DEF ApiTypeOK
<1>2. ASSUME NEW u \in NoteThreads, u # t PROVE (ControlAt(u) /\ CostsAt(u))'
  <2>1. ControlAt(u) /\ CostsAt(u) /\ threads'[u] = threads[u] /\ Of(u) \in Commands
    BY <1>1, <1>2, ThreadIsAPair DEF ThreadsOK
  <2> QED BY <2>1 DEF ControlAt, CostsAt, Mine, Running, Of
<1> QED BY <1>1, <1>2 DEF ThreadsOK

\* The budget of a command while none of its threads begins or ends a call.
LEMMA SameBudget ==
  ASSUME ApiTypeOK, BudgetOK, NEW t \in NoteThreads,
         threads' = [threads EXCEPT ![t] = threads'[t]],
         threads'[t].pc \in CallPcs => threads[t].pc \in CallPcs \/ ~Mine(t).stopped,
         noteCfg' = noteCfg,
         \A c \in Commands : /\ command'[c].prior = command[c].prior
                             /\ command'[c].spent = command[c].spent
                             /\ command'[c].stopped = command[c].stopped
  PROVE  BudgetOK'
<1> SUFFICES ASSUME NEW c \in Commands PROVE BudgetAt(c)'
  BY DEF BudgetOK
<1>1. BudgetAt(c) /\ \A u \in NoteThreads : u # t => threads'[u] = threads[u]
  BY DEF BudgetOK, ApiTypeOK
<1>2. CASE noteCfg.monthly = NoLimit
  BY <1>2 DEF BudgetAt
<1>3. CASE command[c].spent <= Over(noteCfg.monthly, command[c].prior)
  BY <1>3 DEF BudgetAt, Over
<1>4. CASE noteCfg.monthly # NoLimit /\ ~(command[c].spent <= Over(noteCfg.monthly, command[c].prior))
  <2>1. command[c].stopped
    BY <1>1, <1>4 DEF BudgetAt
  <2>2. InCall(c)' \in SUBSET InCall(c)
    BY <1>1, <2>1 DEF InCall, Mine, Of
  <2>3. IsFiniteSet(InCall(c)) /\ IsFiniteSet(InCall(c)')
        /\ Cardinality(InCall(c)') <= Cardinality(InCall(c))
    <3>1. IsFiniteSet(InCall(c))
      <4>1. InCall(c) \in SUBSET NoteThreads
        BY DEF InCall
      <4> QED BY <4>1, FS_Subset, ApiAssumption
    <3> QED BY <2>2, <3>1, FS_Subset
  <2>4. Cardinality(InCall(c)) \in Nat /\ Cardinality(InCall(c)') \in Nat /\ MaxCost \in Nat
    BY <2>3, FS_CardinalityType, ApiAssumption
  <2>5. Cardinality(InCall(c)') * MaxCost <= Cardinality(InCall(c)) * MaxCost
    <3> DEFINE a == Cardinality(InCall(c)')  b == Cardinality(InCall(c))
    <3>1. \A x, y, z \in Nat : x <= y => x * z <= y * z
      OBVIOUS
    <3> QED BY <2>3, <2>4, <3>1
  <2>6. Pool(c)' = Pool(c) /\ Over(noteCfg.monthly, command[c].prior)' = Over(noteCfg.monthly, command[c].prior)
    BY DEF Pool, Over, Of
  <2>7. command[c].spent + Cardinality(InCall(c)) * MaxCost
            <= Over(noteCfg.monthly, command[c].prior) + Pool(c) * MaxCost
    BY <1>1, <1>4 DEF BudgetAt
  <2>8. command[c].spent \in Nat /\ Over(noteCfg.monthly, command[c].prior) \in Nat /\ Pool(c) \in Nat
    <3>1. command[c] \in AnyCommand /\ noteCfg.monthly \in Nat
      BY <1>4 DEF ApiTypeOK, AnyNoteConfig
    <3>2. {u \in NoteThreads : Of(u) = c} \in SUBSET NoteThreads
      OBVIOUS
    <3>3. IsFiniteSet({u \in NoteThreads : Of(u) = c})
      BY <3>2, FS_Subset, ApiAssumption
    <3> QED BY <3>1, <3>3, FS_CardinalityType, OverIsNat DEF AnyCommand, Pool
  <2>9. command'[c].spent + Cardinality(InCall(c)') * MaxCost
            <= Over(noteCfg.monthly, command[c].prior)' + Pool(c)' * MaxCost
    <3> DEFINE x == Cardinality(InCall(c)') * MaxCost
               y == Cardinality(InCall(c)) * MaxCost
               z == Pool(c) * MaxCost
    <3>1. x \in Nat /\ y \in Nat /\ z \in Nat /\ x <= y
      BY <2>4, <2>5, <2>8
    <3>2. command[c].spent + y <= Over(noteCfg.monthly, command[c].prior) + z
      BY <2>7
    <3>3. command[c].spent + x <= Over(noteCfg.monthly, command[c].prior) + z
      <4> HIDE DEF x, y, z
      <4> QED BY <2>8, <3>1, <3>2
    <3> QED BY <2>6, <3>3
  <2> QED BY <2>1, <2>9 DEF BudgetAt
<1> QED BY <1>2, <1>3, <1>4

\* Of the threads of a command at most all are in a call.
LEMMA PoolIsFinite ==
  ASSUME NEW c \in Commands
  PROVE  /\ IsFiniteSet(InCall(c)) /\ Cardinality(InCall(c)) \in Nat /\ Pool(c) \in Nat
         /\ Cardinality(InCall(c)) <= Pool(c)
<1> DEFINE mine == {u \in NoteThreads : Of(u) = c}
<1>1. mine \in SUBSET NoteThreads /\ InCall(c) \in SUBSET mine
  BY DEF InCall
<1>2. IsFiniteSet(mine)
  BY <1>1, FS_Subset, ApiAssumption
<1>3. IsFiniteSet(InCall(c)) /\ Cardinality(InCall(c)) <= Cardinality(mine)
  <2> HIDE DEF mine
  <2> QED BY <1>1, <1>2, FS_Subset
<1> QED BY <1>2, <1>3, FS_CardinalityType DEF Pool

\* A call ends and its cost is added: the spend grows by no more than was set aside for it.
LEMMA SpentBudget ==
  ASSUME ApiTypeOK, BudgetOK, NEW t \in NoteThreads, NEW perRun \in Nat,
         threads' = [threads EXCEPT ![t] = threads'[t]],
         threads[t].pc \in CallPcs, threads'[t].pc \notin CallPcs, threads[t].cost <= MaxCost,
         noteCfg' = noteCfg, command' = Spend(Of(t), threads[t].cost, perRun)
  PROVE  BudgetOK'
<1> SUFFICES ASSUME NEW c \in Commands, noteCfg.monthly # NoLimit PROVE BudgetAt(c)'
  BY DEF BudgetOK, BudgetAt
<1> DEFINE over == Over(noteCfg.monthly, command[c].prior)
           n == Cardinality(InCall(c))
<1>1. BudgetAt(c) /\ (\A u \in NoteThreads : u # t => threads'[u] = threads[u]) /\ Of(t) \in Commands
  BY ThreadIsAPair DEF BudgetOK, ApiTypeOK
<1>2. /\ command[c] \in AnyCommand /\ noteCfg.monthly \in Nat /\ threads[t] \in AnyThread
      /\ command[c].spent \in Nat /\ command[c].prior \in Nat /\ threads[t].cost \in Nat /\ MaxCost \in Nat
  BY ApiAssumption DEF ApiTypeOK, AnyNoteConfig, AnyCommand, AnyThread
<1>3. over \in Nat /\ n \in Nat /\ Pool(c) \in Nat /\ n <= Pool(c) /\ IsFiniteSet(InCall(c))
  BY <1>2, PoolIsFinite, OverIsNat
<1>4. CASE c # Of(t)
  <2>1. command'[c] = command[c]
    BY <1>4 DEF Spend, ApiTypeOK
  <2>2. InCall(c)' = InCall(c)
    BY <1>1, <1>4 DEF InCall, Of
  <2> QED BY <1>1, <2>1, <2>2 DEF BudgetAt, Over, Pool, Of
<1>5. CASE c = Of(t)
  <2>1. InCall(c)' = InCall(c) \ {t} /\ t \in InCall(c)
    BY <1>1, <1>5 DEF InCall, Of, ApiTypeOK
  <2>2. Cardinality(InCall(c)') = n - 1
    BY <1>3, <2>1, FS_RemoveElement
  <2>3. /\ command'[c].spent = command[c].spent + threads[t].cost
        /\ command'[c].prior = command[c].prior
        /\ command'[c].stopped \in BOOLEAN
        /\ command[c].stopped => command'[c].stopped
        /\ command[c].prior + (command[c].spent + threads[t].cost) >= noteCfg.monthly => command'[c].stopped
    BY <1>2, <1>5 DEF Spend, ApiTypeOK, AnyCommand
  <2>4. CASE command[c].spent <= over /\ ~command'[c].stopped
    <3>1. ~(command[c].prior + (command[c].spent + threads[t].cost) >= noteCfg.monthly)
      BY <2>3, <2>4
    <3>2. command[c].spent + threads[t].cost <= over
      BY <1>2, <3>1 DEF Over
    <3> QED BY <2>3, <3>2 DEF BudgetAt, Over
  <2>5. CASE command[c].spent <= over /\ command'[c].stopped
    <3>1. \A s, k, o, m, p, q \in Nat : s <= o /\ k <= m /\ p <= q /\ p > 0 => s + k + (p - 1) * m <= o + q * m
      <4> TAKE s, k, o, m, p, q \in Nat
      <4> HAVE s <= o /\ k <= m /\ p <= q /\ p > 0
      <4>1. (p - 1) * m = p * m - m
        OBVIOUS
      <4>2. p * m <= q * m
        OBVIOUS
      <4>3. p * m \in Nat /\ q * m \in Nat
        OBVIOUS
      <4> HIDE DEF over, n
      <4> QED BY <4>1, <4>2, <4>3
    <3>2. n > 0
      BY <1>3, <2>1, FS_EmptySet
    <3>3. command[c].spent + threads[t].cost + (n - 1) * MaxCost <= over + Pool(c) * MaxCost
      <4> HIDE DEF over, n
      <4> QED BY <1>2, <1>3, <2>5, <3>1, <3>2
    <3> QED BY <2>2, <2>3, <2>5, <3>3 DEF BudgetAt, Over, Pool, Of
  <2>6. CASE ~(command[c].spent <= over)
    <3>1. command[c].stopped /\ command[c].spent + n * MaxCost <= over + Pool(c) * MaxCost
      BY <1>1, <2>6 DEF BudgetAt
    <3>2. \A s, k, m, p, b \in Nat : k <= m /\ s + p * m <= b => s + k + (p - 1) * m <= b
      <4> TAKE s, k, m, p, b \in Nat
      <4>1. (p - 1) * m = p * m - m /\ p * m \in Nat
        OBVIOUS
      <4> HIDE DEF over, n
      <4> QED BY <4>1
    <3>3. over + Pool(c) * MaxCost \in Nat
      BY <1>2, <1>3
    <3>4. command[c].spent + threads[t].cost + (n - 1) * MaxCost <= over + Pool(c) * MaxCost
      <4> HIDE DEF over, n
      <4> QED BY <1>2, <1>3, <3>1, <3>2, <3>3
    <3> QED BY <2>2, <2>3, <3>1, <3>4 DEF BudgetAt, Over, Pool, Of
  <2> QED BY <2>3, <2>4, <2>5, <2>6
<1> QED BY <1>4, <1>5

\* Adding to the spend of a command changes nothing else of any command, and never opens
\* its latch.
LEMMA SpendAdds ==
  ASSUME ApiTypeOK, NEW d \in Commands, NEW cost \in Nat, NEW perRun \in Nat,
         command' = Spend(d, cost, perRun)
  PROVE  /\ command' \in [Commands -> AnyCommand]
         /\ \A c \in Commands : /\ command'[c].kind = command[c].kind
                                /\ command'[c].left = command[c].left
                                /\ command[c].stopped => command'[c].stopped
         /\ noteCfg.perRun # NoLimit /\ perRun >= noteCfg.perRun => command'[d].stopped
<1>1. command[d] \in AnyCommand /\ command \in [Commands -> AnyCommand] /\ noteCfg \in AnyNoteConfig
  BY DEF ApiTypeOK
<1>2. command[d].spent + cost \in Nat
  BY <1>1 DEF AnyCommand
<1>3. PICK b \in BOOLEAN :
        /\ command' = [command EXCEPT ![d].spent = command[d].spent + cost, ![d].stopped = b]
        /\ command[d].stopped => b
        /\ noteCfg.perRun # NoLimit /\ perRun >= noteCfg.perRun => b
  <2> DEFINE b == \/ command[d].stopped
                  \/ noteCfg.perRun # NoLimit /\ perRun >= noteCfg.perRun
                  \/ noteCfg.monthly # NoLimit /\ command[d].prior + (command[d].spent + cost) >= noteCfg.monthly
  <2>1. b \in BOOLEAN
    OBVIOUS
  <2>2. command' = [command EXCEPT ![d].spent = command[d].spent + cost, ![d].stopped = b]
    BY <1>1 DEF Spend, AnyCommand
  <2> QED BY <2>1, <2>2
<1>4. /\ command'[d] = [command[d] EXCEPT !.spent = command[d].spent + cost, !.stopped = b]
      /\ \A c \in Commands : c # d => command'[c] = command[c]
      /\ DOMAIN command' = Commands
  BY <1>1, <1>3
<1>5. command'[d] \in AnyCommand
  BY <1>1, <1>2, <1>4 DEF AnyCommand
<1>6. command' \in [Commands -> AnyCommand]
  BY <1>1, <1>3, <1>4, <1>5
<1> QED BY <1>1, <1>3, <1>4, <1>6 DEF AnyCommand

\* A verdict that lets a work go, or sends it on to its chunks, was given on a text.
LEMMA VerdictsHaveText ==
  ASSUME NEW t \in NoteThreads
  PROVE  /\ Verdict(t) \in {"go", "skipped_oversize"} \/ ChunkVerdict(t) = "go" =>
              /\ text[threads[t].work] # NoText /\ ~Mine(t).stopped
              /\ ~HasNote(threads[t].work, text[threads[t].work])
         /\ ChunkVerdict(t) = "go" => noteCfg.chunks[threads[t].work] # << >>
BY DEF Verdict, ChunkVerdict, Shared

-----------------------------------------------------------------------------
(* The steps. *)

\* An idle thread owes nothing.
LEMMA IdleCosts ==
  ASSUME NEW t, threads[t] = Idle, noteCfg.perRun # NoLimit => Over(noteCfg.perRun, 0) \in Nat
  PROVE  CostsAt(t)
BY ApiAssumption DEF CostsAt, Idle

LEMMA IdleCostsNext ==
  ASSUME ApiTypeOK, noteCfg' = noteCfg, NEW t, threads'[t] = Idle
  PROVE  CostsAt(t)'
<1>1. noteCfg.perRun # NoLimit => Over(noteCfg.perRun, 0) \in Nat
  BY OverIsNat DEF AnyNoteConfig, ApiTypeOK
<1>2. Over(noteCfg.perRun, 0)' = Over(noteCfg.perRun, 0)
  BY DEF Over
<1> QED BY <1>1, <1>2, ApiAssumption DEF CostsAt, Idle

LEMMA ApiInitHolds ==
  ASSUME ApiInit
  PROVE  ApiInv
<1>1. noteCfg \in AnyNoteConfig
  BY ApiAssumption DEF ApiInit
<1>2. ApiTypeOK
  BY <1>1, IdleIsAThread DEF ApiInit, ApiStart, ApiTypeOK, AnyNoteConfig
<1>3. ThreadsOK
  <2>1. noteCfg.perRun # NoLimit => Over(noteCfg.perRun, 0) \in Nat
    BY <1>1, OverIsNat DEF AnyNoteConfig
  <2>2. ASSUME NEW t \in NoteThreads PROVE ControlAt(t)
    BY ThreadIsAPair DEF ApiInit, ApiStart, ControlAt, Idle, Off, Mine
  <2>3. ASSUME NEW t \in NoteThreads PROVE CostsAt(t)
    <3>1. threads[t] = Idle
      BY DEF ApiInit, ApiStart
    <3> QED BY <2>1, <3>1, IdleCosts
  <2> QED BY <2>2, <2>3 DEF ThreadsOK
<1>4. BudgetOK
  <2>1. noteCfg.monthly # NoLimit => Over(noteCfg.monthly, 0) \in Nat
    BY <1>1, OverIsNat DEF AnyNoteConfig
  <2>2. \A c \in Commands : command[c].spent = 0 /\ command[c].prior = 0
    BY DEF ApiInit, ApiStart, Off
  <2>3. \A n \in Nat : 0 <= n
    OBVIOUS
  <2> QED BY <2>1, <2>2, <2>3 DEF BudgetOK, BudgetAt
<1> QED BY <1>2, <1>3, <1>4 DEF ApiInv

\* The thread steps that neither end a call nor touch a command.
LEMMA QuietStep ==
  ASSUME ApiInv, NEW t \in NoteThreads,
         threads' = [threads EXCEPT ![t] = threads'[t]], threads'[t] \in AnyThread,
         threads[t].pc # "idle",
         threads'[t].pc \in CallPcs => threads[t].pc \in CallPcs \/ ~Mine(t).stopped,
         threads'[t].pc # "idle" => threads'[t].work = threads[t].work,
         threads'[t].pc \notin {"idle", "admit", "admitchunks"} => threads'[t].text \in Nat,
         CostsAt(t)',
         UNCHANGED <<noteCfg, text, command, noteFaults>>,
         papers' \in Seq(AnyPaper), notes' \in Seq(AnyNote), billed' \in Nat, logged' \in Nat
  PROVE  ApiInv'
<1>1. ApiTypeOK /\ ThreadsOK /\ BudgetOK /\ ControlAt(t)
  BY DEF ApiInv, ThreadsOK
<1>2. ControlAt(t)'
  BY <1>1 DEF ControlAt, Mine, Running, Of
<1>3. threads' \in [NoteThreads -> AnyThread] /\ ThreadsOK'
  BY <1>1, <1>2, OneThread
<1>4. BudgetOK'
  BY <1>1, SameBudget
<1>5. ApiTypeOK'
  BY <1>1, <1>3 DEF ApiTypeOK
<1> QED BY <1>3, <1>4, <1>5 DEF ApiInv

LEMMA AdmitStep ==
  ASSUME ApiInv, NEW t \in NoteThreads, Admit(t)
  PROVE  ApiInv'
<1>1. /\ ApiTypeOK /\ ControlAt(t) /\ CostsAt(t) /\ threads[t] \in AnyThread
      /\ noteCfg \in AnyNoteConfig /\ threads \in [NoteThreads -> AnyThread]
  BY DEF ApiInv, ThreadsOK, ApiTypeOK
<1>2. threads[t].pc = "admit" /\ threads[t].work \in NoteWorks
  BY <1>1 DEF Admit, ControlAt
<1>3. \/ /\ threads' = [threads EXCEPT ![t] = Idle]
      \/ /\ \E pc \in {"call", "admitchunks"} : threads' = Go(t, pc)
         /\ text[threads[t].work] \in Nat /\ ~Mine(t).stopped
  <2>1. text[threads[t].work] \in Nat \cup {NoText}
    BY <1>1, <1>2 DEF ApiTypeOK
  <2> QED BY <2>1, VerdictsHaveText DEF Admit
<1>4. CASE threads' = [threads EXCEPT ![t] = Idle]
  <2>1. threads'[t] = Idle
    BY <1>1, <1>4
  <2>2. CostsAt(t)'
    BY <1>1, <2>1, IdleCostsNext DEF Admit
  <2>3. threads' = [threads EXCEPT ![t] = threads'[t]]
    BY <1>4, <2>1
  <2>4. threads'[t] \in AnyThread /\ threads'[t].pc = "idle"
    BY <2>1, IdleIsAThread DEF Idle
  <2> QED BY <1>1, <1>2, <2>2, <2>3, <2>4, QuietStep DEF Admit, ApiInv, ApiTypeOK, CallPcs
<1>5. ASSUME NEW pc \in {"call", "admitchunks"}, threads' = Go(t, pc), text[threads[t].work] \in Nat, ~Mine(t).stopped
      PROVE  ApiInv'
  <2>1. /\ threads'[t] = [threads[t] EXCEPT !.pc = pc, !.text = text[threads[t].work]]
        /\ threads' = [threads EXCEPT ![t] = threads'[t]]
    BY <1>1, <1>5 DEF Go
  <2>2. /\ threads'[t] \in AnyThread /\ threads'[t].pc = pc /\ threads'[t].work = threads[t].work
        /\ threads'[t].text \in Nat /\ threads'[t].cost = threads[t].cost /\ threads'[t].spent = threads[t].spent
    BY <1>1, <1>5, <2>1 DEF AnyThread, ThreadPcs
  <2>3. CostsAt(t)'
    BY <1>1, <1>2, <2>2 DEF CostsAt, Admit, Over
  <2> QED BY <1>1, <1>2, <1>5, <2>1, <2>2, <2>3, QuietStep DEF Admit, ApiInv, ApiTypeOK
<1> QED BY <1>3, <1>4, <1>5

LEMMA AnswerStep ==
  ASSUME ApiInv, NEW t \in NoteThreads, NEW good \in BOOLEAN, NEW cost \in 0 .. MaxCost, Answer(t, good, cost)
  PROVE  ApiInv'
<1>1. /\ ApiTypeOK /\ ControlAt(t) /\ CostsAt(t) /\ threads[t] \in AnyThread
      /\ noteCfg \in AnyNoteConfig /\ threads \in [NoteThreads -> AnyThread] /\ cost \in Nat /\ cost <= MaxCost
  BY ApiAssumption DEF ApiInv, ThreadsOK, ApiTypeOK
<1>2. PICK pc \in {"save", "chunkrow"} :
        /\ pc = IF threads[t].pc = "call" THEN "save" ELSE "chunkrow"
        /\ threads' = [threads EXCEPT ![t].pc = pc, ![t].good = good, ![t].cost = cost]
  BY <1>1 DEF Answer
<1>3. /\ threads'[t] = [threads[t] EXCEPT !.pc = pc, !.good = good, !.cost = cost]
      /\ threads' = [threads EXCEPT ![t] = threads'[t]]
  BY <1>1, <1>2
<1>4. /\ threads'[t] \in AnyThread /\ threads'[t].pc = pc /\ threads'[t].work = threads[t].work
      /\ threads'[t].text = threads[t].text /\ threads'[t].cost = cost /\ threads'[t].spent = threads[t].spent
  BY <1>1, <1>3 DEF AnyThread, ThreadPcs
<1>5. threads[t].pc \in {"call", "chunkcall"}
  BY DEF Answer
<1>6. CostsAt(t)'
  BY <1>1, <1>2, <1>4, <1>5 DEF CostsAt, Answer, Over
<1>7. billed' \in Nat
  BY <1>1 DEF Answer, ApiTypeOK
<1> QED BY <1>1, <1>3, <1>4, <1>5, <1>6, <1>7, QuietStep DEF Answer, ControlAt, ApiInv, ApiTypeOK, CallPcs

LEMMA SaveStep ==
  ASSUME ApiInv, NEW t \in NoteThreads, Save(t)
  PROVE  ApiInv'
<1>1. /\ ApiTypeOK /\ ControlAt(t) /\ CostsAt(t) /\ threads[t] \in AnyThread
      /\ noteCfg \in AnyNoteConfig /\ threads \in [NoteThreads -> AnyThread]
  BY DEF ApiInv, ThreadsOK, ApiTypeOK
<1>2. threads[t].pc = "save" /\ threads[t].work \in NoteWorks /\ threads[t].text \in Nat
  BY <1>1 DEF Save, ControlAt
<1>3. /\ threads'[t] = [threads[t] EXCEPT !.pc = "account"]
      /\ threads' = [threads EXCEPT ![t] = threads'[t]]
  BY <1>1 DEF Save
<1>4. /\ threads'[t] \in AnyThread /\ threads'[t].pc = "account" /\ threads'[t].work = threads[t].work
      /\ threads'[t].text = threads[t].text /\ threads'[t].cost = threads[t].cost
      /\ threads'[t].spent = threads[t].spent
  BY <1>1, <1>3 DEF AnyThread, ThreadPcs
<1>5. CostsAt(t)'
  BY <1>1, <1>2, <1>4 DEF CostsAt, Save, Over
<1>6. notes' \in Seq(AnyNote)
  <2>1. notes \in Seq(AnyNote)
    BY <1>1 DEF ApiTypeOK
  <2>2. [work |-> threads[t].work, text |-> threads[t].text, by |-> "whole"] \in AnyNote
    BY <1>2 DEF AnyNote
  <2> QED BY <2>1, <2>2, AppendProperties DEF Save, Noted
<1> QED BY <1>1, <1>2, <1>3, <1>4, <1>5, <1>6, QuietStep DEF Save, ApiInv, ApiTypeOK, CallPcs

LEMMA AdmitChunksStep ==
  ASSUME ApiInv, NEW t \in NoteThreads, AdmitChunks(t)
  PROVE  ApiInv'
<1>1. /\ ApiTypeOK /\ ControlAt(t) /\ CostsAt(t) /\ threads[t] \in AnyThread
      /\ noteCfg \in AnyNoteConfig /\ threads \in [NoteThreads -> AnyThread]
  BY DEF ApiInv, ThreadsOK, ApiTypeOK
<1>2. threads[t].pc = "admitchunks" /\ threads[t].work \in NoteWorks
  BY <1>1 DEF AdmitChunks, ControlAt
<1>3. CASE ChunkVerdict(t) # "go"
  <2>1. threads'[t] = Idle /\ threads' = [threads EXCEPT ![t] = threads'[t]]
    BY <1>1, <1>3 DEF AdmitChunks
  <2>2. CostsAt(t)'
    BY <1>1, <2>1, IdleCostsNext DEF AdmitChunks
  <2> QED BY <1>1, <1>2, <1>3, <2>1, <2>2, IdleIsAThread, QuietStep DEF AdmitChunks, Idle, ApiInv, ApiTypeOK, CallPcs
<1>4. CASE ChunkVerdict(t) = "go"
  <2>0. text[threads[t].work] \in Nat /\ ~Mine(t).stopped /\ Len(papers) + 1 \in Nat
    BY <1>1, <1>2, <1>4, VerdictsHaveText DEF ApiTypeOK
  <2>1. /\ threads'[t] = [pc |-> "chunk", work |-> threads[t].work, text |-> text[threads[t].work],
                          cost |-> threads[t].cost, good |-> threads[t].good,
                          paper |-> Len(papers) + 1, chunk |-> 1, spent |-> threads[t].spent]
        /\ threads' = [threads EXCEPT ![t] = threads'[t]]
    BY <1>1, <1>4 DEF AdmitChunks, Go, AnyThread
  <2>2. /\ threads'[t] \in AnyThread /\ threads'[t].pc = "chunk" /\ threads'[t].work = threads[t].work
        /\ threads'[t].text \in Nat /\ threads'[t].cost = threads[t].cost /\ threads'[t].spent = threads[t].spent
    BY <1>1, <2>0, <2>1 DEF AnyThread, ThreadPcs
  <2>3. CostsAt(t)'
    <3>1. noteCfg.perRun # NoLimit => Over(noteCfg.perRun, 0) \in Nat
      BY <1>1, OverIsNat DEF AnyNoteConfig
    <3> QED BY <1>1, <1>2, <2>2, <3>1 DEF CostsAt, AdmitChunks, Over
  <2>4. papers' \in Seq(AnyPaper)
    <3>1. papers \in Seq(AnyPaper)
      BY <1>1 DEF ApiTypeOK
    <3>2. [work |-> threads[t].work, text |-> text[threads[t].work], count |-> Len(noteCfg.chunks[threads[t].work]),
           maps |-> << >>, status |-> "open"] \in AnyPaper
      BY <1>1, <1>2, <2>0 DEF AnyPaper, AnyNoteConfig
    <3> QED BY <1>4, <3>1, <3>2, AppendProperties DEF AdmitChunks
  <2> QED BY <1>1, <1>2, <2>0, <2>1, <2>2, <2>3, <2>4, QuietStep DEF AdmitChunks, ApiInv, ApiTypeOK, CallPcs
<1> QED BY <1>3, <1>4

LEMMA ExceptNowhere ==
  ASSUME NEW S, NEW s \in Seq(S), NEW i, i \notin DOMAIN s, NEW e
  PROVE  [s EXCEPT ![i] = e] \in Seq(S)
<1>1. s \in [1 .. Len(s) -> S] /\ Len(s) \in Nat
  OBVIOUS
<1>2. [s EXCEPT ![i] = e] \in [1 .. Len(s) -> S]
  BY <1>1
<1> QED BY <1>1, <1>2

\* A chunk's run is added to its paper.
LEMMA MappedIsPapers ==
  ASSUME ApiTypeOK, NEW t \in NoteThreads, NEW status \in MapStatus, Mapped(t, status)
  PROVE  papers' \in Seq(AnyPaper)
<1> DEFINE i == threads[t].paper
           row == [index |-> threads[t].chunk, status |-> status]
<1>1. papers \in Seq(AnyPaper) /\ papers' = [papers EXCEPT ![i].maps = Append(@, row)]
  BY DEF ApiTypeOK, Mapped
<1>2. row \in AnyMap
  BY DEF ApiTypeOK, AnyThread, AnyMap
<1> HIDE DEF row, i
<1>3. CASE i \notin DOMAIN papers
  <2>1. PICK e : papers' = [papers EXCEPT ![i] = e]
    BY <1>1
  <2> QED BY <1>1, <1>3, <2>1, ExceptNowhere
<1>4. CASE i \in DOMAIN papers
  <2>1. papers[i] \in AnyPaper
    BY <1>1, <1>4
  <2>2. Append(papers[i].maps, row) \in Seq(AnyMap)
    BY <1>2, <2>1, AppendProperties DEF AnyPaper
  <2>3. [papers[i] EXCEPT !.maps = Append(@, row)] \in AnyPaper
    BY <2>1, <2>2 DEF AnyPaper
  <2>4. papers' = [papers EXCEPT ![i] = [papers[i] EXCEPT !.maps = Append(@, row)]]
    BY <1>1, <1>4, <2>1 DEF AnyPaper
  <2> QED BY <1>1, <1>4, <2>3, <2>4, ExceptSeq
<1> QED BY <1>3, <1>4

LEMMA ChunkStep ==
  ASSUME ApiInv, NEW t \in NoteThreads, Chunk(t)
  PROVE  ApiInv'
<1>1. /\ ApiTypeOK /\ ControlAt(t) /\ CostsAt(t) /\ threads[t] \in AnyThread
      /\ noteCfg \in AnyNoteConfig /\ threads \in [NoteThreads -> AnyThread]
  BY DEF ApiInv, ThreadsOK, ApiTypeOK
<1>2. threads[t].pc = "chunk" /\ threads[t].work \in NoteWorks /\ threads[t].text \in Nat
  BY <1>1 DEF Chunk, ControlAt
<1>3. PICK pc \in {"chunk", "chunkcall", "usage"}, chunk \in Nat :
        /\ threads' = [threads EXCEPT ![t].pc = pc, ![t].chunk = chunk]
        /\ pc = "chunkcall" => ~Mine(t).stopped
  <2>1. threads[t].chunk \in Nat /\ threads[t].chunk + 1 \in Nat
    BY <1>1 DEF AnyThread
  <2>2. CASE threads' = [threads EXCEPT ![t].chunk = @ + 1]
    <3>1. threads' = [threads EXCEPT ![t].pc = "chunk", ![t].chunk = threads[t].chunk + 1]
      BY <1>1, <1>2, <2>2 DEF AnyThread
    <3> QED BY <2>1, <3>1
  <2>3. CASE \E pc \in {"chunkcall", "usage"} : threads' = [threads EXCEPT ![t].pc = pc]
                 /\ (pc = "chunkcall" => ~Mine(t).stopped)
    <3>1. PICK pc \in {"chunkcall", "usage"} : threads' = [threads EXCEPT ![t].pc = pc]
                 /\ (pc = "chunkcall" => ~Mine(t).stopped)
      BY <2>3
    <3>2. threads' = [threads EXCEPT ![t].pc = pc, ![t].chunk = threads[t].chunk]
      BY <1>1, <3>1 DEF AnyThread
    <3> QED BY <2>1, <3>1, <3>2
  <2> QED BY <2>2, <2>3 DEF Chunk
<1>4. /\ threads'[t] = [threads[t] EXCEPT !.pc = pc, !.chunk = chunk]
      /\ threads' = [threads EXCEPT ![t] = threads'[t]]
  BY <1>1, <1>3
<1>5. /\ threads'[t] \in AnyThread /\ threads'[t].pc = pc /\ threads'[t].work = threads[t].work
      /\ threads'[t].text = threads[t].text /\ threads'[t].cost = threads[t].cost
      /\ threads'[t].spent = threads[t].spent
  BY <1>1, <1>4 DEF AnyThread, ThreadPcs
<1>6. CostsAt(t)'
  <2>1. Mine(t)' = Mine(t) /\ noteCfg' = noteCfg
    BY DEF Chunk, Mine, Of
  <2> QED BY <1>1, <1>2, <1>3, <1>5, <2>1 DEF CostsAt, Over
<1>7. papers' \in Seq(AnyPaper)
  <2>1. papers' = papers \/ \E status \in MapStatus : Mapped(t, status)
    BY DEF Chunk, MapStatus
  <2> QED BY <1>1, <2>1, MappedIsPapers DEF ApiTypeOK
<1> QED BY <1>1, <1>2, <1>3, <1>4, <1>5, <1>6, <1>7, QuietStep DEF Chunk, ApiInv, ApiTypeOK, CallPcs

LEMMA UsageStep ==
  ASSUME ApiInv, NEW t \in NoteThreads, Usage(t)
  PROVE  ApiInv'
<1>1. /\ ApiTypeOK /\ ControlAt(t) /\ CostsAt(t) /\ threads[t] \in AnyThread
      /\ noteCfg \in AnyNoteConfig /\ threads \in [NoteThreads -> AnyThread]
  BY DEF ApiInv, ThreadsOK, ApiTypeOK
<1>2. threads[t].pc = "usage" /\ threads[t].work \in NoteWorks /\ threads[t].text \in Nat
  BY <1>1 DEF Usage, ControlAt
<1>3. /\ threads'[t] = [pc |-> "reduce", work |-> threads[t].work, text |-> threads[t].text,
                        cost |-> threads[t].cost, good |-> threads[t].good,
                        paper |-> threads[t].paper, chunk |-> threads[t].chunk, spent |-> 0]
      /\ threads' = [threads EXCEPT ![t] = threads'[t]]
  BY <1>1 DEF Usage, AnyThread
<1>4. /\ threads'[t] \in AnyThread /\ threads'[t].pc = "reduce" /\ threads'[t].work = threads[t].work
      /\ threads'[t].text = threads[t].text /\ threads'[t].cost = threads[t].cost
      /\ threads'[t].spent = 0
  BY <1>1, <1>3 DEF AnyThread, ThreadPcs
<1>5. CostsAt(t)'
  <2>1. noteCfg.perRun # NoLimit => Over(noteCfg.perRun, 0) \in Nat
    BY <1>1, OverIsNat DEF AnyNoteConfig
  <2> QED BY <1>1, <1>2, <1>4, <2>1, ApiAssumption DEF CostsAt, Usage, Over
<1>6. logged' \in Nat
  BY <1>1 DEF Usage, ApiTypeOK, AnyThread
<1> QED BY <1>1, <1>2, <1>3, <1>4, <1>5, <1>6, QuietStep DEF Usage, ApiInv, ApiTypeOK, CallPcs

LEMMA ReduceStatusIsOne ==
  ASSUME NEW t
  PROVE  ReduceStatus(t) \in MapStatus
BY DEF ReduceStatus, MapStatus

LEMMA ReduceStep ==
  ASSUME ApiInv, NEW t \in NoteThreads, Reduce(t)
  PROVE  ApiInv'
<1>1. /\ ApiTypeOK /\ ControlAt(t) /\ CostsAt(t) /\ threads[t] \in AnyThread
      /\ noteCfg \in AnyNoteConfig /\ threads \in [NoteThreads -> AnyThread]
  BY DEF ApiInv, ThreadsOK, ApiTypeOK
<1>2. threads[t].pc = "reduce" /\ threads[t].work \in NoteWorks /\ threads[t].text \in Nat
  BY <1>1 DEF Reduce, ControlAt
<1>3. threads'[t] = Idle /\ threads' = [threads EXCEPT ![t] = threads'[t]]
  BY <1>1 DEF Reduce
<1>4. CostsAt(t)'
  BY <1>1, <1>3, IdleCostsNext DEF Reduce
<1>5. papers' \in Seq(AnyPaper)
  <2>1. PICK s \in MapStatus : s = ReduceStatus(t)
    BY ReduceStatusIsOne
  <2>2. PICK i \in Nat : i = threads[t].paper
    BY <1>1 DEF AnyThread
  <2>3. papers' = [papers EXCEPT ![i].status = s] /\ papers \in Seq(AnyPaper)
    BY <1>1, <2>1, <2>2 DEF Reduce, ApiTypeOK
  <2>4. CASE i \in DOMAIN papers
    <3>1. papers[i] \in AnyPaper
      BY <2>3, <2>4
    <3>2. [papers[i] EXCEPT !.status = s] \in AnyPaper
      BY <3>1 DEF AnyPaper
    <3> QED BY <2>3, <2>4, <3>2, ExceptSeq
  <2>5. CASE i \notin DOMAIN papers
    <3>1. PICK e : papers' = [papers EXCEPT ![i] = e]
      BY <2>3
    <3> QED BY <2>3, <2>5, <3>1, ExceptNowhere
  <2> QED BY <2>4, <2>5
<1>6. notes' \in Seq(AnyNote)
  <2>1. notes \in Seq(AnyNote)
    BY <1>1 DEF ApiTypeOK
  <2>2. [work |-> threads[t].work, text |-> threads[t].text, by |-> "chunked"] \in AnyNote
    BY <1>2 DEF AnyNote
  <2> QED BY <2>1, <2>2, AppendProperties DEF Reduce, Noted
<1>7. threads'[t] \in AnyThread /\ threads'[t].pc = "idle"
  BY <1>3, IdleIsAThread DEF Idle
<1> QED BY <1>1, <1>2, <1>3, <1>4, <1>5, <1>6, <1>7, QuietStep DEF Reduce, ApiInv, ApiTypeOK, CallPcs

LEMMA FirstIsLeft ==
  ASSUME noteCfg \in AnyNoteConfig, NEW works \in SUBSET NoteWorks, works # {}
  PROVE  FirstOf(works) \in works
<1> DEFINE ks == {k \in DOMAIN noteCfg.order : noteCfg.order[k] \in works}
           Less == {p \in Nat \X Nat : p[1] < p[2]}
<1>1. PICK w \in works : TRUE
  OBVIOUS
<1>2. PICK k \in DOMAIN noteCfg.order : noteCfg.order[k] = w
  BY <1>1 DEF AnyNoteConfig
<1>3. ks \in SUBSET Nat /\ k \in ks
  BY <1>1, <1>2 DEF AnyNoteConfig
<1>4. IsWellFoundedOn(Less, Nat)
  BY NatLessThanWellFounded DEF OpToRel
<1>5. \E i \in ks : \A j \in ks : <<j, i>> \notin Less
  <2> HIDE DEF Less, ks
  <2> QED BY <1>3, <1>4, WFMin, Zenon
<1>6. PICK i \in ks : \A j \in ks : i <= j
  <2>1. \A i, j \in Nat : <<j, i>> \notin Less => i <= j
    OBVIOUS
  <2> HIDE DEF Less, ks
  <2> QED BY <1>3, <1>5, <2>1
<1>7. \E m \in DOMAIN noteCfg.order :
        /\ noteCfg.order[m] \in works
        /\ \A j \in DOMAIN noteCfg.order : noteCfg.order[j] \in works => m <= j
  BY <1>6
<1> QED BY <1>7 DEF FirstOf

LEMMA TakeStep ==
  ASSUME ApiInv, NEW t \in NoteThreads, Take(t)
  PROVE  ApiInv'
<1>1. /\ ApiTypeOK /\ ThreadsOK /\ BudgetOK /\ ControlAt(t) /\ CostsAt(t) /\ threads[t] \in AnyThread
      /\ noteCfg \in AnyNoteConfig /\ threads \in [NoteThreads -> AnyThread]
      /\ command \in [Commands -> AnyCommand] /\ Of(t) \in Commands
  BY ThreadIsAPair DEF ApiInv, ThreadsOK, ApiTypeOK
<1>2. FirstOf(Mine(t).left) \in NoteWorks
  BY <1>1, FirstIsLeft DEF Take, Mine, AnyCommand
<1>3. PICK w \in NoteWorks, pc \in {"admit", "admitchunks"} :
        /\ threads'[t] = [Idle EXCEPT !.work = w, !.pc = pc]
        /\ threads' = [threads EXCEPT ![t] = threads'[t]]
        /\ command' = [command EXCEPT ![Of(t)].left = @ \ {w}]
  BY <1>1, <1>2 DEF Take, Mine
<1>4. /\ threads'[t] \in AnyThread /\ threads'[t].work = w /\ threads'[t].pc = pc
      /\ threads'[t].cost = 0 /\ threads'[t].spent = 0
  BY <1>3, IdleIsAThread DEF AnyThread, ThreadPcs, Idle
<1>5. /\ command' \in [Commands -> AnyCommand]
      /\ \A c \in Commands : /\ command'[c].kind = command[c].kind
                             /\ command'[c].prior = command[c].prior
                             /\ command'[c].spent = command[c].spent
                             /\ command'[c].stopped = command[c].stopped
  BY <1>1, <1>3 DEF AnyCommand
<1>6. ControlAt(t)'
  <2>1. Running(Of(t)) /\ (Mine(t).kind \in SequentialKinds => t[2] = 1)
    BY DEF Take, MayWork
  <2> QED BY <1>1, <1>3, <1>4, <1>5, <2>1 DEF ControlAt, Running, Mine, Of
<1>7. CostsAt(t)'
  <2>1. noteCfg.perRun # NoLimit => Over(noteCfg.perRun, 0) \in Nat
    BY <1>1, OverIsNat DEF AnyNoteConfig
  <2>2. noteCfg' = noteCfg
    BY DEF Take
  <2> QED BY <1>3, <1>4, <2>1, <2>2, ApiAssumption DEF CostsAt, Over
<1>8. threads' \in [NoteThreads -> AnyThread] /\ ThreadsOK'
  BY <1>1, <1>3, <1>4, <1>5, <1>6, <1>7, OneThread DEF Take
<1>9. BudgetOK'
  BY <1>1, <1>3, <1>4, <1>5, SameBudget DEF Take, CallPcs
<1>10. ApiTypeOK'
  BY <1>1, <1>5, <1>8 DEF Take, ApiTypeOK
<1> QED BY <1>8, <1>9, <1>10 DEF ApiInv

LEMMA AccountStep ==
  ASSUME ApiInv, NEW t \in NoteThreads, Account(t)
  PROVE  ApiInv'
<1>1. /\ ApiTypeOK /\ ThreadsOK /\ BudgetOK /\ ControlAt(t) /\ CostsAt(t) /\ threads[t] \in AnyThread
      /\ noteCfg \in AnyNoteConfig /\ threads \in [NoteThreads -> AnyThread]
      /\ command \in [Commands -> AnyCommand] /\ Of(t) \in Commands /\ threads[t].cost \in Nat
  BY ThreadIsAPair DEF ApiInv, ThreadsOK, ApiTypeOK, AnyThread
<1>2. /\ threads[t].pc = "account" /\ threads'[t] = Idle /\ threads' = [threads EXCEPT ![t] = threads'[t]]
      /\ command' = Spend(Of(t), threads[t].cost, threads[t].cost) /\ noteCfg' = noteCfg
      /\ logged' = logged + threads[t].cost /\ UNCHANGED <<text, papers, notes, billed, noteFaults>>
  BY <1>1 DEF Account
<1>3. threads'[t] \in AnyThread /\ threads'[t].pc = "idle"
  BY <1>2, IdleIsAThread DEF Idle
<1>4. /\ command' \in [Commands -> AnyCommand]
      /\ \A c \in Commands : /\ command'[c].kind = command[c].kind
                             /\ command[c].stopped => command'[c].stopped
  BY <1>1, <1>2, SpendAdds
<1>5. ControlAt(t)'
  BY <1>1, <1>3 DEF ControlAt
<1>6. CostsAt(t)'
  BY <1>1, <1>2, IdleCostsNext
<1>7. threads' \in [NoteThreads -> AnyThread] /\ ThreadsOK'
  BY <1>1, <1>2, <1>3, <1>4, <1>5, <1>6, OneThread
<1>8. BudgetOK'
  BY <1>1, <1>2, <1>3, SpentBudget DEF CallPcs, CostsAt
<1>9. ApiTypeOK'
  BY <1>1, <1>2, <1>4, <1>7 DEF ApiTypeOK
<1> QED BY <1>7, <1>8, <1>9 DEF ApiInv

LEMMA ChunkRowStep ==
  ASSUME ApiInv, NEW t \in NoteThreads, ChunkRow(t)
  PROVE  ApiInv'
<1> DEFINE th == threads[t]
<1>1. /\ ApiTypeOK /\ ThreadsOK /\ BudgetOK /\ ControlAt(t) /\ CostsAt(t) /\ th \in AnyThread
      /\ noteCfg \in AnyNoteConfig /\ threads \in [NoteThreads -> AnyThread]
      /\ command \in [Commands -> AnyCommand] /\ Of(t) \in Commands
      /\ th.cost \in Nat /\ th.spent \in Nat /\ th.spent + th.cost \in Nat /\ th.chunk + 1 \in Nat
  <2>1. /\ ApiTypeOK /\ ThreadsOK /\ BudgetOK /\ ControlAt(t) /\ CostsAt(t) /\ th \in AnyThread
        /\ noteCfg \in AnyNoteConfig /\ threads \in [NoteThreads -> AnyThread]
        /\ command \in [Commands -> AnyCommand]
    BY DEF ApiInv, ThreadsOK, ApiTypeOK
  <2>2. th.cost \in Nat /\ th.spent \in Nat /\ th.chunk \in Nat
    BY <2>1 DEF AnyThread
  <2> QED BY <2>1, <2>2, ThreadIsAPair
<1>2. /\ th.pc = "chunkrow" /\ threads' = [threads EXCEPT ![t] = threads'[t]]
      /\ threads'[t] = [pc |-> "chunk", work |-> th.work, text |-> th.text, cost |-> 0, good |-> th.good,
                        paper |-> th.paper, chunk |-> th.chunk + 1, spent |-> th.spent + th.cost]
      /\ command' = Spend(Of(t), th.cost, th.spent + th.cost) /\ noteCfg' = noteCfg
      /\ UNCHANGED <<text, notes, billed, logged, noteFaults>>
  BY <1>1 DEF ChunkRow, AnyThread
<1>3. /\ threads'[t] \in AnyThread /\ threads'[t].pc = "chunk" /\ threads'[t].work = th.work
      /\ threads'[t].text = th.text /\ threads'[t].cost = 0 /\ threads'[t].spent = th.spent + th.cost
  BY <1>1, <1>2 DEF AnyThread, ThreadPcs
<1>4. /\ command' \in [Commands -> AnyCommand]
      /\ \A c \in Commands : /\ command'[c].kind = command[c].kind
                             /\ command[c].stopped => command'[c].stopped
      /\ noteCfg.perRun # NoLimit /\ th.spent + th.cost >= noteCfg.perRun => command'[Of(t)].stopped
  BY <1>1, <1>2, SpendAdds
<1>5. ControlAt(t)'
  BY <1>1, <1>2, <1>3, <1>4 DEF ControlAt, Running, Mine, Of
<1>6. CostsAt(t)'
  <2>1. threads'[t].cost <= MaxCost /\ th.cost <= MaxCost
    BY <1>1, <1>3, ApiAssumption DEF CostsAt
  <2>2. ASSUME noteCfg.perRun # NoLimit
        PROVE  /\ th.spent + th.cost <= Over(noteCfg.perRun, 0) + MaxCost
               /\ th.spent + th.cost <= Over(noteCfg.perRun, 0) \/ command'[Of(t)].stopped
    <3>1. noteCfg.perRun \in Nat /\ Over(noteCfg.perRun, 0) \in Nat /\ MaxCost \in Nat
      BY <1>1, <2>2, OverIsNat, ApiAssumption DEF AnyNoteConfig
    <3>2. th.spent <= Over(noteCfg.perRun, 0)
      BY <1>1, <1>2, <2>2 DEF CostsAt
    <3>3. th.spent + th.cost <= Over(noteCfg.perRun, 0) + MaxCost
      BY <1>1, <2>1, <3>1, <3>2
    <3>4. th.spent + th.cost <= Over(noteCfg.perRun, 0) \/ th.spent + th.cost >= noteCfg.perRun
      BY <1>1, <3>1 DEF Over
    <3> QED BY <1>4, <2>2, <3>3, <3>4
  <2> QED BY <1>2, <1>3, <2>1, <2>2 DEF CostsAt, Over, Mine, Of
<1>7. threads' \in [NoteThreads -> AnyThread] /\ ThreadsOK'
  BY <1>1, <1>2, <1>3, <1>4, <1>5, <1>6, OneThread
<1>8. BudgetOK'
  BY <1>1, <1>2, <1>3, SpentBudget DEF CallPcs, CostsAt
<1>9. papers' \in Seq(AnyPaper)
  <2>1. \E status \in MapStatus : Mapped(t, status)
    BY DEF ChunkRow, MapStatus
  <2> QED BY <1>1, <2>1, MappedIsPapers
<1>10. ApiTypeOK'
  BY <1>1, <1>2, <1>4, <1>7, <1>9 DEF ApiTypeOK
<1> QED BY <1>7, <1>8, <1>10 DEF ApiInv

\* A command starts, ends or dies: it has spent nothing, and none of its threads is busy.
LEMMA CommandStep ==
  ASSUME ApiInv, NEW c \in Commands,
         command' = [command EXCEPT ![c] = command'[c]], command'[c] \in AnyCommand, command'[c].spent = 0,
         threads' \in [NoteThreads -> AnyThread],
         \A u \in NoteThreads :
           IF Of(u) = c THEN threads'[u].pc = "idle" /\ threads'[u] \in {threads[u], Idle}
           ELSE threads'[u] = threads[u],
         UNCHANGED <<noteCfg, text, papers, notes, billed, logged>>, noteFaults' \in Nat
  PROVE  ApiInv'
<1>1. /\ ApiTypeOK /\ ThreadsOK /\ BudgetOK /\ noteCfg \in AnyNoteConfig /\ command \in [Commands -> AnyCommand]
  BY DEF ApiInv, ApiTypeOK
<1>2. command' \in [Commands -> AnyCommand] /\ \A d \in Commands : d # c => command'[d] = command[d]
  BY <1>1
<1>3. ASSUME NEW u \in NoteThreads PROVE ControlAt(u)' /\ CostsAt(u)'
  <2>1. ControlAt(u) /\ CostsAt(u) /\ Of(u) \in Commands
    BY <1>1, ThreadIsAPair DEF ThreadsOK
  <2>2. CASE Of(u) # c
    <3>1. threads'[u] = threads[u] /\ command'[Of(u)] = command[Of(u)]
      BY <1>2, <2>1, <2>2
    <3> QED BY <2>1, <3>1 DEF ControlAt, CostsAt, Running, Mine, Of
  <2>3. CASE Of(u) = c
    <3>1. threads'[u].pc = "idle" /\ threads'[u] \in {threads[u], Idle}
      BY <2>3
    <3>2. CostsAt(u)'
      <4>1. CASE threads'[u] = Idle
        BY <1>1, <4>1, IdleCostsNext
      <4>2. CASE threads'[u] = threads[u]
        BY <2>1, <3>1, <4>2 DEF CostsAt, Over
      <4> QED BY <3>1, <4>1, <4>2
    <3> QED BY <3>1, <3>2 DEF ControlAt
  <2> QED BY <2>2, <2>3
<1>4. ThreadsOK'
  BY <1>3 DEF ThreadsOK
<1>5. ASSUME NEW d \in Commands PROVE BudgetAt(d)'
  <2>1. CASE d # c
    <3>1. InCall(d)' = InCall(d)
      BY <1>1, <2>1 DEF InCall, Of
    <3>2. command'[d] = command[d] /\ BudgetAt(d)
      BY <1>1, <1>2, <2>1 DEF BudgetOK
    <3> QED BY <3>1, <3>2 DEF BudgetAt, Over, Pool, Of
  <2>2. CASE d = c
    <3>1. noteCfg.monthly # NoLimit => Over(noteCfg.monthly, command'[c].prior) \in Nat
      BY <1>1, OverIsNat DEF AnyNoteConfig, AnyCommand
    <3>2. \A n \in Nat : 0 <= n
      OBVIOUS
    <3> QED BY <2>2, <3>1, <3>2 DEF BudgetAt, Over
  <2> QED BY <2>1, <2>2
<1>6. ApiTypeOK'
  BY <1>1, <1>2 DEF ApiTypeOK
<1> QED BY <1>4, <1>5, <1>6 DEF ApiInv, BudgetOK

LEMMA StartStep ==
  ASSUME ApiInv, NEW c \in Commands, NEW k \in CommandKinds, StartCommand(c, k)
  PROVE  ApiInv'
<1>1. /\ ApiTypeOK /\ ThreadsOK /\ command \in [Commands -> AnyCommand] /\ threads \in [NoteThreads -> AnyThread]
      /\ logged \in Nat /\ noteFaults \in Nat
  BY DEF ApiInv, ApiTypeOK
<1>2. Worklist(k) \in SUBSET NoteWorks
  BY DEF Worklist, OversizeWorks
<1>3. /\ command'[c] = [Off EXCEPT !.kind = k, !.left = Worklist(k), !.month = logged,
                                    !.prior = IF k \in SeedsMonth THEN logged ELSE 0]
      /\ command' = [command EXCEPT ![c] = command'[c]]
  BY <1>1 DEF StartCommand
<1>4. command'[c] \in AnyCommand /\ command'[c].spent = 0
  BY <1>1, <1>2, <1>3, IdleIsAThread DEF AnyCommand, Off
<1>5. \A u \in NoteThreads : Of(u) = c => threads[u].pc = "idle"
  BY <1>1 DEF StartCommand, ThreadsOK, ControlAt
<1> QED BY <1>1, <1>3, <1>4, <1>5, CommandStep DEF StartCommand

LEMMA StopStep ==
  ASSUME ApiInv, NEW c \in Commands, CommandEnds(c) \/ CommandDies(c)
  PROVE  ApiInv'
<1>1. /\ ApiTypeOK /\ command \in [Commands -> AnyCommand] /\ threads \in [NoteThreads -> AnyThread]
      /\ noteFaults \in Nat
  BY DEF ApiInv, ApiTypeOK
<1>2. /\ command'[c] = Off /\ command' = [command EXCEPT ![c] = command'[c]]
      /\ command'[c] \in AnyCommand /\ command'[c].spent = 0
  <2>1. command' = [command EXCEPT ![c] = Off]
    BY DEF CommandEnds, CommandDies
  <2>2. Off.spent = 0
    BY DEF Off
  <2> QED BY <1>1, <2>1, <2>2, IdleIsAThread
<1>3. /\ threads' \in [NoteThreads -> AnyThread]
      /\ \A u \in NoteThreads :
           IF Of(u) = c THEN threads'[u].pc = "idle" /\ threads'[u] \in {threads[u], Idle}
           ELSE threads'[u] = threads[u]
  <2>1. Idle.pc = "idle"
    BY DEF Idle
  <2>2. CASE CommandEnds(c)
    BY <1>1, <2>2 DEF CommandEnds
  <2>3. CASE CommandDies(c)
    <3>1. \A u \in NoteThreads : threads'[u] = IF Of(u) = c THEN Idle ELSE threads[u]
      BY <2>3 DEF CommandDies
    <3>2. threads' = [u \in NoteThreads |-> IF Of(u) = c THEN Idle ELSE threads[u]]
      BY <2>3 DEF CommandDies
    <3> QED BY <1>1, <2>1, <3>1, <3>2, IdleIsAThread
  <2> QED BY <2>2, <2>3
<1>4. UNCHANGED <<noteCfg, text, papers, notes, billed, logged>> /\ noteFaults' \in Nat
  BY <1>1 DEF CommandEnds, CommandDies
<1> QED BY <1>2, <1>3, <1>4, CommandStep

\* A sequential command ends with its work, a pool goes on.
LEMMA LockedStep ==
  ASSUME ApiInv, NEW t \in NoteThreads, Locked(t)
  PROVE  ApiInv'
<1>1. /\ ApiTypeOK /\ ThreadsOK /\ BudgetOK /\ command \in [Commands -> AnyCommand]
      /\ threads \in [NoteThreads -> AnyThread]
      /\ noteFaults \in Nat /\ Of(t) \in Commands
  BY ThreadIsAPair DEF ApiInv, ApiTypeOK
<1>2. /\ threads'[t] = Idle /\ threads' = [threads EXCEPT ![t] = threads'[t]] /\ threads[t].pc # "idle"
      /\ threads' \in [NoteThreads -> AnyThread] /\ threads'[t].pc = "idle"
      /\ UNCHANGED <<noteCfg, text, papers, notes, billed, logged>> /\ noteFaults' \in Nat
  BY <1>1, IdleIsAThread DEF Locked, Idle
<1>3. CASE command' = command
  <2>1. ControlAt(t)' /\ CostsAt(t)'
    BY <1>1, <1>2, IdleCostsNext DEF ControlAt
  <2>2. ThreadsOK'
    BY <1>1, <1>2, <1>3, <2>1, OneThread, IdleIsAThread
  <2>3. BudgetOK'
    BY <1>1, <1>2, <1>3, SameBudget DEF CallPcs
  <2> QED BY <1>1, <1>2, <1>3, <2>2, <2>3 DEF ApiInv, ApiTypeOK
<1>4. CASE command' = [command EXCEPT ![Of(t)] = Off]
           /\ \A u \in NoteThreads : Of(u) = Of(t) /\ u # t => Mine(t).kind \in SequentialKinds
  <2>1. /\ command'[Of(t)] = Off /\ command' = [command EXCEPT ![Of(t)] = command'[Of(t)]]
        /\ command'[Of(t)] \in AnyCommand /\ command'[Of(t)].spent = 0
    BY <1>1, <1>4, IdleIsAThread DEF Off
  <2>2. ASSUME NEW u \in NoteThreads, Of(u) = Of(t), u # t PROVE threads[u].pc = "idle" /\ threads'[u] = threads[u]
    <3>1. Mine(t).kind \in SequentialKinds /\ Mine(u).kind \in SequentialKinds
      BY <1>4, <2>2 DEF Mine
    <3>2. t[2] = 1
      BY <1>1, <1>2, <3>1 DEF ThreadsOK, ControlAt
    <3>3. u[2] # 1
      BY <2>2, <3>2, ThreadIsAPair
    <3> QED BY <1>1, <1>2, <2>2, <3>1, <3>3 DEF ThreadsOK, ControlAt
  <2>3. \A u \in NoteThreads : IF Of(u) = Of(t) THEN threads'[u].pc = "idle" /\ threads'[u] \in {threads[u], Idle}
                               ELSE threads'[u] = threads[u]
    BY <1>1, <1>2, <2>2
  <2> QED BY <1>1, <1>2, <2>1, <2>3, CommandStep
<1> QED BY <1>3, <1>4 DEF Locked

LEMMA ConvertAgainStep ==
  ASSUME ApiInv, NEW w \in NoteWorks, ConvertAgain(w)
  PROVE  ApiInv'
<1>1. text \in [NoteWorks -> Nat \cup {NoText}] /\ text[w] \in Nat
  BY DEF ApiInv, ApiTypeOK, ConvertAgain
<1>2. text' \in [NoteWorks -> Nat \cup {NoText}]
  BY <1>1 DEF ConvertAgain
<1>3. ApiTypeOK'
  BY <1>2 DEF ApiInv, ApiTypeOK, ConvertAgain
<1>4. ThreadsOK'
  BY DEF ApiInv, ThreadsOK, ControlAt, CostsAt, Running, Mine, Of, Over, ConvertAgain
<1>5. BudgetOK'
  BY DEF ApiInv, BudgetOK, BudgetAt, InCall, Pool, Over, Of, ConvertAgain
<1> QED BY <1>3, <1>4, <1>5 DEF ApiInv

LEMMA ApiStepHolds ==
  ASSUME ApiInv, [ApiNext]_apiVars
  PROVE  ApiInv'
<1>1. CASE UNCHANGED apiVars
  BY <1>1 DEF apiVars, ApiInv, ApiTypeOK, ThreadsOK, ControlAt, CostsAt, Running, Mine, Of, Over, BudgetOK, BudgetAt,
     InCall, Pool
<1>2. ASSUME NEW t \in NoteThreads, ThreadStep(t) PROVE ApiInv'
  BY <1>2, TakeStep, AdmitStep, SaveStep, AccountStep, AdmitChunksStep, ChunkStep, ChunkRowStep, UsageStep,
     ReduceStep, AnswerStep DEF ThreadStep
<1> QED BY <1>1, <1>2, LockedStep, StopStep, StartStep, ConvertAgainStep DEF ApiNext

-----------------------------------------------------------------------------
(* The limits. *)

\* The invariant: types, what each thread owes, and how far the budget can be passed.
THEOREM ApiInductive == ApiSpec => []ApiInv
<1>1. ApiInit => ApiInv
  BY ApiInitHolds
<1>2. ApiInv /\ [ApiNext]_apiVars => ApiInv'
  BY ApiStepHolds
<1> QED BY <1>1, <1>2, PTL DEF ApiSpec

\* What a BudgetState was told of the month is what the month had cost, or nothing.
PriorOK == \A c \in Commands : command[c].prior = Counted(c)

THEOREM ApiPrior == ApiSpec => []PriorOK
<1>1. ApiInit => PriorOK
  <2> SUFFICES ASSUME ApiInit, NEW c \in Commands PROVE command[c].prior = Counted(c)
    BY DEF PriorOK
  <2>1. command[c] = Off
    BY DEF ApiInit, ApiStart
  <2> QED BY <2>1 DEF Counted, Off, SeedsMonth
<1>2. ASSUME ApiInv, PriorOK, [ApiNext]_apiVars PROVE PriorOK'
  <2>0. /\ command \in [Commands -> AnyCommand] /\ PriorOK
        /\ \A t \in NoteThreads : Of(t) \in Commands
        /\ Off.prior = 0 /\ Off.kind \notin SeedsMonth
    BY <1>2, ThreadIsAPair DEF ApiInv, ApiTypeOK, Off, SeedsMonth
  <2>1. ASSUME command' = command PROVE PriorOK'
    BY <2>0, <2>1 DEF PriorOK, Counted
  <2>2. ASSUME NEW c \in Commands, command' = [command EXCEPT ![c] = Off] PROVE PriorOK'
    BY <2>0, <2>2 DEF PriorOK, Counted
  <2>3. ASSUME NEW c \in Commands, NEW k \in CommandKinds, StartCommand(c, k) PROVE PriorOK'
    <3>1. /\ command' = [command EXCEPT ![c] = command'[c]]
          /\ command'[c].kind = k /\ command'[c].month = logged
          /\ command'[c].prior = IF k \in SeedsMonth THEN logged ELSE 0
      BY <2>0, <2>3 DEF StartCommand, Off
    <3> QED BY <2>0, <3>1 DEF PriorOK, Counted
  <2>4. ASSUME NEW t \in NoteThreads, Take(t) PROVE PriorOK'
    <3>1. PICK left \in SUBSET NoteWorks : command' = [command EXCEPT ![Of(t)].left = left]
      BY <2>0, <2>4 DEF Take, AnyCommand
    <3> QED BY <2>0, <3>1 DEF PriorOK, Counted, AnyCommand
  <2>5. ASSUME NEW c \in Commands, NEW cost, NEW perRun, command' = Spend(c, cost, perRun) PROVE PriorOK'
    BY <2>0, <2>5 DEF Spend, PriorOK, Counted, AnyCommand
  <2>6. ASSUME NEW t \in NoteThreads, ThreadStep(t) PROVE PriorOK'
    BY <2>0, <2>1, <2>4, <2>5, <2>6
       DEF ThreadStep, Admit, Save, Account, AdmitChunks, Chunk, ChunkRow, Usage, Reduce, Answer
  <2>7. ASSUME NEW t \in NoteThreads, Locked(t) PROVE PriorOK'
    BY <2>0, <2>1, <2>2, <2>7 DEF Locked
  <2>8. ASSUME NEW c \in Commands, CommandEnds(c) \/ CommandDies(c) PROVE PriorOK'
    BY <2>2, <2>8 DEF CommandEnds, CommandDies
  <2> QED BY <1>2, <2>1, <2>3, <2>6, <2>7, <2>8 DEF ApiNext, ConvertAgain, apiVars
<1> QED BY <1>1, <1>2, ApiInductive, PTL DEF ApiSpec

\* What the month had cost and what `extract notes` spends pass the monthly limit by at
\* most one call for each thread; of the other commands that holds of their own spend
\* alone.  A paper passes the limit of a run by at most one chunk.
THEOREM ApiOverspend == ApiSpec => [](OverspendIsBounded /\ PaperSpendIsBounded)
<1>1. ASSUME ApiInv, NEW c \in Commands, noteCfg.monthly # NoLimit
      PROVE  command[c].spent <= Over(noteCfg.monthly, command[c].prior) + Pool(c) * MaxCost
  <2> DEFINE n == Cardinality(InCall(c)) * MaxCost
             m == Pool(c) * MaxCost
             o == Over(noteCfg.monthly, command[c].prior)
  <2>1. command[c].spent \in Nat /\ command[c].prior \in Nat /\ noteCfg.monthly \in Nat
    BY <1>1 DEF ApiInv, ApiTypeOK, AnyCommand, AnyNoteConfig
  <2>2. n \in Nat /\ m \in Nat /\ o \in Nat
    <3>1. Cardinality(InCall(c)) \in Nat /\ Pool(c) \in Nat /\ MaxCost \in Nat
      BY PoolIsFinite, ApiAssumption
    <3>2. \A x, y \in Nat : x * y \in Nat
      OBVIOUS
    <3> QED BY <2>1, <3>1, <3>2, OverIsNat
  <2>3. command[c].spent <= o \/ command[c].spent + n <= o + m
    BY <1>1 DEF ApiInv, BudgetOK, BudgetAt
  <2> HIDE DEF n, m, o
  <2>4. command[c].spent <= o + m
    BY <2>1, <2>2, <2>3
  <2> QED BY <2>4 DEF o, m
<1>2. ASSUME ApiInv, NEW t \in NoteThreads, noteCfg.perRun # NoLimit
      PROVE  InFlight(t) <= Over(noteCfg.perRun, 0) + MaxCost
  <2>1. /\ threads[t].cost \in Nat /\ threads[t].spent \in Nat /\ MaxCost \in Nat
        /\ Over(noteCfg.perRun, 0) \in Nat /\ CostsAt(t)
    BY <1>2, OverIsNat, ApiAssumption DEF ApiInv, ApiTypeOK, ThreadsOK, AnyThread, AnyNoteConfig
  <2>2. CASE threads[t].pc = "chunkrow"
    BY <1>2, <2>1, <2>2 DEF CostsAt, InFlight
  <2>3. CASE threads[t].pc # "chunkrow"
    BY <1>2, <2>1, <2>3 DEF CostsAt, InFlight
  <2> QED BY <2>2, <2>3
<1>3. ApiInv /\ PriorOK => OverspendIsBounded /\ PaperSpendIsBounded
  BY <1>1, <1>2 DEF OverspendIsBounded, PaperSpendIsBounded, PriorOK
<1> QED BY <1>3, ApiInductive, ApiPrior, PTL

-----------------------------------------------------------------------------
(* The usage log. *)

\* An enumeration of the threads, and the running total of what they have not yet logged.
Enumerates(e, n) ==
  /\ e \in [1 .. n -> NoteThreads]
  /\ \A i, j \in 1 .. n : e[i] = e[j] => i = j
  /\ \A t \in NoteThreads : \E i \in 1 .. n : e[i] = t
Totals(g, e, n) ==
  /\ g \in [0 .. n -> Int] /\ g[0] = 0
  /\ \A i \in 1 .. n : g[i] = g[i - 1] + InFlight(e[i])

\* What was billed is in the log or owed by some thread.
LoggedOK ==
  noteFaults = 0 =>
    \A n \in Nat : \A e \in [1 .. n -> NoteThreads] :
      Enumerates(e, n) => \E g \in [0 .. n -> Int] : Totals(g, e, n) /\ billed = logged + g[n]

LEMMA ThreadsEnumerated ==
  \E n \in Nat : \E e \in [1 .. n -> NoteThreads] : Enumerates(e, n)
<1>1. PICK n \in Nat : ExistsBijection(1 .. n, NoteThreads)
  BY ApiAssumption, FS_NatBijection
<1>2. PICK e : e \in Bijection(1 .. n, NoteThreads)
  BY <1>1 DEF ExistsBijection
<1>3. Enumerates(e, n)
  BY <1>2 DEF Bijection, Injection, Surjection, IsInjective, Enumerates
<1> QED BY <1>3 DEF Enumerates

\* One thread owes more, and as much more was billed; or less, and as much was logged.
LEMMA OwedMoves ==
  ASSUME LoggedOK, ApiTypeOK, NEW t \in NoteThreads, NEW d \in Int,
         noteFaults' = 0 => noteFaults = 0,
         \A u \in NoteThreads : u # t => InFlight(u)' = InFlight(u),
         InFlight(t)' = InFlight(t) + d, billed' - logged' = billed - logged + d,
         billed' \in Nat, logged' \in Nat
  PROVE  LoggedOK'
<1> SUFFICES ASSUME noteFaults' = 0, NEW n \in Nat, NEW e \in [1 .. n -> NoteThreads], Enumerates(e, n)
             PROVE  \E h \in [0 .. n -> Int] : Totals(h, e, n)' /\ billed' = logged' + h[n]
  BY DEF LoggedOK, Enumerates
<1>1. PICK g \in [0 .. n -> Int] : Totals(g, e, n) /\ billed = logged + g[n]
  BY DEF LoggedOK
<1>2. PICK k \in 1 .. n : e[k] = t
  BY DEF Enumerates
<1> DEFINE h == [i \in 0 .. n |-> IF i < k THEN g[i] ELSE g[i] + d]
<1>3. h \in [0 .. n -> Int] /\ h[0] = 0 /\ h[n] = g[n] + d
  <2>1. \A i \in 0 .. n : g[i] \in Int /\ g[i] + d \in Int
    OBVIOUS
  <2>2. 0 \in 0 .. n /\ n \in 0 .. n /\ 0 < k /\ ~(n < k)
    OBVIOUS
  <2>3. g[0] = 0
    BY <1>1 DEF Totals
  <2> QED BY <2>1, <2>2, <2>3
<1>4. ASSUME NEW i \in 1 .. n PROVE h[i] = h[i - 1] + InFlight(e[i])'
  <2>1. /\ i \in 0 .. n /\ i - 1 \in 0 .. n /\ g[i] \in Int /\ g[i - 1] \in Int
        /\ g[i] = g[i - 1] + InFlight(e[i]) /\ e[i] \in NoteThreads
    BY <1>1 DEF Totals
  <2>2. InFlight(e[i]) \in Int
    <3>1. threads[e[i]] \in AnyThread
      BY <2>1 DEF ApiTypeOK
    <3>2. threads[e[i]].cost \in Nat /\ threads[e[i]].spent \in Nat
      BY <3>1 DEF AnyThread
    <3> QED BY <3>2 DEF InFlight
  <2>3. CASE i < k
    <3>1. InFlight(e[i])' = InFlight(e[i])
      BY <1>2, <2>1, <2>3 DEF Enumerates
    <3> QED BY <2>1, <2>3, <3>1
  <2>4. CASE i = k
    <3>1. InFlight(e[i])' = InFlight(e[i]) + d
      BY <1>2, <2>4 DEF InFlight
    <3> QED BY <2>1, <2>2, <2>4, <3>1
  <2>5. CASE i > k
    <3>1. InFlight(e[i])' = InFlight(e[i])
      BY <1>2, <2>1, <2>5 DEF Enumerates
    <3> QED BY <2>1, <2>2, <2>5, <3>1
  <2> QED BY <2>3, <2>4, <2>5
<1>5. billed' = logged' + h[n]
  <2>1. billed \in Nat /\ logged \in Nat /\ g[n] \in Int
    BY DEF ApiTypeOK
  <2>2. h[n] = g[n] + d /\ billed = logged + g[n]
    BY <1>1, <1>3
  <2> HIDE DEF h
  <2>3. billed' - logged' = g[n] + d
    BY <2>1, <2>2
  <2> QED BY <2>1, <2>2, <2>3
<1>6. Totals(h, e, n)'
  <2> HIDE DEF h
  <2> QED BY <1>3, <1>4 DEF Totals, InFlight
<1> QED BY <1>3, <1>5, <1>6

\* Every thread owes what it owed, and nothing was billed or logged.
LEMMA OwedStays ==
  ASSUME LoggedOK, noteFaults' = 0 => noteFaults = 0,
         \A u \in NoteThreads : InFlight(u)' = InFlight(u), UNCHANGED <<billed, logged>>
  PROVE  LoggedOK'
<1> SUFFICES ASSUME noteFaults' = 0, NEW n \in Nat, NEW e \in [1 .. n -> NoteThreads], Enumerates(e, n)
             PROVE  \E h \in [0 .. n -> Int] : Totals(h, e, n)' /\ billed' = logged' + h[n]
  BY DEF LoggedOK, Enumerates
<1>1. PICK g \in [0 .. n -> Int] : Totals(g, e, n) /\ billed = logged + g[n]
  BY DEF LoggedOK
<1>2. Totals(g, e, n)'
  BY <1>1 DEF Totals, InFlight
<1> QED BY <1>1, <1>2

LEMMA LoggedInit ==
  ASSUME ApiInit
  PROVE  LoggedOK
<1> SUFFICES ASSUME NEW n \in Nat, NEW e \in [1 .. n -> NoteThreads]
             PROVE  \E g \in [0 .. n -> Int] : Totals(g, e, n) /\ billed = logged + g[n]
  BY DEF LoggedOK
<1> DEFINE g == [i \in 0 .. n |-> 0]
<1>1. \A t \in NoteThreads : InFlight(t) = 0
  BY DEF ApiInit, ApiStart, InFlight, Idle
<1>2. g \in [0 .. n -> Int] /\ Totals(g, e, n)
  BY <1>1 DEF Totals
<1>3. billed = logged + g[n]
  BY DEF ApiInit, ApiStart
<1> QED BY <1>2, <1>3

LEMMA LoggedStep ==
  ASSUME ApiInv, LoggedOK, [ApiNext]_apiVars
  PROVE  LoggedOK'
<1>0. /\ ApiTypeOK /\ threads \in [NoteThreads -> AnyThread] /\ noteFaults \in Nat /\ billed \in Nat /\ logged \in Nat
      /\ \A t \in NoteThreads : threads[t] \in AnyThread /\ CostsAt(t)
  BY DEF ApiInv, ApiTypeOK, ThreadsOK
<1>1. CASE UNCHANGED apiVars
  BY <1>1, OwedStays DEF apiVars, InFlight
<1>2. ASSUME NEW t \in NoteThreads, NEW good \in BOOLEAN, NEW cost \in 0 .. MaxCost, Answer(t, good, cost) PROVE LoggedOK'
  <2>1. cost \in Int /\ cost \in Nat /\ threads[t].cost = 0 /\ threads[t].spent \in Nat
    BY <1>0, <1>2, ApiAssumption DEF Answer, CostsAt, AnyThread
  <2>2. InFlight(t)' = InFlight(t) + cost
    <3>1. threads'[t].cost = cost /\ threads'[t].spent = threads[t].spent
      BY <1>0, <1>2 DEF Answer, AnyThread
    <3> QED BY <2>1, <3>1 DEF InFlight
  <2>3. \A u \in NoteThreads : u # t => InFlight(u)' = InFlight(u)
    BY <1>0, <1>2 DEF Answer, InFlight
  <2>4. billed' - logged' = billed - logged + cost /\ billed' \in Nat /\ logged' \in Nat /\ noteFaults' = noteFaults
    BY <1>0, <1>2, <2>1 DEF Answer
  <2> QED BY <1>0, <2>1, <2>2, <2>3, <2>4, OwedMoves
<1>3. ASSUME NEW t \in NoteThreads, Account(t) PROVE LoggedOK'
  <2>1. -threads[t].cost \in Int /\ threads[t].cost \in Nat /\ threads[t].spent = 0
    BY <1>0, <1>3 DEF Account, CostsAt, AnyThread
  <2>2. InFlight(t)' = InFlight(t) + (-threads[t].cost)
    <3>1. threads'[t].cost = 0 /\ threads'[t].spent = 0
      BY <1>0, <1>3 DEF Account, Idle
    <3> QED BY <2>1, <3>1 DEF InFlight
  <2>3. \A u \in NoteThreads : u # t => InFlight(u)' = InFlight(u)
    BY <1>0, <1>3 DEF Account, InFlight
  <2>4. /\ billed' - logged' = billed - logged + (-threads[t].cost)
        /\ billed' \in Nat /\ logged' \in Nat /\ noteFaults' = noteFaults
    BY <1>0, <1>3, <2>1 DEF Account
  <2>5. PICK d \in Int : d = -threads[t].cost
    BY <2>1
  <2> QED BY <1>0, <2>2, <2>3, <2>4, <2>5, OwedMoves
<1>4. ASSUME NEW t \in NoteThreads, Usage(t) PROVE LoggedOK'
  <2>1. -threads[t].spent \in Int /\ threads[t].spent \in Nat /\ threads[t].cost = 0
    BY <1>0, <1>4 DEF Usage, CostsAt, AnyThread
  <2>2. InFlight(t)' = InFlight(t) + (-threads[t].spent)
    <3>1. threads'[t].cost = threads[t].cost /\ threads'[t].spent = 0
      BY <1>0, <1>4 DEF Usage, AnyThread
    <3> QED BY <2>1, <3>1 DEF InFlight
  <2>3. \A u \in NoteThreads : u # t => InFlight(u)' = InFlight(u)
    BY <1>0, <1>4 DEF Usage, InFlight
  <2>4. /\ billed' - logged' = billed - logged + (-threads[t].spent)
        /\ billed' \in Nat /\ logged' \in Nat /\ noteFaults' = noteFaults
    BY <1>0, <1>4, <2>1 DEF Usage
  <2>5. PICK d \in Int : d = -threads[t].spent
    BY <2>1
  <2> QED BY <1>0, <2>2, <2>3, <2>4, <2>5, OwedMoves
<1>5. ASSUME NEW t \in NoteThreads, ChunkRow(t) PROVE LoggedOK'
  <2>1. InFlight(t)' = InFlight(t)
    <3>1. threads'[t].cost = 0 /\ threads'[t].spent = threads[t].spent + threads[t].cost
      BY <1>0, <1>5 DEF ChunkRow, AnyThread
    <3>2. threads[t].cost \in Nat /\ threads[t].spent \in Nat
      BY <1>0 DEF AnyThread
    <3> QED BY <3>1, <3>2 DEF InFlight
  <2>2. \A u \in NoteThreads : u # t => InFlight(u)' = InFlight(u)
    BY <1>0, <1>5 DEF ChunkRow, InFlight
  <2> QED BY <1>5, <2>1, <2>2, OwedStays DEF ChunkRow
<1>6. ASSUME NEW t \in NoteThreads, Take(t) \/ Admit(t) \/ AdmitChunks(t) \/ Reduce(t) PROVE LoggedOK'
  <2>1. InFlight(t) = 0
    <3>1. threads[t].pc \in {"idle", "admit", "admitchunks", "reduce"}
      BY <1>6 DEF Take, Admit, AdmitChunks, Reduce
    <3> QED BY <1>0, <3>1 DEF CostsAt, InFlight
  <2>2. threads'[t].cost = 0 /\ threads'[t].spent = 0 /\ \A u \in NoteThreads : u # t => threads'[u] = threads[u]
    <3>1. threads[t].cost = 0 /\ threads[t].spent = 0
      <4>1. threads[t].pc \in {"idle", "admit", "admitchunks", "reduce"}
        BY <1>6 DEF Take, Admit, AdmitChunks, Reduce
      <4> QED BY <1>0, <4>1 DEF CostsAt
    <3>2. CASE Take(t)
      BY <1>0, <3>2 DEF Take, Idle
    <3>3. CASE Admit(t)
      BY <1>0, <3>1, <3>3 DEF Admit, Go, Idle, AnyThread
    <3>4. CASE AdmitChunks(t)
      BY <1>0, <3>1, <3>4 DEF AdmitChunks, Go, Idle, AnyThread
    <3>5. CASE Reduce(t)
      BY <1>0, <3>5 DEF Reduce, Idle
    <3> QED BY <1>6, <3>2, <3>3, <3>4, <3>5
  <2>3. \A u \in NoteThreads : InFlight(u)' = InFlight(u)
    BY <2>1, <2>2 DEF InFlight
  <2>4. UNCHANGED <<billed, logged, noteFaults>>
    BY <1>6 DEF Take, Admit, AdmitChunks, Reduce
  <2> QED BY <2>3, <2>4, OwedStays
<1>7. ASSUME NEW t \in NoteThreads, Save(t) \/ Chunk(t) PROVE LoggedOK'
  <2>1. \A u \in NoteThreads : threads'[u].cost = threads[u].cost /\ threads'[u].spent = threads[u].spent
    BY <1>0, <1>7 DEF Save, Chunk, AnyThread
  <2>2. \A u \in NoteThreads : InFlight(u)' = InFlight(u)
    BY <2>1 DEF InFlight
  <2> QED BY <1>7, <2>2, OwedStays DEF Save, Chunk
<1>8. ASSUME noteFaults' = noteFaults + 1 PROVE LoggedOK'
  BY <1>0, <1>8 DEF LoggedOK
<1>9. ASSUME UNCHANGED <<threads, billed, logged, noteFaults>> PROVE LoggedOK'
  BY <1>9, OwedStays DEF InFlight
<1> QED BY <1>1, <1>2, <1>3, <1>4, <1>5, <1>6, <1>7, <1>8, <1>9
    DEF ApiNext, ThreadStep, StartCommand, CommandEnds, CommandDies, Locked, ConvertAgain

\* Idle threads owe nothing.
LEMMA NothingOwed ==
  ASSUME ApiInv, LoggedOK
  PROVE  SpendIsLogged
<1> SUFFICES ASSUME noteFaults = 0, \A t \in NoteThreads : threads[t].pc = "idle"
             PROVE  billed = logged
  BY DEF SpendIsLogged
<1>0. PICK n \in Nat : \E e \in [1 .. n -> NoteThreads] : Enumerates(e, n)
  BY ThreadsEnumerated
<1>1. PICK e \in [1 .. n -> NoteThreads] : Enumerates(e, n)
  BY <1>0
<1>2. PICK g \in [0 .. n -> Int] : Totals(g, e, n) /\ billed = logged + g[n]
  BY <1>1 DEF LoggedOK
<1>3. \A i \in 1 .. n : g[i] = g[i - 1]
  <2>1. \A t \in NoteThreads : InFlight(t) = 0
    BY DEF ApiInv, ThreadsOK, CostsAt, InFlight
  <2>2. \A i \in 1 .. n : i - 1 \in 0 .. n /\ g[i] = g[i - 1] + 0
    BY <1>2, <2>1 DEF Totals
  <2>3. \A i \in 0 .. n : g[i] \in Int
    OBVIOUS
  <2> QED BY <2>2, <2>3
<1>4. g[n] = 0
  <2> SUFFICES ASSUME g[n] # 0 PROVE FALSE
    OBVIOUS
  <2> DEFINE owing == {i \in 0 .. n : g[i] # 0}
             Less == {p \in Nat \X Nat : p[1] < p[2]}
  <2>1. IsWellFoundedOn(Less, Nat)
    BY NatLessThanWellFounded DEF OpToRel
  <2>2. owing \in SUBSET Nat /\ n \in owing
    OBVIOUS
  <2>3. \E i \in owing : \A j \in owing : <<j, i>> \notin Less
    <3> HIDE DEF Less, owing
    <3> QED BY <2>1, <2>2, WFMin, Zenon
  <2>4. PICK i \in owing : \A j \in owing : <<j, i>> \notin Less
    BY <2>3
  <2>5. i # 0 /\ i \in 1 .. n
    BY <1>2 DEF Totals
  <2>6. i - 1 \in owing
    BY <1>3, <2>5
  <2>7. <<i - 1, i>> \in Less
    BY <2>5
  <2> QED BY <2>4, <2>6, <2>7
<1> QED BY <1>2, <1>4 DEF ApiInv, ApiTypeOK

\* What the providers billed is in the usage log once every thread is idle, if no commit
\* failed and no process died.
THEOREM ApiSpendBounded == ApiSpec => []SpendIsBounded
<1>1. ApiInit => LoggedOK
  BY LoggedInit
<1>2. ApiInv /\ LoggedOK /\ [ApiNext]_apiVars => LoggedOK'
  BY LoggedStep
<1>3. ApiSpec => []LoggedOK
  BY <1>1, <1>2, ApiInductive, PTL DEF ApiSpec
<1>4. ApiInv /\ LoggedOK => SpendIsLogged
  BY NothingOwed
<1>5. SpendIsBounded <=> (OverspendIsBounded /\ PaperSpendIsBounded) /\ SpendIsLogged
  BY DEF SpendIsBounded
<1> QED BY <1>3, <1>4, <1>5, ApiInductive, ApiOverspend, PTL

-----------------------------------------------------------------------------
(* The papers. *)

\* A thread at its chunks writes to an open paper of its own, one run for each chunk so far.
PaperAt(t) ==
  threads[t].pc \in ChunkPcs =>
    /\ threads[t].paper \in DOMAIN papers
    /\ LET p == papers[threads[t].paper] IN
       /\ p.status = "open" /\ p.work = threads[t].work /\ p.text = threads[t].text
       /\ Len(p.maps) + 1 = threads[t].chunk
       /\ threads[t].pc \in {"usage", "reduce"} => Len(p.maps) = p.count
       /\ threads[t].pc \in {"chunk", "chunkcall", "chunkrow"} => Len(p.maps) <= p.count
       /\ threads[t].pc \in {"chunkcall", "chunkrow"} => Len(p.maps) < p.count

Apart ==
  \A t, u \in NoteThreads :
    threads[t].pc \in ChunkPcs /\ threads[u].pc \in ChunkPcs /\ threads[t].paper = threads[u].paper => t = u

\* What ReduceAccountsForChunks says of one paper.
AllOf(p) == {p.maps[k].status : k \in DOMAIN p.maps}
Accounts(p) ==
  /\ p.count > 0
  /\ \A k \in DOMAIN p.maps : p.maps[k].index = k
  /\ p.status # "open" => Len(p.maps) = p.count
  /\ p.status = "success" => "success" \in AllOf(p) /\ HasNote(p.work, p.text)
  /\ p.status = "skipped_budget" => AllOf(p) = {"skipped_budget"}
  /\ p.status = "extraction_failed" => "extraction_failed" \in AllOf(p) /\ "success" \notin AllOf(p)

PapersInv ==
  /\ \A t \in NoteThreads : PaperAt(t)
  /\ Apart
  /\ \A p \in {papers[i] : i \in DOMAIN papers} : Accounts(p)

\* The notes only grow.
LEMMA NotesGrow ==
  ASSUME ApiTypeOK, notes' = notes \/ \E n \in AnyNote : notes' = Append(notes, n), NEW w, NEW h, HasNote(w, h)
  PROVE  HasNote(w, h)'
<1>1. CASE notes' = notes
  BY <1>1 DEF HasNote
<1>2. ASSUME NEW n \in AnyNote, notes' = Append(notes, n) PROVE HasNote(w, h)'
  <2>1. notes \in Seq(AnyNote)
    BY DEF ApiTypeOK
  <2>2. PICK i \in DOMAIN notes : notes[i].work = w /\ notes[i].text = h
    BY DEF HasNote
  <2>3. i \in DOMAIN notes' /\ notes'[i] = notes[i]
    BY <1>2, <2>1, <2>2, AppendProperties
  <2> QED BY <2>2, <2>3 DEF HasNote
<1> QED BY <1>1, <1>2

\* Steps that leave the papers alone.
LEMMA PapersStay ==
  ASSUME ApiTypeOK, PapersInv, UNCHANGED papers,
         notes' = notes \/ \E n \in AnyNote : notes' = Append(notes, n),
         \A u \in NoteThreads :
           threads'[u].pc \in ChunkPcs =>
             /\ threads[u].pc \in ChunkPcs /\ threads'[u].paper = threads[u].paper
             /\ PaperAt(u)'
  PROVE  PapersInv'
<1>1. \A t \in NoteThreads : PaperAt(t)'
  BY DEF PaperAt
<1>2. Apart'
  BY DEF PapersInv, Apart
<1>3. ASSUME NEW p \in {papers[i] : i \in DOMAIN papers} PROVE Accounts(p)'
  <2>1. Accounts(p)
    BY <1>3 DEF PapersInv
  <2> QED BY <2>1, NotesGrow DEF Accounts
<1> QED BY <1>1, <1>2, <1>3 DEF PapersInv

\* A thread writes to its own paper; the others' papers are others.
LEMMA PaperMoves ==
  ASSUME ApiTypeOK, PapersInv, NEW t \in NoteThreads, NEW i, NEW p, threads[t].pc \in ChunkPcs, i = threads[t].paper,
         papers' = [papers EXCEPT ![i] = p],
         notes' = notes \/ \E n \in AnyNote : notes' = Append(notes, n),
         \A u \in NoteThreads : u # t => threads'[u] = threads[u],
         threads'[t].pc \in ChunkPcs => threads'[t].paper = i /\ PaperAt(t)',
         Accounts(p)'
  PROVE  PapersInv'
<1>1. papers \in Seq(AnyPaper) /\ i \in DOMAIN papers
  BY DEF ApiTypeOK, PapersInv, PaperAt
<1>2. /\ DOMAIN papers' = DOMAIN papers /\ papers'[i] = p
      /\ \A j \in DOMAIN papers : j # i => papers'[j] = papers[j]
  BY <1>1
<1>3. ASSUME NEW u \in NoteThreads PROVE PaperAt(u)'
  <2>1. CASE u = t
    BY <2>1 DEF PaperAt
  <2>2. CASE u # t
    <3>1. threads'[u] = threads[u] /\ PaperAt(u)
      BY <2>2 DEF PapersInv
    <3>2. threads[u].pc \in ChunkPcs => threads[u].paper # i
      BY <2>2 DEF PapersInv, Apart
    <3> QED BY <1>2, <3>1, <3>2 DEF PaperAt
  <2> QED BY <2>1, <2>2
<1>4. Apart'
  BY DEF PapersInv, Apart
<1>5. ASSUME NEW q \in {papers'[j] : j \in DOMAIN papers'} PROVE Accounts(q)'
  <2>1. CASE q = p
    BY <2>1
  <2>2. CASE q # p
    <3>1. q \in {papers[j] : j \in DOMAIN papers}
      BY <1>2, <1>5, <2>2
    <3>2. Accounts(q)
      BY <3>1 DEF PapersInv
    <3> QED BY <3>2, NotesGrow DEF Accounts
  <2> QED BY <2>1, <2>2
<1> QED BY <1>3, <1>4, <1>5 DEF PapersInv

\* A chunk is counted when one has that status.
LEMMA CountsTell ==
  ASSUME NEW t \in NoteThreads, NEW S, papers[threads[t].paper] \in AnyPaper
  PROVE  Count(t, S) > 0 <=> \E s \in AllOf(papers[threads[t].paper]) : s \in S
<1> DEFINE maps == papers[threads[t].paper].maps
           ks == {k \in DOMAIN maps : maps[k].status \in S}
<1>1. maps \in Seq(AnyMap) /\ DOMAIN maps = 1 .. Len(maps) /\ Len(maps) \in Nat
  BY DEF AnyPaper
<1>2. IsFiniteSet(1 .. Len(maps))
  BY <1>1, FS_Interval
<1>3. IsFiniteSet(ks)
  <2>1. ks \in SUBSET (1 .. Len(maps))
    BY <1>1
  <2> HIDE DEF ks, maps
  <2> QED BY <1>2, <2>1, FS_Subset
<1>4. Cardinality(ks) \in Nat /\ (Cardinality(ks) = 0 <=> ks = {})
  <2> HIDE DEF ks
  <2> QED BY <1>3, FS_CardinalityType, FS_EmptySet
<1>5. Count(t, S) = Cardinality(ks)
  BY DEF Count
<1>6. ks # {} <=> \E s \in AllOf(papers[threads[t].paper]) : s \in S
  BY DEF AllOf
<1> HIDE DEF ks
<1> QED BY <1>4, <1>5, <1>6

\* The status of a paper whose chunks all have their runs follows from theirs.
LEMMA ReduceTells ==
  ASSUME NEW t \in NoteThreads, papers[threads[t].paper] \in AnyPaper, papers[threads[t].paper].maps # << >>
  PROVE  LET all == AllOf(papers[threads[t].paper]) IN
         /\ ReduceStatus(t) = "success" => "success" \in all
         /\ ReduceStatus(t) = "skipped_budget" => all = {"skipped_budget"}
         /\ ReduceStatus(t) = "extraction_failed" => "extraction_failed" \in all /\ "success" \notin all
<1> DEFINE p == papers[threads[t].paper]
<1>1. AllOf(p) \in SUBSET MapStatus /\ AllOf(p) # {}
  <2>1. p.maps \in Seq(AnyMap) /\ p.maps # << >>
    BY DEF AnyPaper
  <2> HIDE DEF p
  <2>2. 1 \in DOMAIN p.maps
    BY <2>1
  <2>3. \A k \in DOMAIN p.maps : p.maps[k].status \in MapStatus
    <3> SUFFICES ASSUME NEW k \in DOMAIN p.maps PROVE p.maps[k].status \in MapStatus
      OBVIOUS
    <3>0. PICK m : m = p.maps
      OBVIOUS
    <3>1. m \in Seq(AnyMap) /\ k \in DOMAIN m
      BY <2>1, <3>0
    <3>2. m[k] \in AnyMap
      BY <3>1
    <3> QED BY <3>0, <3>2 DEF AnyMap
  <2> QED BY <2>2, <2>3 DEF AllOf
<1>2. \A s : Count(t, {s}) > 0 <=> s \in AllOf(p)
  BY CountsTell
<1>3. Count(t, {"extraction_failed"}) = 0 <=> ~(Count(t, {"extraction_failed"}) > 0)
  <2>1. Count(t, {"extraction_failed"}) \in Nat
    <3> DEFINE ks == {k \in DOMAIN p.maps : p.maps[k].status \in {"extraction_failed"}}
    <3>1. ks \in SUBSET (1 .. Len(p.maps)) /\ Len(p.maps) \in Nat
      BY DEF AnyPaper
    <3>2. IsFiniteSet(ks)
      <4>1. IsFiniteSet(1 .. Len(p.maps))
        <5>1. 1 \in Int /\ Len(p.maps) \in Int
          BY <3>1
        <5> HIDE DEF ks, p
        <5> QED BY <5>1, FS_Interval
      <4> HIDE DEF ks, p
      <4> QED BY <3>1, <4>1, FS_Subset
    <3>3. Cardinality(ks) \in Nat
      BY <3>2, FS_CardinalityType
    <3> QED BY <3>3 DEF Count
  <2> QED BY <2>1
<1> HIDE DEF p
<1>4. /\ ReduceStatus(t) = "success" => "success" \in AllOf(p)
      /\ ReduceStatus(t) = "skipped_budget" =>
           "success" \notin AllOf(p) /\ "skipped_oversize_section" \notin AllOf(p) /\ "extraction_failed" \notin AllOf(p)
      /\ ReduceStatus(t) = "extraction_failed" =>
           /\ "success" \notin AllOf(p) /\ "skipped_oversize_section" \notin AllOf(p)
           /\ "skipped_budget" \notin AllOf(p) \/ "extraction_failed" \in AllOf(p)
  BY <1>2, <1>3 DEF ReduceStatus
<1>5. /\ ReduceStatus(t) = "success" => "success" \in AllOf(p)
      /\ ReduceStatus(t) = "skipped_budget" => AllOf(p) = {"skipped_budget"}
      /\ ReduceStatus(t) = "extraction_failed" => "extraction_failed" \in AllOf(p) /\ "success" \notin AllOf(p)
  BY <1>1, <1>4 DEF MapStatus
<1> QED BY <1>5 DEF p

LEMMA PapersInit ==
  ASSUME ApiInit
  PROVE  PapersInv
BY DEF ApiInit, ApiStart, PapersInv, PaperAt, Apart, Idle, ChunkPcs

\* A chunk has its run.
LEMMA MappedKeeps ==
  ASSUME ApiInv, PapersInv, NEW t \in NoteThreads, NEW status \in MapStatus, Mapped(t, status),
         threads[t].pc \in {"chunk", "chunkrow"}, Len(papers[threads[t].paper].maps) < papers[threads[t].paper].count,
         notes' = notes, \A u \in NoteThreads : u # t => threads'[u] = threads[u],
         threads'[t].pc = "chunk", threads'[t].work = threads[t].work, threads'[t].text = threads[t].text,
         threads'[t].paper = threads[t].paper, threads'[t].chunk = threads[t].chunk + 1
  PROVE  PapersInv'
<1>1. PICK i, p : i = threads[t].paper /\ p = papers[i]
  OBVIOUS
<1>2. /\ ApiTypeOK /\ papers \in Seq(AnyPaper) /\ i \in DOMAIN papers /\ PaperAt(t) /\ Accounts(p)
      /\ threads[t] \in AnyThread /\ threads[t].pc \in ChunkPcs
  BY <1>1 DEF ApiInv, ApiTypeOK, PapersInv, PaperAt, ChunkPcs
<1>3. p \in AnyPaper
  BY <1>1, <1>2
<1>4. PICK row : row = [index |-> threads[t].chunk, status |-> status]
  OBVIOUS
<1>5. PICK q : q = [p EXCEPT !.maps = Append(p.maps, row)]
  OBVIOUS
<1>6. papers' = [papers EXCEPT ![i] = q]
  BY <1>1, <1>2, <1>3, <1>4, <1>5 DEF Mapped, AnyPaper
<1>7. /\ q.work = p.work /\ q.text = p.text /\ q.count = p.count /\ q.status = p.status
      /\ q.maps = Append(p.maps, row) /\ p.count \in Nat /\ Len(p.maps) \in Nat
      /\ Len(q.maps) = Len(p.maps) + 1 /\ DOMAIN q.maps = 1 .. Len(p.maps) + 1
      /\ q.maps[Len(p.maps) + 1] = row /\ \A k \in 1 .. Len(p.maps) : q.maps[k] = p.maps[k]
  BY <1>3, <1>5, AppendProperties DEF AnyPaper
<1>8. p.status = "open" /\ p.work = threads[t].work /\ p.text = threads[t].text /\ Len(p.maps) + 1 = threads[t].chunk
  BY <1>1, <1>2 DEF PaperAt
<1>9. papers'[i] = q /\ i \in DOMAIN papers' /\ Len(p.maps) < p.count /\ threads[t].chunk \in Nat
  BY <1>1, <1>2, <1>6 DEF AnyThread
<1>10. PaperAt(t)'
  <2>1. threads'[t].paper = i /\ papers'[threads'[t].paper] = q
    BY <1>1, <1>9
  <2>2. Len(q.maps) + 1 = threads[t].chunk + 1 /\ Len(q.maps) <= q.count
    BY <1>7, <1>8, <1>9
  <2> QED BY <1>7, <1>8, <1>9, <2>1, <2>2 DEF PaperAt
<1>11. Accounts(q)'
  <2>1. \A k \in DOMAIN q.maps : q.maps[k].index = k
    <3> SUFFICES ASSUME NEW k \in DOMAIN q.maps PROVE q.maps[k].index = k
      OBVIOUS
    <3>1. DOMAIN p.maps = 1 .. Len(p.maps)
      BY <1>3 DEF AnyPaper
    <3>2. CASE k \in 1 .. Len(p.maps)
      BY <1>2, <1>7, <3>1, <3>2 DEF Accounts
    <3>3. CASE k = Len(p.maps) + 1
      BY <1>4, <1>7, <1>8, <3>3
    <3> QED BY <1>7, <3>2, <3>3
  <2> QED BY <1>2, <1>7, <1>8, <2>1 DEF Accounts
<1> QED BY <1>1, <1>2, <1>6, <1>10, <1>11, PaperMoves

LEMMA AdmitChunksPapers ==
  ASSUME ApiInv, PapersInv, NEW t \in NoteThreads, AdmitChunks(t)
  PROVE  PapersInv'
<1>1. /\ ApiTypeOK /\ ControlAt(t) /\ threads[t] \in AnyThread
      /\ noteCfg \in AnyNoteConfig /\ threads \in [NoteThreads -> AnyThread] /\ papers \in Seq(AnyPaper)
  BY DEF ApiInv, ThreadsOK, ApiTypeOK
<1>2. /\ threads[t].pc = "admitchunks" /\ threads[t].work \in NoteWorks /\ notes' = notes
      /\ \A u \in NoteThreads : u # t => threads'[u] = threads[u]
  BY <1>1 DEF AdmitChunks, ControlAt, Go
<1>3. CASE ChunkVerdict(t) # "go"
  <2>1. papers' = papers /\ threads'[t].pc = "idle"
    BY <1>1, <1>3 DEF AdmitChunks, Idle
  <2>2. \A u \in NoteThreads : threads'[u].pc \in ChunkPcs =>
          threads[u].pc \in ChunkPcs /\ threads'[u].paper = threads[u].paper /\ PaperAt(u)'
    BY <1>2, <2>1 DEF ChunkPcs, PapersInv, PaperAt
  <2> QED BY <1>1, <1>2, <2>1, <2>2, PapersStay
<1>4. CASE ChunkVerdict(t) = "go"
  <2>1. PICK q : q = [work |-> threads[t].work, text |-> text[threads[t].work],
                      count |-> Len(noteCfg.chunks[threads[t].work]), maps |-> << >>, status |-> "open"]
    OBVIOUS
  <2>2. papers' = Append(papers, q)
    BY <1>4, <2>1 DEF AdmitChunks
  <2>3. /\ threads'[t].pc = "chunk" /\ threads'[t].paper = Len(papers) + 1 /\ threads'[t].chunk = 1
        /\ threads'[t].work = threads[t].work /\ threads'[t].text = text[threads[t].work]
    BY <1>1, <1>4 DEF AdmitChunks, Go, AnyThread
  <2>4. q.count \in Nat /\ q.count > 0 /\ q.maps = << >> /\ q.status = "open"
    <3>1. noteCfg.chunks[threads[t].work] \in Seq({"fits", "over"}) /\ noteCfg.chunks[threads[t].work] # << >>
      BY <1>1, <1>2, <1>4, VerdictsHaveText DEF AnyNoteConfig
    <3> QED BY <2>1, <3>1
  <2>5. q \in AnyPaper
    <3>1. text[threads[t].work] \in Nat
      BY <1>1, <1>2, <1>4, VerdictsHaveText DEF ApiTypeOK
    <3> QED BY <1>2, <2>1, <2>4, <3>1 DEF AnyPaper
  <2>6. /\ DOMAIN papers = 1 .. Len(papers) /\ DOMAIN papers' = 1 .. Len(papers) + 1 /\ Len(papers) \in Nat
        /\ \A i \in 1 .. Len(papers) : papers'[i] = papers[i]
        /\ papers'[Len(papers) + 1] = q
    BY <1>1, <2>2, <2>5, AppendProperties
  <2>7. ASSUME NEW u \in NoteThreads PROVE PaperAt(u)'
    <3>1. CASE u = t
      <4>1. Len(q.maps) = 0 /\ papers'[threads'[t].paper] = q /\ threads'[t].paper \in DOMAIN papers'
        BY <2>3, <2>4, <2>6
      <4> QED BY <2>1, <2>3, <2>4, <3>1, <4>1 DEF PaperAt
    <3>2. CASE u # t
      <4>1. threads'[u] = threads[u] /\ PaperAt(u)
        BY <1>2, <3>2 DEF PapersInv
      <4>2. threads[u].pc \in ChunkPcs =>
              /\ threads[u].paper \in DOMAIN papers /\ threads[u].paper \in DOMAIN papers'
              /\ papers'[threads[u].paper] = papers[threads[u].paper]
        BY <2>6, <4>1 DEF PaperAt
      <4> QED BY <4>1, <4>2 DEF PaperAt
    <3> QED BY <3>1, <3>2
  <2>8. Apart'
    <3>1. \A u \in NoteThreads : u # t /\ threads[u].pc \in ChunkPcs => threads[u].paper # Len(papers) + 1
      BY <2>6 DEF PapersInv, PaperAt
    <3> QED BY <1>2, <2>3, <3>1 DEF PapersInv, Apart
  <2>9. ASSUME NEW p \in {papers'[i] : i \in DOMAIN papers'} PROVE Accounts(p)'
    <3>1. CASE p = q
      <4>1. DOMAIN q.maps = {}
        BY <2>4
      <4> QED BY <2>4, <3>1, <4>1 DEF Accounts
    <3>2. CASE p # q
      <4>1. p \in {papers[i] : i \in DOMAIN papers}
        BY <2>6, <2>9, <3>2
      <4>2. Accounts(p)
        BY <4>1 DEF PapersInv
      <4> QED BY <1>1, <1>2, <4>2, NotesGrow DEF Accounts
    <3> QED BY <3>1, <3>2
  <2> QED BY <2>7, <2>8, <2>9 DEF PapersInv
<1> QED BY <1>3, <1>4

LEMMA ChunkPapers ==
  ASSUME ApiInv, PapersInv, NEW t \in NoteThreads, Chunk(t)
  PROVE  PapersInv'
<1>1. /\ ApiTypeOK /\ threads[t] \in AnyThread /\ threads \in [NoteThreads -> AnyThread] /\ PaperAt(t)
      /\ papers \in Seq(AnyPaper) /\ threads[t].chunk \in Nat
  BY DEF ApiInv, ApiTypeOK, PapersInv, AnyThread
<1>2. /\ threads[t].pc = "chunk" /\ notes' = notes
      /\ \A u \in NoteThreads : u # t => threads'[u] = threads[u]
  BY <1>1 DEF Chunk
<1>3. PICK p : p = papers[threads[t].paper]
  OBVIOUS
<1>4. /\ p \in AnyPaper /\ p.count \in Nat /\ Len(p.maps) \in Nat
      /\ Len(p.maps) + 1 = threads[t].chunk /\ Len(p.maps) <= p.count
  <2>1. threads[t].paper \in DOMAIN papers /\ Len(p.maps) + 1 = threads[t].chunk /\ Len(p.maps) <= p.count
    BY <1>1, <1>2, <1>3 DEF PaperAt, ChunkPcs
  <2>2. p \in AnyPaper
    BY <1>1, <1>3, <2>1
  <2>3. p.count \in Nat /\ p.maps \in Seq(AnyMap)
    BY <2>2 DEF AnyPaper
  <2> QED BY <2>1, <2>2, <2>3
<1>5. CASE papers' = papers
  <2>1. \/ threads'[t] = [threads[t] EXCEPT !.pc = "usage"] /\ threads[t].chunk > p.count
        \/ threads'[t] = [threads[t] EXCEPT !.pc = "chunkcall"] /\ ~(threads[t].chunk > p.count)
        \/ \E s \in MapStatus : Mapped(t, s) /\ threads'[t] = [threads[t] EXCEPT !.chunk = @ + 1]
                                /\ ~(threads[t].chunk > p.count)
    BY <1>1, <1>3 DEF Chunk, MapStatus
  <2>2. ~\E s \in MapStatus : Mapped(t, s)
    <3> SUFFICES ASSUME NEW s \in MapStatus, Mapped(t, s) PROVE FALSE
      OBVIOUS
    <3>1. threads[t].paper \in DOMAIN papers
      BY <1>1, <1>2 DEF PaperAt, ChunkPcs
    <3>2. papers'[threads[t].paper].maps = Append(p.maps, [index |-> threads[t].chunk, status |-> s])
      BY <1>1, <1>3, <1>4, <3>1 DEF Mapped, AnyPaper
    <3>3. [index |-> threads[t].chunk, status |-> s] \in AnyMap /\ p.maps \in Seq(AnyMap)
      BY <1>1, <1>4 DEF AnyMap, AnyPaper
    <3>4. Len(papers'[threads[t].paper].maps) = Len(p.maps) + 1
      BY <3>2, <3>3, AppendProperties
    <3>5. Len(papers'[threads[t].paper].maps) = Len(p.maps)
      BY <1>3, <1>5
    <3> QED BY <1>4, <3>4, <3>5
  <2>3. /\ threads'[t].paper = threads[t].paper /\ threads'[t].work = threads[t].work
        /\ threads'[t].text = threads[t].text /\ threads'[t].chunk = threads[t].chunk
        /\ \/ threads'[t].pc = "usage" /\ threads[t].chunk > p.count
           \/ threads'[t].pc = "chunkcall" /\ ~(threads[t].chunk > p.count)
    <3>1. \E pc \in {"usage", "chunkcall"} : threads'[t] = [threads[t] EXCEPT !.pc = pc]
            /\ (pc = "usage" <=> threads[t].chunk > p.count)
      BY <2>1, <2>2
    <3>2. PICK pc \in {"usage", "chunkcall"} : threads'[t] = [threads[t] EXCEPT !.pc = pc]
            /\ (pc = "usage" <=> threads[t].chunk > p.count)
      BY <3>1
    <3>3. PICK th : th = threads[t]
      OBVIOUS
    <3>4. threads'[t] = [th EXCEPT !.pc = pc] /\ th \in AnyThread
      BY <1>1, <3>2, <3>3
    <3>5. threads'[t].pc = pc
      BY <3>4 DEF AnyThread
    <3>6. /\ threads'[t].paper = th.paper /\ threads'[t].work = th.work
          /\ threads'[t].text = th.text /\ threads'[t].chunk = th.chunk
      BY <3>4 DEF AnyThread
    <3>7. \/ threads'[t].pc = "usage" /\ threads[t].chunk > p.count
          \/ threads'[t].pc = "chunkcall" /\ ~(threads[t].chunk > p.count)
      <4>1. pc = "usage" <=> threads[t].chunk > p.count
        BY <3>2
      <4> HIDE <3>2
      <4> QED BY <3>5, <4>1
    <3>8. /\ threads'[t].paper = threads[t].paper /\ threads'[t].work = threads[t].work
          /\ threads'[t].text = threads[t].text /\ threads'[t].chunk = threads[t].chunk
      BY <3>3, <3>6
    <3> QED BY <3>7, <3>8
  <2>4. PaperAt(t)'
    <3>1. /\ threads[t].paper \in DOMAIN papers /\ p.status = "open" /\ p.work = threads[t].work
          /\ p.text = threads[t].text
      BY <1>1, <1>2, <1>3 DEF PaperAt, ChunkPcs
    <3>2. /\ threads'[t].pc \in {"usage", "reduce"} => Len(p.maps) = p.count
          /\ threads'[t].pc \in {"chunkcall", "chunkrow"} => Len(p.maps) < p.count
      BY <1>4, <2>3
    <3>3. papers'[threads'[t].paper] = p /\ threads'[t].paper \in DOMAIN papers'
      BY <1>3, <1>5, <2>3, <3>1
    <3> QED BY <1>4, <2>3, <3>1, <3>2, <3>3 DEF PaperAt
  <2>5. \A u \in NoteThreads : threads'[u].pc \in ChunkPcs =>
          threads[u].pc \in ChunkPcs /\ threads'[u].paper = threads[u].paper /\ PaperAt(u)'
    BY <1>2, <1>5, <2>3, <2>4 DEF ChunkPcs, PapersInv, PaperAt
  <2> QED BY <1>1, <1>2, <1>5, <2>5, PapersStay
<1>6. CASE papers' # papers
  <2>1. PICK s \in MapStatus : Mapped(t, s) /\ threads'[t] = [threads[t] EXCEPT !.chunk = @ + 1]
                                /\ ~(threads[t].chunk > p.count)
    BY <1>1, <1>3, <1>6 DEF Chunk, MapStatus
  <2>2. /\ threads'[t].paper = threads[t].paper /\ threads'[t].work = threads[t].work
        /\ threads'[t].text = threads[t].text /\ threads'[t].chunk = threads[t].chunk + 1
        /\ threads'[t].pc = "chunk"
    BY <1>1, <1>2, <2>1 DEF AnyThread
  <2>3. Len(papers[threads[t].paper].maps) < papers[threads[t].paper].count
    BY <1>3, <1>4, <2>1
  <2> QED BY <1>2, <2>1, <2>2, <2>3, MappedKeeps
<1> QED BY <1>5, <1>6

LEMMA ChunkRowPapers ==
  ASSUME ApiInv, PapersInv, NEW t \in NoteThreads, ChunkRow(t)
  PROVE  PapersInv'
<1>1. /\ ApiTypeOK /\ threads[t] \in AnyThread /\ threads \in [NoteThreads -> AnyThread] /\ PaperAt(t)
  BY DEF ApiInv, ApiTypeOK, PapersInv
<1>2. /\ threads[t].pc = "chunkrow" /\ notes' = notes
      /\ \A u \in NoteThreads : u # t => threads'[u] = threads[u]
      /\ threads'[t].paper = threads[t].paper /\ threads'[t].work = threads[t].work
      /\ threads'[t].text = threads[t].text /\ threads'[t].chunk = threads[t].chunk + 1
      /\ threads'[t].pc = "chunk"
  BY <1>1 DEF ChunkRow, AnyThread
<1>3. Len(papers[threads[t].paper].maps) < papers[threads[t].paper].count
  BY <1>1, <1>2 DEF PaperAt, ChunkPcs
<1>4. PICK s \in MapStatus : Mapped(t, s)
  BY DEF ChunkRow, MapStatus
<1> QED BY <1>2, <1>3, <1>4, MappedKeeps

\* The paper is closed with the status of its chunks, and its note is there if that is success.
LEMMA ReducePapers ==
  ASSUME ApiInv, PapersInv, NEW t \in NoteThreads, Reduce(t)
  PROVE  PapersInv'
<1>1. /\ ApiTypeOK /\ ControlAt(t) /\ threads[t] \in AnyThread /\ threads \in [NoteThreads -> AnyThread] /\ PaperAt(t)
      /\ papers \in Seq(AnyPaper) /\ notes \in Seq(AnyNote)
  BY DEF ApiInv, ApiTypeOK, ThreadsOK, PapersInv
<1>2. /\ threads[t].pc = "reduce" /\ threads[t].pc \in ChunkPcs /\ threads'[t].pc = "idle"
      /\ \A u \in NoteThreads : u # t => threads'[u] = threads[u]
      /\ threads[t].work \in NoteWorks /\ threads[t].text \in Nat
  BY <1>1 DEF Reduce, Idle, ControlAt, ChunkPcs
<1>3. PICK i, p, s, q : /\ i = threads[t].paper /\ p = papers[i] /\ s = ReduceStatus(t)
                        /\ q = [p EXCEPT !.status = s]
  OBVIOUS
<1>4. /\ i \in DOMAIN papers /\ p \in AnyPaper /\ p.work = threads[t].work /\ p.text = threads[t].text
      /\ Len(p.maps) = p.count /\ Accounts(p)
  BY <1>1, <1>2, <1>3 DEF PaperAt, PapersInv
<1>5. papers' = [papers EXCEPT ![i] = q]
  BY <1>1, <1>3, <1>4 DEF Reduce
<1>6. q.work = p.work /\ q.text = p.text /\ q.count = p.count /\ q.maps = p.maps /\ q.status = s /\ s \in MapStatus
  BY <1>3, <1>4, ReduceStatusIsOne DEF AnyPaper
<1>7. p.maps # << >>
  BY <1>4 DEF Accounts, AnyPaper
<1>8. PICK note \in AnyNote : note = [work |-> p.work, text |-> p.text, by |-> "chunked"]
  BY <1>2, <1>4 DEF AnyNote
<1>9. notes' = IF s = "success" THEN Append(notes, note) ELSE notes
  BY <1>3, <1>4, <1>8 DEF Reduce, Noted
<1>10. s = "success" => HasNote(q.work, q.text)'
  <2> HAVE s = "success"
  <2>1. notes' = Append(notes, note)
    BY <1>9
  <2>2. Len(notes) + 1 \in DOMAIN notes' /\ notes'[Len(notes) + 1] = note
    BY <1>1, <2>1, AppendProperties
  <2> QED BY <1>6, <1>8, <2>2 DEF HasNote
<1>11. Accounts(q)'
  <2>1. AllOf(q) = AllOf(p)
    BY <1>6 DEF AllOf
  <2>2. /\ s = "success" => "success" \in AllOf(p)
        /\ s = "skipped_budget" => AllOf(p) = {"skipped_budget"}
        /\ s = "extraction_failed" => "extraction_failed" \in AllOf(p) /\ "success" \notin AllOf(p)
    BY <1>3, <1>4, <1>7, ReduceTells
  <2> QED BY <1>4, <1>6, <1>10, <2>1, <2>2 DEF Accounts
<1>12. notes' = notes \/ \E n \in AnyNote : notes' = Append(notes, n)
  BY <1>9
<1>13. threads'[t].pc \notin ChunkPcs
  BY <1>2 DEF ChunkPcs
<1> QED BY <1>1, <1>2, <1>3, <1>5, <1>11, <1>12, <1>13, PaperMoves

LEMMA PapersStep ==
  ASSUME ApiInv, PapersInv, [ApiNext]_apiVars
  PROVE  PapersInv'
<1>0. ApiTypeOK /\ threads \in [NoteThreads -> AnyThread] /\ \A t \in NoteThreads : threads[t] \in AnyThread
  BY DEF ApiInv, ApiTypeOK
<1>1. ASSUME papers' = papers, notes' = notes \/ \E n \in AnyNote : notes' = Append(notes, n),
             \A u \in NoteThreads : threads'[u].pc \in ChunkPcs => threads'[u] = threads[u]
      PROVE  PapersInv'
  <2>1. \A u \in NoteThreads : threads'[u].pc \in ChunkPcs =>
          threads[u].pc \in ChunkPcs /\ threads'[u].paper = threads[u].paper /\ PaperAt(u)'
    BY <1>1 DEF PapersInv, PaperAt
  <2> QED BY <1>0, <1>1, <2>1, PapersStay
<1>2. ASSUME NEW t \in NoteThreads, Take(t) \/ Admit(t) \/ Account(t) \/ Locked(t) PROVE PapersInv'
  <2>1. papers' = papers /\ notes' = notes
    BY <1>2 DEF Take, Admit, Account, Locked
  <2>2. \A u \in NoteThreads : u # t => threads'[u] = threads[u]
    BY <1>0, <1>2 DEF Take, Admit, Account, Locked, Go
  <2>3. threads'[t].pc \notin ChunkPcs
    <3>1. CASE Take(t)
      BY <1>0, <3>1 DEF Take, Idle, ChunkPcs
    <3>2. CASE Admit(t)
      BY <1>0, <3>2 DEF Admit, Go, Idle, ChunkPcs, AnyThread
    <3>3. CASE Account(t) \/ Locked(t)
      BY <1>0, <3>3 DEF Account, Locked, Idle, ChunkPcs
    <3> QED BY <1>2, <3>1, <3>2, <3>3
  <2> QED BY <1>1, <2>1, <2>2, <2>3
<1>3. ASSUME NEW t \in NoteThreads, Save(t) PROVE PapersInv'
  <2>1. notes' = notes \/ \E n \in AnyNote : notes' = Append(notes, n)
    <3>1. threads[t].work \in NoteWorks /\ threads[t].text \in Nat
      BY <1>3 DEF ApiInv, ThreadsOK, ControlAt, Save
    <3>2. [work |-> threads[t].work, text |-> threads[t].text, by |-> "whole"] \in AnyNote
      BY <3>1 DEF AnyNote
    <3> QED BY <1>3, <3>2 DEF Save, Noted
  <2> QED BY <1>0, <1>1, <1>3, <2>1 DEF Save, ChunkPcs
<1>4. ASSUME NEW t \in NoteThreads, Usage(t) \/ \E good \in BOOLEAN, cost \in 0 .. MaxCost : Answer(t, good, cost)
      PROVE  PapersInv'
  <2>1. /\ papers' = papers /\ notes' = notes /\ \A u \in NoteThreads : u # t => threads'[u] = threads[u]
        /\ threads'[t].paper = threads[t].paper /\ threads'[t].work = threads[t].work
        /\ threads'[t].text = threads[t].text /\ threads'[t].chunk = threads[t].chunk
        /\ \/ threads[t].pc = "usage" /\ threads'[t].pc = "reduce"
           \/ threads[t].pc = "chunkcall" /\ threads'[t].pc = "chunkrow"
           \/ threads[t].pc = "call" /\ threads'[t].pc = "save"
    <3>1. CASE Usage(t)
      BY <1>0, <3>1 DEF Usage, AnyThread
    <3>2. ASSUME NEW good \in BOOLEAN, NEW cost \in 0 .. MaxCost, Answer(t, good, cost)
          PROVE  /\ papers' = papers /\ notes' = notes /\ \A u \in NoteThreads : u # t => threads'[u] = threads[u]
                 /\ threads'[t].paper = threads[t].paper /\ threads'[t].work = threads[t].work
                 /\ threads'[t].text = threads[t].text /\ threads'[t].chunk = threads[t].chunk
                 /\ \/ threads[t].pc = "chunkcall" /\ threads'[t].pc = "chunkrow"
                    \/ threads[t].pc = "call" /\ threads'[t].pc = "save"
      BY <1>0, <3>2 DEF Answer, AnyThread
    <3> QED BY <1>4, <3>1, <3>2
  <2>2. \A u \in NoteThreads : threads'[u].pc \in ChunkPcs =>
          threads[u].pc \in ChunkPcs /\ threads'[u].paper = threads[u].paper /\ PaperAt(u)'
    <3>1. PaperAt(t)'
      BY <2>1 DEF PapersInv, PaperAt, ChunkPcs
    <3>2. ASSUME NEW u \in NoteThreads, u # t PROVE threads'[u] = threads[u] /\ PaperAt(u)'
      BY <2>1, <3>2 DEF PapersInv, PaperAt
    <3>3. threads'[t].pc \in ChunkPcs => threads[t].pc \in ChunkPcs
      BY <2>1 DEF ChunkPcs
    <3> QED BY <2>1, <3>1, <3>2, <3>3
  <2> QED BY <1>0, <2>1, <2>2, PapersStay
<1>5. ASSUME NEW c \in Commands, CommandDies(c) PROVE PapersInv'
  <2>1. \A u \in NoteThreads : threads'[u] = IF Of(u) = c THEN Idle ELSE threads[u]
    BY <1>5 DEF CommandDies
  <2> QED BY <1>1, <1>5, <2>1 DEF CommandDies, Idle, ChunkPcs
<1>6. ASSUME UNCHANGED <<papers, notes, threads>> PROVE PapersInv'
  BY <1>1, <1>6
<1> QED BY <1>2, <1>3, <1>4, <1>5, <1>6, AdmitChunksPapers, ChunkPapers, ChunkRowPapers, ReducePapers
    DEF ApiNext, ThreadStep, StartCommand, CommandEnds, ConvertAgain, apiVars

-----------------------------------------------------------------------------
(* One note for a text. *)

\* The threads of one command hold different works, none of them left on the list, and no
\* work that is being noted has a note of that text.
NotingPcs == {"call", "save"} \cup ChunkPcs
OnceInv ==
  /\ \A t \in NoteThreads :
       threads[t].pc # "idle" =>
         /\ threads[t].work \notin Mine(t).left
         /\ \A u \in NoteThreads : u # t /\ threads[u].pc # "idle" => threads[u].work # threads[t].work
  /\ \A t \in NoteThreads : threads[t].pc \in NotingPcs => ~HasNote(threads[t].work, threads[t].text)
  /\ OneNotePerText

\* One command at a time.
Alone == \A c, d \in Commands : c = d

LEMMA OnceInit ==
  ASSUME ApiInit
  PROVE  OnceInv
BY DEF ApiInit, ApiStart, OnceInv, Idle, OneNotePerText, NotingPcs, ChunkPcs

\* Threads that stop, or go on with the same work and text.
LEMMA OnceStays ==
  ASSUME OnceInv, notes' = notes,
         \A t \in NoteThreads :
           /\ threads'[t].pc # "idle" =>
                /\ threads[t].pc # "idle" /\ threads'[t].work = threads[t].work
                /\ Mine(t).left' \subseteq Mine(t).left
           /\ threads'[t].pc \in NotingPcs =>
                \/ threads[t].pc \in NotingPcs /\ threads'[t].text = threads[t].text
                \/ ~HasNote(threads'[t].work, threads'[t].text)
  PROVE  OnceInv'
<1>1. \A t \in NoteThreads :
       threads'[t].pc # "idle" =>
         /\ threads'[t].work \notin Mine(t)'.left
         /\ \A u \in NoteThreads : u # t /\ threads'[u].pc # "idle" => threads'[u].work # threads'[t].work
  BY DEF OnceInv
<1>2. \A t \in NoteThreads : threads'[t].pc \in NotingPcs => ~HasNote(threads[t].work, threads[t].text)'
  <2> SUFFICES ASSUME NEW t \in NoteThreads, threads'[t].pc \in NotingPcs
               PROVE  ~HasNote(threads[t].work, threads[t].text)'
    OBVIOUS
  <2>1. threads'[t].pc # "idle"
    BY DEF NotingPcs, ChunkPcs
  <2> QED BY <2>1 DEF OnceInv, HasNote
<1>3. OneNotePerText'
  BY DEF OnceInv, OneNotePerText
<1> QED BY <1>1, <1>2, <1>3 DEF OnceInv

\* A note is added of a text that had none, by the only thread with that work.
LEMMA OnceAdded ==
  ASSUME OnceInv, ApiTypeOK, NEW t \in NoteThreads, NEW note \in AnyNote, notes' = Append(notes, note),
         threads[t].pc \in NotingPcs, note.work = threads[t].work, note.text = threads[t].text,
         \A u \in NoteThreads : u # t => threads'[u] = threads[u],
         threads'[t].pc \notin NotingPcs, threads'[t].pc # "idle" => threads'[t].work = threads[t].work,
         command' = command
  PROVE  OnceInv'
<1>0. notes \in Seq(AnyNote) /\ threads[t].pc # "idle"
  BY DEF ApiTypeOK, NotingPcs, ChunkPcs
<1>1. /\ DOMAIN notes = 1 .. Len(notes) /\ DOMAIN notes' = 1 .. Len(notes) + 1 /\ Len(notes) \in Nat
      /\ \A i \in 1 .. Len(notes) : notes'[i] = notes[i]
      /\ notes'[Len(notes) + 1] = note
  BY <1>0, AppendProperties
<1>2. \A i \in DOMAIN notes : ~(notes[i].work = note.work /\ notes[i].text = note.text)
  BY DEF OnceInv, HasNote
<1>3. OneNotePerText'
  <2> SUFFICES ASSUME NEW i \in DOMAIN notes', NEW j \in DOMAIN notes',
                      notes'[i].work = notes'[j].work, notes'[i].text = notes'[j].text
               PROVE  i = j
    BY DEF OneNotePerText
  <2>1. CASE i \in DOMAIN notes /\ j \in DOMAIN notes
    BY <1>1, <2>1 DEF OnceInv, OneNotePerText
  <2>2. CASE i \notin DOMAIN notes /\ j \in DOMAIN notes
    BY <1>1, <1>2, <2>2
  <2>3. CASE i \in DOMAIN notes /\ j \notin DOMAIN notes
    BY <1>1, <1>2, <2>3
  <2>4. CASE i \notin DOMAIN notes /\ j \notin DOMAIN notes
    BY <1>1, <2>4
  <2> QED BY <2>1, <2>2, <2>3, <2>4
<1>4. ASSUME NEW u \in NoteThreads, threads'[u].pc \in NotingPcs PROVE ~HasNote(threads[u].work, threads[u].text)'
  <2>1. u # t /\ threads'[u] = threads[u] /\ threads[u].pc # "idle"
    BY <1>4 DEF NotingPcs, ChunkPcs
  <2>2. ~HasNote(threads[u].work, threads[u].text) /\ threads[u].work # note.work
    BY <1>0, <1>4, <2>1 DEF OnceInv
  <2> QED BY <1>1, <2>1, <2>2 DEF HasNote
<1>5. \A u \in NoteThreads :
       threads'[u].pc # "idle" =>
         /\ threads'[u].work \notin Mine(u)'.left
         /\ \A v \in NoteThreads : v # u /\ threads'[v].pc # "idle" => threads'[v].work # threads'[u].work
  <2>1. \A u \in NoteThreads : threads'[u].pc # "idle" => threads[u].pc # "idle" /\ threads'[u].work = threads[u].work
    BY <1>0
  <2>2. \A u \in NoteThreads : Mine(u)' = Mine(u)
    BY DEF Mine, Of
  <2> QED BY <2>1, <2>2 DEF OnceInv
<1> QED BY <1>3, <1>4, <1>5 DEF OnceInv

LEMMA OnceStep ==
  ASSUME ApiInv, OnceInv, Alone, [ApiNext]_apiVars
  PROVE  OnceInv'
<1>0. /\ ApiTypeOK /\ threads \in [NoteThreads -> AnyThread] /\ command \in [Commands -> AnyCommand]
      /\ \A t \in NoteThreads : threads[t] \in AnyThread /\ ControlAt(t) /\ Of(t) \in Commands
  BY ThreadIsAPair DEF ApiInv, ApiTypeOK, ThreadsOK
<1>1. ASSUME NEW t \in NoteThreads, Take(t) PROVE OnceInv'
  <2>1. PICK w : w = FirstOf(Mine(t).left)
    OBVIOUS
  <2>2. w \in Mine(t).left
    BY <1>0, <1>1, <2>1, FirstIsLeft DEF Take, Mine, AnyCommand, ApiTypeOK
  <2>3. /\ notes' = notes /\ threads[t].pc = "idle"
        /\ \A u \in NoteThreads : u # t => threads'[u] = threads[u]
        /\ threads'[t].work = w /\ threads'[t].pc \in {"admit", "admitchunks"}
        /\ command' = [command EXCEPT ![Of(t)].left = @ \ {w}]
    BY <1>0, <1>1, <2>1 DEF Take, Idle, Mine
  <2>4. \A u \in NoteThreads : Mine(u) = Mine(t) /\ Mine(u)'.left = Mine(t).left \ {w}
    BY <1>0, <2>3 DEF Mine, Alone, Of, AnyCommand
  <2>5. \A u \in NoteThreads : threads[u].pc # "idle" => threads[u].work # w
    BY <2>2, <2>4 DEF OnceInv
  <2>6. \A u \in NoteThreads :
       threads'[u].pc # "idle" =>
         /\ threads'[u].work \notin Mine(u)'.left
         /\ \A v \in NoteThreads : v # u /\ threads'[v].pc # "idle" => threads'[v].work # threads'[u].work
    BY <2>3, <2>4, <2>5 DEF OnceInv
  <2>7. \A u \in NoteThreads : threads'[u].pc \in NotingPcs => ~HasNote(threads[u].work, threads[u].text)'
    BY <2>3 DEF OnceInv, NotingPcs, ChunkPcs, HasNote
  <2>8. OneNotePerText'
    BY <2>3 DEF OnceInv, OneNotePerText
  <2> QED BY <2>6, <2>7, <2>8 DEF OnceInv
<1>2. ASSUME NEW t \in NoteThreads, Admit(t) \/ AdmitChunks(t) PROVE OnceInv'
  <2>1. notes' = notes /\ command' = command /\ threads[t].pc # "idle" /\ threads[t].pc \notin NotingPcs
        /\ \A u \in NoteThreads : u # t => threads'[u] = threads[u]
    BY <1>0, <1>2 DEF Admit, AdmitChunks, Go, NotingPcs, ChunkPcs
  <2>2. /\ threads'[t].pc # "idle" => threads'[t].work = threads[t].work
        /\ threads'[t].pc \in NotingPcs =>
             /\ threads'[t].text = text[threads[t].work] /\ threads'[t].work = threads[t].work
             /\ Verdict(t) = "go" \/ ChunkVerdict(t) = "go"
    <3>1. CASE Admit(t)
      BY <1>0, <3>1 DEF Admit, Go, Idle, AnyThread, NotingPcs, ChunkPcs
    <3>2. CASE AdmitChunks(t)
      BY <1>0, <3>2 DEF AdmitChunks, Go, Idle, AnyThread, NotingPcs, ChunkPcs
    <3> QED BY <1>2, <3>1, <3>2
  <2>3. threads'[t].pc \in NotingPcs => ~HasNote(threads'[t].work, threads'[t].text)
    BY <2>2, VerdictsHaveText
  <2> QED BY <2>1, <2>2, <2>3, OnceStays DEF Mine, Of
<1>3. ASSUME NEW t \in NoteThreads, NEW by \in {"whole", "chunked"}, notes' = Noted(t, by), Save(t) \/ Reduce(t)
      PROVE  OnceInv'
  <2>1. threads[t].pc \in NotingPcs /\ threads[t].work \in NoteWorks /\ threads[t].text \in Nat
    BY <1>0, <1>3 DEF Save, Reduce, NotingPcs, ChunkPcs, ControlAt
  <2>2. PICK note \in AnyNote : note = [work |-> threads[t].work, text |-> threads[t].text, by |-> by]
    BY <2>1 DEF AnyNote
  <2>3. /\ command' = command /\ \A u \in NoteThreads : u # t => threads'[u] = threads[u]
        /\ threads'[t].pc \in {"account", "idle"} /\ (threads'[t].pc # "idle" => threads'[t].work = threads[t].work)
    BY <1>0, <1>3 DEF Save, Reduce, Idle, AnyThread
  <2>4. threads'[t].pc \notin NotingPcs
    BY <2>3 DEF NotingPcs, ChunkPcs
  <2> QED BY <1>0, <1>3, <2>1, <2>2, <2>3, <2>4, OnceAdded DEF Noted
<1>4. ASSUME NEW t \in NoteThreads, notes' = notes, command' = command,
             \A u \in NoteThreads : u # t => threads'[u] = threads[u],
             threads[t].pc # "idle",
             threads'[t].pc # "idle" => threads'[t].work = threads[t].work,
             threads'[t].pc \in NotingPcs => threads[t].pc \in NotingPcs /\ threads'[t].text = threads[t].text
      PROVE  OnceInv'
  BY <1>4, OnceStays DEF Mine, Of
<1>5. ASSUME NEW t \in NoteThreads, Save(t) \/ Reduce(t) PROVE OnceInv'
  <2>1. \/ \E by \in {"whole", "chunked"} : notes' = Noted(t, by)
        \/ notes' = notes
    BY <1>5 DEF Save, Reduce
  <2>2. CASE notes' = notes
    <3>1. /\ command' = command /\ \A u \in NoteThreads : u # t => threads'[u] = threads[u]
          /\ threads[t].pc # "idle"
          /\ threads'[t].pc \in {"account", "idle"} /\ (threads'[t].pc # "idle" => threads'[t].work = threads[t].work)
      BY <1>0, <1>5 DEF Save, Reduce, Idle, AnyThread
    <3>2. threads'[t].pc \notin NotingPcs
      BY <3>1 DEF NotingPcs, ChunkPcs
    <3> QED BY <1>4, <2>2, <3>1, <3>2
  <2> QED BY <1>3, <1>5, <2>1, <2>2
<1>6. ASSUME NEW t \in NoteThreads,
             Chunk(t) \/ Usage(t) \/ \E good \in BOOLEAN, cost \in 0 .. MaxCost : Answer(t, good, cost)
      PROVE  OnceInv'
  <2>1. /\ notes' = notes /\ command' = command /\ \A u \in NoteThreads : u # t => threads'[u] = threads[u]
        /\ threads[t].pc \in NotingPcs /\ threads[t].pc # "idle"
        /\ threads'[t].work = threads[t].work /\ threads'[t].text = threads[t].text
    <3>1. CASE Chunk(t)
      BY <1>0, <3>1 DEF Chunk, AnyThread, NotingPcs, ChunkPcs
    <3>2. CASE Usage(t)
      BY <1>0, <3>2 DEF Usage, AnyThread, NotingPcs, ChunkPcs
    <3>3. ASSUME NEW good \in BOOLEAN, NEW cost \in 0 .. MaxCost, Answer(t, good, cost)
          PROVE  /\ notes' = notes /\ command' = command /\ \A u \in NoteThreads : u # t => threads'[u] = threads[u]
                 /\ threads[t].pc \in NotingPcs /\ threads[t].pc # "idle"
                 /\ threads'[t].work = threads[t].work /\ threads'[t].text = threads[t].text
      BY <1>0, <3>3 DEF Answer, AnyThread, NotingPcs, ChunkPcs
    <3> QED BY <1>6, <3>1, <3>2, <3>3
  <2> QED BY <1>4, <2>1
<1>7. ASSUME NEW t \in NoteThreads, Account(t) \/ ChunkRow(t) PROVE OnceInv'
  <2>1. PICK cost \in Nat, perRun \in Nat : command' = Spend(Of(t), cost, perRun)
    BY <1>0, <1>7 DEF Account, ChunkRow, AnyThread
  <2>2. \A u \in NoteThreads : Mine(u)'.left = Mine(u).left
    BY <1>0, <2>1, SpendAdds DEF Mine, Of
  <2>3. /\ notes' = notes /\ \A u \in NoteThreads : u # t => threads'[u] = threads[u]
        /\ threads[t].pc # "idle" /\ (threads'[t].pc # "idle" => threads'[t].work = threads[t].work)
        /\ threads'[t].pc \in NotingPcs => threads[t].pc \in NotingPcs /\ threads'[t].text = threads[t].text
    <3>1. CASE Account(t)
      BY <1>0, <3>1 DEF Account, Idle, NotingPcs, ChunkPcs
    <3>2. CASE ChunkRow(t)
      BY <1>0, <3>2 DEF ChunkRow, AnyThread, NotingPcs, ChunkPcs
    <3> QED BY <1>7, <3>1, <3>2
  <2> QED BY <2>2, <2>3, OnceStays
<1>8. ASSUME NEW c \in Commands, CommandEnds(c) \/ CommandDies(c) PROVE OnceInv'
  <2>1. /\ notes' = notes
        /\ \A u \in NoteThreads : threads'[u].pc # "idle" => threads'[u] = threads[u] /\ Of(u) # c
    <3>1. CASE CommandEnds(c)
      BY <1>0, <3>1 DEF CommandEnds
    <3>2. CASE CommandDies(c)
      BY <1>0, <3>2 DEF CommandDies, Idle
    <3> QED BY <1>8, <3>1, <3>2
  <2>2. \A u \in NoteThreads : Of(u) # c => Mine(u)' = Mine(u)
    BY <1>0, <1>8 DEF CommandEnds, CommandDies, Mine, Of
  <2>3. "idle" \notin NotingPcs
    BY DEF NotingPcs, ChunkPcs
  <2> QED BY <2>1, <2>2, <2>3, OnceStays
<1>9. ASSUME NEW t \in NoteThreads, Locked(t) PROVE OnceInv'
  <2>1. /\ notes' = notes /\ threads'[t].pc = "idle" /\ \A u \in NoteThreads : u # t => threads'[u] = threads[u]
        /\ command' = command \/ command' = [command EXCEPT ![Of(t)] = Off]
    BY <1>0, <1>9 DEF Locked, Idle
  <2>2. \A u \in NoteThreads : Mine(u)'.left \subseteq Mine(u).left
    BY <1>0, <2>1 DEF Mine, Of, Off
  <2>3. "idle" \notin NotingPcs
    BY DEF NotingPcs, ChunkPcs
  <2> QED BY <2>1, <2>2, <2>3, OnceStays
<1>10. ASSUME NEW c \in Commands, NEW k, StartCommand(c, k) PROVE OnceInv'
  <2>1. \A u \in NoteThreads : threads'[u].pc = "idle"
    BY <1>0, <1>10 DEF StartCommand, ControlAt, Alone
  <2>2. "idle" \notin NotingPcs
    BY DEF NotingPcs, ChunkPcs
  <2> QED BY <1>10, <2>1, <2>2, OnceStays DEF StartCommand
<1>11. ASSUME UNCHANGED <<notes, threads, command>> PROVE OnceInv'
  BY <1>11, OnceStays DEF Mine, Of
<1> QED BY <1>1, <1>2, <1>5, <1>6, <1>7, <1>8, <1>9, <1>10, <1>11
    DEF ApiNext, ThreadStep, ConvertAgain, apiVars

-----------------------------------------------------------------------------
(* What the notes tell. *)

\* A finished paper has one run for each chunk, in order, and its own status and note
\* follow from theirs, whatever commands run at once.
THEOREM ApiReduceAccounts == ApiSpec => []ReduceAccountsForChunks
<1>1. ApiInit => PapersInv
  BY PapersInit
<1>2. ApiInv /\ PapersInv /\ [ApiNext]_apiVars => PapersInv'
  BY PapersStep
<1>3. PapersInv => ReduceAccountsForChunks
  <2> SUFFICES ASSUME PapersInv, NEW i \in DOMAIN papers PROVE Accounts(papers[i])
    BY DEF ReduceAccountsForChunks, Accounts, AllOf
  <2> QED BY DEF PapersInv
<1> QED BY <1>1, <1>2, <1>3, ApiInductive, PTL DEF ApiSpec

\* Where one command runs at a time, a text of a work is noted once, whole or chunked, by
\* any number of threads and across deaths and restarts.
THEOREM ApiNotesTell == ApiSpec => [](Alone => NotesTellTheWork)
<1>1. ApiInit => (Alone => OnceInv)
  BY OnceInit
<1>2. ApiInv /\ (Alone => OnceInv) /\ [ApiNext]_apiVars => (Alone => OnceInv)'
  <2> SUFFICES ASSUME ApiInv, Alone => OnceInv, [ApiNext]_apiVars, Alone PROVE OnceInv'
    BY DEF Alone
  <2> QED BY OnceStep
<1>3. (Alone => OnceInv) /\ ReduceAccountsForChunks => (Alone => NotesTellTheWork)
  BY DEF OnceInv, NotesTellTheWork
<1> QED BY <1>1, <1>2, <1>3, ApiInductive, ApiReduceAccounts, PTL DEF ApiSpec
=============================================================================
