--------------------------- MODULE BenchV2Proofs ---------------------------
(***************************************************************************)
(* Proofs about BenchV2, for any plan, any ways to fail and any number of  *)
(* signals: what a signal leaves on the disk, what a manifest says, that a *)
(* pure tier was together, and that a summary is what the CSV file says.   *)
(***************************************************************************)
EXTENDS BenchV2, FiniteSetTheorems, TLAPS

\* The handler has flushed the rows before it writes, and nobody writes rows
\* meanwhile; then the process is over.
SignalInv ==
  /\ DOMAIN out = {"summary", "manifest"}
  /\ sig = "write" => disk = Len(rows)
  /\ SignalKeepsResults

\* The outputs come in order, each after the list is complete.
Final == pc \in {"summary", "manifest", "exit"}
Summarised == pc \in {"manifest", "exit"}

OutputInv ==
  /\ DOMAIN out = {"summary", "manifest"}
  /\ tier \in 1 .. Len(Plan)
  /\ \E S : summaries \in Seq(S)
  /\ Final => tier = Len(Plan) /\ Len(summaries) = Len(Plan)
  /\ ~Final => Len(summaries) = tier - 1
  /\ Summarised => out["summary"].state \in {"torn", "whole"}
  /\ Summarised /\ out["summary"].state = "torn" => sig # "none"
  /\ Summarised /\ out["summary"].state = "whole"
       => Len(out["summary"].tiers) = Len(Plan)
  /\ out["manifest"].state = "whole" => pc = "exit"

-----------------------------------------------------------------------------
\* The plan is not empty, and each of its tiers has a request.
LEMMA PlanFacts ==
  /\ Len(Plan) \in Nat \ {0} /\ DOMAIN Plan = 1 .. Len(Plan)
  /\ \A t \in 1 .. Len(Plan) : Plan[t].concurrency \in Nat \ {0}
  <1> DEFINE C == Len(Concs)
             K == Len(Kinds)
  <1>1. C \in Nat \ {0} /\ K \in Nat \ {0} /\ \A c \in 1 .. C : Concs[c] \in Nat \ {0}
    BY BatchAssumption
  <1>2. C * K \in Nat \ {0}
    <2> HIDE DEF C, K
    <2>1. \A c, k \in Nat \ {0} : c * k \in Nat \ {0}
      OBVIOUS
    <2> QED
      BY <1>1, <2>1
  <1>3. ASSUME NEW i \in 1 .. C * K PROVE ((i - 1) \div K) + 1 \in 1 .. C
    <2> HIDE DEF C, K
    <2> DEFINE q == (i - 1) \div K
    <2>1. q \in Int /\ q * K <= i - 1 /\ i - 1 < (q + 1) * K
      BY <1>1, <1>2
    <2> HIDE DEF q
    <2>2. i \in Int /\ i >= 1 /\ i <= C * K
      BY <1>2
    <2>3. q >= 0
      <3> SUFFICES ASSUME q + 1 <= 0 PROVE FALSE
        BY <2>1
      <3>1. (q + 1) * K <= 0
        BY <1>1, <2>1
      <3> QED
        BY <1>1, <2>1, <2>2, <3>1
    <2>4. q < C
      <3> SUFFICES ASSUME q >= C PROVE FALSE
        BY <1>1, <2>1
      <3>1. q * K >= C * K
        BY <1>1, <2>1
      <3> QED
        BY <1>1, <2>1, <2>2, <3>1
    <2> QED
      BY <1>1, <2>1, <2>3, <2>4 DEF q
  <1>4. DOMAIN Plan = 1 .. C * K
    BY DEF Plan
  <1>5. Len(Plan) = C * K
    <2>1. \A n \in Nat : \A p : DOMAIN p = 1 .. n => Len(p) = n
      OBVIOUS
    <2> QED
      BY <1>2, <1>4, <2>1
  <1>6. \A t \in 1 .. C * K : Plan[t].concurrency = Concs[((t - 1) \div K) + 1]
    BY DEF Plan
  <1> QED
    BY <1>1, <1>2, <1>3, <1>4, <1>5, <1>6

LEMMA InitSignal == Init => SignalInv
  BY DEF Init, SignalInv, SignalKeepsResults

LEMMA SignalStep == SignalInv /\ [Next]_vars => SignalInv'
  <1> SUFFICES ASSUME SignalInv, [Next]_vars PROVE SignalInv'
    OBVIOUS
  <1>1. CASE Main
    <2>1. sig = "none" /\ over = "no" /\ sig' = "none"
      BY <1>1 DEF Main, NotReady, Prepare, OpenFiles, StartMonitor, StartWaves, Submit, Collect,
         WriteRow, EndWave, StopMonitor, Exit, EndTier, Write, At, Alive, Kept
    <2>2. over' # "signal"
      BY <1>1 DEF Main, NotReady, Prepare, OpenFiles, StartMonitor, StartWaves, Submit, Collect,
         WriteRow, EndWave, StopMonitor, Exit, EndTier, Write, At, Alive, Kept
    <2>3. DOMAIN out' = DOMAIN out
      BY <1>1 DEF Main, NotReady, Prepare, OpenFiles, StartMonitor, StartWaves, Submit, Collect,
         WriteRow, EndWave, StopMonitor, Exit, EndTier, Write, Kept
    <2> QED
      BY <2>1, <2>2, <2>3 DEF SignalInv, SignalKeepsResults
  <1>2. CASE Monitor \/ DropOrphan \/ \E i \in DOMAIN req : Answer(i)
    <2>1. UNCHANGED <<rows, disk, summaries, out, sig, over, pc>>
      BY <1>2 DEF Monitor, Sample, ReadRunning, DropOrphan, Answer, Admit, Refuse,
         Finish, GiveUp, Request, Kept
    <2> QED
      BY <2>1 DEF SignalInv, SignalKeepsResults, Whole
  <1>3. CASE Signal
    BY <1>3 DEF Signal, SignalInv, SignalKeepsResults
  <1>4. CASE HandlerFlush
    BY <1>4 DEF HandlerFlush, SignalInv, SignalKeepsResults
  <1>5. CASE HandlerExit
    BY <1>5 DEF HandlerExit, HandlersSummary, SignalInv, SignalKeepsResults, Whole
  <1>6. CASE Ended \/ UNCHANGED vars
    <2>1. UNCHANGED <<rows, disk, summaries, out, sig, over, pc>>
      BY <1>6 DEF Ended, vars
    <2> QED
      BY <2>1 DEF SignalInv, SignalKeepsResults, Whole
  <1> QED
    BY <1>1, <1>2, <1>3, <1>4, <1>5, <1>6 DEF Next, Handler

\* A batch that a signal ended keeps every row that was written and a whole
\* summary of every tier that was done.
THEOREM SignalKeeps == Spec => []SignalKeepsResults
  <1>1. SignalInv => SignalKeepsResults
    BY DEF SignalInv
  <1> QED
    BY <1>1, InitSignal, SignalStep, PTL DEF Spec

-----------------------------------------------------------------------------
LEMMA OutputHolds == OutputInv => ManifestMeansAll
  BY DEF OutputInv, Final, Summarised, ManifestMeansAll

LEMMA Appended ==
  ASSUME NEW s, \E S : s \in Seq(S), NEW e
  PROVE  Len(Append(s, e)) = Len(s) + 1 /\ Len(s) \in Nat /\ \E S : Append(s, e) \in Seq(S)
  <1>1. PICK S : s \in Seq(S)
    OBVIOUS
  <1>2. s \in Seq(S \cup {e}) /\ e \in S \cup {e}
    BY <1>1
  <1>3. Append(s, e) \in Seq(S \cup {e}) /\ Len(Append(s, e)) = Len(s) + 1 /\ Len(s) \in Nat
    BY <1>2
  <1> QED
    BY <1>3

LEMMA InitOutput == ASSUME Init PROVE OutputInv
  <1>1. summaries \in Seq({}) /\ Len(summaries) = 0
    BY DEF Init
  <1> QED
    BY <1>1, PlanFacts DEF Init, OutputInv, Final, Summarised, Absent

LEMMA WriteKeeps ==
  ASSUME OutputInv, NEW k \in DOMAIN Outputs, Write(k) PROVE OutputInv'
  <1>1. /\ sig = "none" /\ sig' = "none" /\ tier' = tier /\ summaries' = summaries
        /\ pc = Outputs[k]
    BY DEF Write, At, Alive
  <1>2. CASE k = 1
    <2>1. Outputs[1] = "summary" /\ Outputs[2] = "manifest" /\ Len(Outputs) = 2
      BY DEF Outputs
    <2>2. pc = "summary" /\ "summary" \in DOMAIN out
      BY <1>1, <1>2, <2>1 DEF OutputInv
    <2>3. \/ pc' = "summary" /\ out' = [out EXCEPT !["summary"] = Torn]
          \/ pc' = "manifest" /\ out' = [out EXCEPT !["summary"] = Whole]
      BY <1>2, <2>1, <2>2 DEF Write
    <2> QED
      BY <1>1, <2>2, <2>3 DEF OutputInv, Final, Summarised, Whole, Torn
  <1>3. CASE k = 2
    <2>1. Outputs[2] = "manifest" /\ Len(Outputs) = 2
      BY DEF Outputs
    <2>2. pc = "manifest" /\ "manifest" \in DOMAIN out
      BY <1>1, <1>3, <2>1 DEF OutputInv
    <2>3. \/ pc' = "manifest" /\ out' = [out EXCEPT !["manifest"] = Torn]
          \/ pc' = "exit" /\ out' = [out EXCEPT !["manifest"] = Whole]
      BY <1>3, <2>1, <2>2 DEF Write
    <2> QED
      BY <1>1, <2>2, <2>3 DEF OutputInv, Final, Summarised, Whole, Torn
  <1> QED
    BY <1>2, <1>3 DEF Outputs

LEMMA EndTierKeeps ==
  ASSUME OutputInv, NEW start, NEW end, EndTier(start, end)
  PROVE  OutputInv'
  <1>1. pc = "end" /\ out' = out /\ sig' = sig
    BY DEF EndTier, At, Alive
  <1>2. Len(summaries) = tier - 1 /\ tier \in 1 .. Len(Plan) /\ Len(Plan) \in Nat
    BY <1>1, PlanFacts DEF OutputInv, Final
  <1>3. CASE Raises(start, end)
    BY <1>1, <1>3 DEF EndTier, OutputInv, Final, Summarised
  <1>4. CASE ~Raises(start, end)
    <2>1. Len(summaries') = tier /\ \E S : summaries' \in Seq(S)
      <3>1. summaries' = Append(summaries, [acceptance |-> ByStatus, pure |-> Pure])
        BY <1>4 DEF EndTier
      <3>2. \E S : summaries \in Seq(S)
        BY DEF OutputInv
      <3>3. tier \in Int
        BY <1>2
      <3>4. Len(summaries') = Len(summaries) + 1 /\ \E S : summaries' \in Seq(S)
        BY <3>1, <3>2, Appended
      <3> QED
        BY <1>2, <3>3, <3>4
    <2>2. \/ tier < Len(Plan) /\ tier' = tier + 1 /\ pc' = "tier"
          \/ tier = Len(Plan) /\ tier' = tier /\ pc' = "summary"
      BY <1>2, <1>4 DEF EndTier, Outputs
    <2> QED
      BY <1>1, <1>2, <2>1, <2>2 DEF OutputInv, Final, Summarised
  <1> QED
    BY <1>3, <1>4

LEMMA OutputStep ==
  ASSUME OutputInv, [Next]_vars PROVE OutputInv'
  <1>1. CASE \/ NotReady \/ Prepare \/ OpenFiles \/ StartMonitor \/ StartWaves
             \/ Submit \/ Collect \/ WriteRow \/ EndWave \/ StopMonitor \/ Exit
    <2>1. UNCHANGED <<tier, summaries, out, sig>>
      BY <1>1 DEF NotReady, Prepare, OpenFiles, StartMonitor, StartWaves, Submit,
         Collect, WriteRow, EndWave, StopMonitor, Exit, Kept
    <2>2. pc' = pc \/ (~Final /\ pc' \notin {"summary", "manifest", "exit"})
      BY <1>1 DEF NotReady, Prepare, OpenFiles, StartMonitor, StartWaves, Submit,
         Collect, WriteRow, EndWave, StopMonitor, Exit, At, Final
    <2> QED
      BY <2>1, <2>2 DEF OutputInv, Final, Summarised
  <1>2. CASE \E start, end \in BOOLEAN : EndTier(start, end)
    BY <1>2, EndTierKeeps
  <1>3. CASE \E k \in DOMAIN Outputs : Write(k)
    BY <1>3, WriteKeeps
  <1>4. CASE \/ Monitor \/ DropOrphan \/ Ended \/ UNCHANGED vars
             \/ \E i \in DOMAIN req : Answer(i)
    <2>1. UNCHANGED <<pc, tier, summaries, out, sig>>
      BY <1>4 DEF Monitor, Sample, ReadRunning, DropOrphan, Answer, Admit, Refuse,
         Finish, GiveUp, Request, Kept, Ended, vars
    <2> QED
      BY <2>1 DEF OutputInv, Final, Summarised
  <1>5. CASE Signal
    BY <1>5 DEF Signal, OutputInv, Final, Summarised
  <1>6. CASE HandlerFlush
    BY <1>6 DEF HandlerFlush, OutputInv, Final, Summarised, Torn
  <1>7. CASE HandlerExit
    BY <1>7 DEF HandlerExit, HandlersSummary, OutputInv, Final, Summarised, Whole
  <1> QED
    BY <1>1, <1>2, <1>3, <1>4, <1>5, <1>6, <1>7 DEF Next, Main, Handler

\* A manifest comes with a summary of all tiers of the plan, which only a handler at
\* work leaves torn.
THEOREM ManifestHolds == Spec => []ManifestMeansAll
  <1>1. Init => OutputInv
    BY InitOutput
  <1>2. OutputInv /\ [Next]_vars => OutputInv'
    BY OutputStep
  <1> QED
    BY <1>1, <1>2, OutputHolds, PTL DEF Spec

-----------------------------------------------------------------------------
(***************************************************************************)
(* The samples of a tier, and its rows.  The history of a tier is told     *)
(* whatever the samples are (TierTold); the rows of a tier are counted     *)
(* wave by wave (CountInv), and a summary is only ever written when all    *)
(* rows are in the file (FileInv).                                         *)
(***************************************************************************)

Waiting == {"setup", "opening", "tier"}
Waves == {"wave", "wait", "rows", "flush"}
InTier == {"base", "post", "end"} \cup Waves
Finals == {"summary", "manifest", "exit"}

States == {"sent", "running"} \cup StatusLabels
Conc == Plan[tier].concurrency
OneRow == [tier : Nat, wave : Nat, status : States]
OneSummary == [acceptance : [StatusLabels -> Nat], pure : BOOLEAN]
OneHistory == [together : BOOLEAN, mixed : BOOLEAN]

\* Types, and how long the lists are where the main thread is.
BatchTypes ==
  /\ pc \in Waiting \cup InTier \cup Finals
  /\ tier \in 1 .. Len(Plan) /\ wave \in Nat /\ orphans \in Nat /\ peak \in Nat
  /\ req \in Seq(States)
  /\ Len(req) = IF pc \in {"wait", "rows", "flush"} THEN Conc ELSE 0
  /\ rows \in Seq(OneRow)
  /\ summaries \in Seq(OneSummary)
  /\ Len(summaries) = IF pc \in Finals THEN tier ELSE tier - 1
  /\ seen \in Seq(OneHistory)
  /\ Len(seen) = IF pc \in Waiting THEN tier - 1 ELSE tier
  /\ pc \in Waiting => peak = 0
  /\ pc \notin InTier \ {"end"} => mon = "off"

\* What the history of a tier has to say of the requests and the samples.
AllRun == \A i \in DOMAIN req : req[i] = "running"
TierTold ==
  pc \in InTier =>
    /\ orphans > 0 => seen[tier].mixed
    /\ req # <<>> /\ AllRun => seen[tier].together
    /\ peak >= Conc /\ ~seen[tier].mixed => seen[tier].together

PureInv == TierTold /\ PureMeansTogether

\* The rows are those of the tiers up to this one, and of this one those of the
\* waves up to this one.
RowsInv ==
  \A i \in DOMAIN rows :
    /\ rows[i].tier <= tier
    /\ pc \in Waiting \cup {"base"} => rows[i].tier < tier
    /\ pc \in Waves /\ rows[i].tier = tier => rows[i].wave <= wave
    /\ pc \in {"wave", "wait"} /\ rows[i].tier = tier => rows[i].wave < wave

\* A tier has a row for each request of the waves that are done.
CountInv ==
  /\ pc \in Waves => wave \in 1 .. Rounds
  /\ pc \in {"wave", "wait"} => Cardinality(Results(tier)) = (wave - 1) * Conc
  /\ pc = "rows" => /\ Cardinality(Written) < Conc
                    /\ Cardinality(Results(tier)) = (wave - 1) * Conc + Cardinality(Written)
  /\ pc = "flush" => Cardinality(Results(tier)) = wave * Conc
  /\ pc \in {"post", "end"} => Cardinality(Results(tier)) = Rounds * Conc

\* What was summarised is what the rows say.
Labelled(t, s) == {i \in Results(t) : rows[i].status = s}
SummedInv ==
  \A t \in DOMAIN summaries :
    /\ Cardinality(Results(t)) = Rounds * Plan[t].concurrency
    /\ \A s \in StatusLabels : summaries[t].acceptance[s] = Cardinality(Labelled(t, s))

\* The summary is written when all rows are in the file.
FileInv ==
  /\ DOMAIN out = {"summary", "manifest"} /\ disk \in 0 .. Len(rows)
  /\ pc \notin {"rows", "flush"} \/ sig = "write" => disk = Len(rows)
  /\ out["summary"].state = "whole" =>
       /\ out["summary"].tiers = summaries /\ disk = Len(rows)
       /\ pc \in Finals \/ over # "no"

SummaryInv == RowsInv /\ CountInv /\ SummedInv /\ FileInv

LEMMA CountTo == \A n \in Nat : IsFiniteSet(1 .. n) /\ Cardinality(1 .. n) = n
  BY FS_Interval

LEMMA ConcFacts ==
  ASSUME BatchTypes
  PROVE  /\ Conc \in Nat \ {0} /\ tier \in Nat /\ Len(Plan) \in Nat
         /\ DOMAIN req = 1 .. Len(req) /\ DOMAIN rows = 1 .. Len(rows)
         /\ DOMAIN seen = 1 .. Len(seen) /\ DOMAIN summaries = 1 .. Len(summaries)
  BY PlanFacts DEF BatchTypes, Conc

LEMMA TypesInit == Init => BatchTypes
  BY PlanFacts DEF Init, BatchTypes, Waiting, InTier, Waves, Finals

\* Steps of the main thread that only take it to another place.
LEMMA MovesTypes ==
  ASSUME BatchTypes, NEW p \in Waiting \cup InTier \cup Finals, pc' = p,
         UNCHANGED <<tier, orphans, peak, mon, req, rows, summaries, seen>>, wave' \in Nat,
         p \in {"wait", "rows", "flush"} <=> pc \in {"wait", "rows", "flush"},
         p \in Finals <=> pc \in Finals,
         p \in Waiting <=> pc \in Waiting,
         p \notin InTier \ {"end"} => pc \notin InTier \ {"end"}
  PROVE  BatchTypes'
  BY DEF BatchTypes, Conc

LEMMA RequestTypes ==
  ASSUME BatchTypes, NEW i \in DOMAIN req, NEW state \in States, NEW lost \in {0, 1},
         Request(i, state, lost)
  PROVE  BatchTypes'
  <1> USE ConcFacts DEF Request, Kept
  <1>1. req' \in Seq(States) /\ Len(req') = Len(req)
    <2>1. req \in Seq(States)
      BY DEF BatchTypes
    <2>2. \A r \in Seq(States) : \A j \in DOMAIN r : \A x \in States :
            [r EXCEPT ![j] = x] \in Seq(States) /\ Len([r EXCEPT ![j] = x]) = Len(r)
      OBVIOUS
    <2> QED
      BY <2>1, <2>2
  <1>2. seen' \in Seq(OneHistory) /\ Len(seen') = Len(seen)
    <2>1. seen \in Seq(OneHistory) /\ tier \in DOMAIN seen
      <3>1. Len(req) # 0
        BY DEF BatchTypes
      <3>2. Len(seen) = tier
        BY <3>1 DEF BatchTypes, Waiting
      <3> QED
        BY <3>2 DEF BatchTypes
    <2> DEFINE to == seen[tier].together \/ \A j \in DOMAIN req' : req'[j] = "running"
               mi == seen[tier].mixed \/ orphans' > 0
    <2>2. /\ seen[tier] \in OneHistory
          /\ seen' = [seen EXCEPT ![tier] = [together |-> to, mixed |-> mi]]
      <3> HIDE DEF to, mi
      <3>1. seen[tier] \in OneHistory
        BY <2>1
      <3>2. seen' = [seen EXCEPT ![tier] = [together |-> to, mixed |-> mi]]
        BY DEF to, mi
      <3> QED
        BY <3>1, <3>2
    <2>3. to \in BOOLEAN /\ mi \in BOOLEAN
      <3>1. seen[tier].together \in BOOLEAN /\ seen[tier].mixed \in BOOLEAN
        BY <2>2 DEF OneHistory
      <3> QED
        BY <3>1
    <2>4. [together |-> to, mixed |-> mi] \in OneHistory
      BY <2>3 DEF OneHistory
    <2>5. \A s \in Seq(OneHistory) : \A j \in DOMAIN s : \A x \in OneHistory :
            [s EXCEPT ![j] = x] \in Seq(OneHistory) /\ Len([s EXCEPT ![j] = x]) = Len(s)
      OBVIOUS
    <2> HIDE DEF to, mi, Request
    <2> QED
      BY <2>1, <2>2, <2>4, <2>5
  <1>3. orphans' \in Nat
    BY DEF BatchTypes
  <1> QED
    BY <1>1, <1>2, <1>3 DEF BatchTypes, Conc

LEMMA AnswerTypes ==
  ASSUME BatchTypes, NEW i \in DOMAIN req, Answer(i)
  PROVE  BatchTypes'
  <1>1. PICK state \in States, lost \in {0, 1} : Request(i, state, lost)
    <2>1. Refusals \cup Endings \cup Losses \subseteq States /\ "running" \in States
      BY BatchAssumption DEF States
    <2> QED
      BY <2>1 DEF Answer, Admit, Refuse, Finish, GiveUp
  <1> QED
    BY <1>1, RequestTypes

\* What the engine runs, when it runs nothing that is lost.
LEMMA RunningFacts ==
  ASSUME BatchTypes
  PROVE  /\ Running \in Nat
         /\ orphans = 0 /\ Running >= Conc => req # <<>> /\ AllRun
  <1> USE ConcFacts
  <1> DEFINE R == {i \in DOMAIN req : req[i] = "running"}
  <1>1. Len(req) \in Nat /\ orphans \in Nat
    BY DEF BatchTypes
  <1>2. IsFiniteSet(DOMAIN req) /\ Cardinality(DOMAIN req) = Len(req)
    <2>1. DOMAIN req = 1 .. Len(req)
      OBVIOUS
    <2>2. IsFiniteSet(1 .. Len(req)) /\ Cardinality(1 .. Len(req)) = Len(req)
      BY <1>1, CountTo
    <2> QED
      BY <2>1, <2>2
  <1>3. /\ Cardinality(R) \in Nat /\ Cardinality(R) <= Len(req)
        /\ Cardinality(R) = Len(req) => R = DOMAIN req
    <2>1. R \subseteq DOMAIN req
      OBVIOUS
    <2>2. IsFiniteSet(R)
      BY <1>2, <2>1, FS_Subset
    <2>3. /\ Cardinality(R) <= Cardinality(DOMAIN req)
          /\ Cardinality(R) = Cardinality(DOMAIN req) => R = DOMAIN req
      BY <1>2, <2>1, FS_Subset
    <2>4. Cardinality(R) \in Nat
      BY <2>2, FS_CardinalityType
    <2> QED
      BY <1>2, <2>3, <2>4
  <1>4. Running = Cardinality(R) + orphans
    BY DEF Running
  <1>5. ASSUME orphans = 0, Running >= Conc PROVE req # <<>> /\ AllRun
    <2>1. Len(req) \in {0, Conc}
      BY DEF BatchTypes
    <2>2. Cardinality(R) >= Conc
      BY <1>3, <1>4, <1>5
    <2> HIDE DEF R
    <2>3. Len(req) = Conc /\ Cardinality(R) = Len(req)
      BY <1>1, <1>3, <2>1, <2>2
    <2>4. R = DOMAIN req
      BY <1>3, <2>3
    <2> QED
      BY <2>3, <2>4 DEF AllRun, R
  <1> QED
    BY <1>1, <1>3, <1>4, <1>5

LEMMA WriteRowTypes ==
  ASSUME BatchTypes, WriteRow
  PROVE  BatchTypes'
  <1> DEFINE i == Cardinality(Written) + 1
  <1>1. /\ pc = "rows" /\ i \in DOMAIN req
        /\ rows' = Append(rows, [tier |-> tier, wave |-> wave, status |-> req[i]])
        /\ pc' = IF i = Len(req) THEN "flush" ELSE "rows"
        /\ UNCHANGED <<tier, wave, req, orphans, mon, peak, summaries, seen>>
    BY DEF WriteRow, At
  <1>2. [tier |-> tier, wave |-> wave, status |-> req[i]] \in OneRow
    <2> HIDE DEF i
    <2> QED
      BY <1>1, PlanFacts DEF BatchTypes, OneRow
  <1>3. rows' \in Seq(OneRow)
    BY <1>1, <1>2 DEF BatchTypes
  <1> HIDE DEF i
  <1> QED
    BY <1>1, <1>3 DEF BatchTypes, Waiting, InTier, Waves, Finals, Conc

LEMMA ByStatusType == ASSUME BatchTypes PROVE ByStatus \in [StatusLabels -> Nat]
  <1>1. IsFiniteSet(DOMAIN rows)
    BY ConcFacts, FS_Interval DEF BatchTypes
  <1>2. ASSUME NEW s \in StatusLabels
        PROVE  Cardinality({i \in Results(tier) : rows[i].status = s}) \in Nat
    <2>1. {i \in Results(tier) : rows[i].status = s} \subseteq DOMAIN rows
      BY DEF Results
    <2> QED
      BY <1>1, <2>1, FS_Subset, FS_CardinalityType
  <1> QED
    BY <1>2 DEF ByStatus

LEMMA EndTierTypes ==
  ASSUME BatchTypes, NEW start, NEW end, EndTier(start, end)
  PROVE  BatchTypes'
  <1> USE PlanFacts
  <1>1. pc = "end" /\ peak' = 0 /\ UNCHANGED <<wave, req, orphans, mon, rows, seen>>
    BY DEF EndTier, At
  <1>2. CASE Raises(start, end)
    BY <1>1, <1>2 DEF EndTier, BatchTypes, Conc, Waiting, InTier, Waves, Finals
  <1>3. CASE ~Raises(start, end)
    <2>1. summaries' = Append(summaries, [acceptance |-> ByStatus, pure |-> Pure])
      BY <1>3 DEF EndTier
    <2>2. [acceptance |-> ByStatus, pure |-> Pure] \in OneSummary
      BY ByStatusType DEF OneSummary, Pure
    <2>3. summaries' \in Seq(OneSummary) /\ Len(summaries') = Len(summaries) + 1
      BY <2>1, <2>2 DEF BatchTypes
    <2>4. \/ tier < Len(Plan) /\ tier' = tier + 1 /\ pc' = "tier"
          \/ ~(tier < Len(Plan)) /\ tier' = tier /\ pc' = "summary"
      BY <1>3 DEF EndTier, Outputs
    <2>5. mon = "off" /\ req = <<>> /\ Len(seen) = tier /\ Len(summaries) = tier - 1
      BY <1>1 DEF BatchTypes, Waiting, InTier, Waves, Finals
    <2> QED
      BY <1>1, <2>3, <2>4, <2>5 DEF BatchTypes, Conc, Waiting, InTier, Waves, Finals
  <1> QED
    BY <1>2, <1>3

LEMMA TypesKeep ==
  ASSUME BatchTypes, [Next]_vars
  PROVE  BatchTypes'
  <1> USE PlanFacts, ConcFacts
  <1>1. CASE NotReady \/ Exit \/ Signal \/ Handler \/ Ended \/ UNCHANGED vars
    <2>1. UNCHANGED <<pc, tier, wave, orphans, peak, mon, req, rows, summaries, seen>>
      BY <1>1 DEF NotReady, Exit, Signal, Handler, HandlerFlush, HandlerExit, Ended, vars
    <2> QED
      BY <2>1 DEF BatchTypes, Conc
  <1>2. CASE Prepare \/ OpenFiles
    <2>1. /\ pc \in Waiting /\ pc' \in Waiting
          /\ UNCHANGED <<tier, orphans, peak, mon, req, rows, summaries, seen, wave>>
      BY <1>2 DEF Prepare, OpenFiles, At, Kept, Waiting
    <2> QED
      BY <2>1 DEF BatchTypes, Conc, Waiting, InTier, Waves, Finals
  <1>3. CASE StartMonitor
    <2>1. /\ pc = "tier" /\ pc' = "base" /\ mon' = "idle"
          /\ seen' = Append(seen, [together |-> FALSE, mixed |-> orphans > 0])
          /\ UNCHANGED <<tier, orphans, peak, req, rows, summaries, wave>>
      BY <1>3 DEF StartMonitor, At, Kept
    <2>2. [together |-> FALSE, mixed |-> orphans > 0] \in OneHistory
      BY DEF OneHistory
    <2>3. seen' \in Seq(OneHistory) /\ Len(seen') = tier
      BY <2>1, <2>2 DEF BatchTypes, Waiting
    <2> QED
      BY <2>1, <2>3 DEF BatchTypes, Conc, Waiting, InTier, Waves, Finals
  <1>4. CASE StartWaves
    <2>1. /\ pc = "base" /\ pc' = "wave" /\ wave' = 1
          /\ UNCHANGED <<tier, orphans, peak, mon, req, rows, summaries, seen>>
      BY <1>4 DEF StartWaves, At, Kept
    <2> QED
      BY <2>1, MovesTypes DEF Waiting, InTier, Waves, Finals
  <1>5. CASE Submit
    <2>1. /\ pc = "wave" /\ pc' = "wait" /\ req' = [i \in 1 .. Conc |-> "sent"]
          /\ UNCHANGED <<tier, wave, orphans, peak, mon, rows, summaries, seen>>
      BY <1>5 DEF Submit, At, Kept, Requests, Conc
    <2>2. req' \in Seq(States) /\ Len(req') = Conc
      BY <2>1 DEF States
    <2> QED
      BY <2>1, <2>2 DEF BatchTypes, Conc, Waiting, InTier, Waves, Finals
  <1>6. CASE Collect
    <2>1. /\ pc = "wait" /\ pc' = "rows"
          /\ UNCHANGED <<tier, orphans, peak, mon, req, rows, summaries, seen, wave>>
      BY <1>6 DEF Collect, At, Kept
    <2>2. wave' \in Nat
      BY <2>1 DEF BatchTypes
    <2> QED
      BY <2>1, <2>2, MovesTypes DEF Waiting, InTier, Waves, Finals
  <1>7. CASE WriteRow
    BY <1>7, WriteRowTypes
  <1>8. CASE EndWave
    <2>1. /\ pc = "flush" /\ pc' \in {"wave", "post"} /\ wave' \in Nat
          /\ UNCHANGED <<tier, orphans, peak, mon, rows, summaries, seen>>
      BY <1>8 DEF EndWave, At, BatchTypes
    <2>2. req' \in Seq(States) /\ Len(req') = 0
      BY <1>8 DEF EndWave
    <2> QED
      BY <2>1, <2>2 DEF BatchTypes, Conc, Waiting, InTier, Waves, Finals
  <1>9. CASE StopMonitor
    <2>1. /\ pc = "post" /\ pc' = "end" /\ mon' = "off"
          /\ UNCHANGED <<tier, orphans, peak, req, rows, summaries, seen, wave>>
      BY <1>9 DEF StopMonitor, At, Kept
    <2> QED
      BY <2>1 DEF BatchTypes, Conc, Waiting, InTier, Waves, Finals
  <1>10. CASE \E start, end \in BOOLEAN : EndTier(start, end)
    BY <1>10, EndTierTypes
  <1>11. CASE \E k \in DOMAIN Outputs : Write(k)
    <2>1. /\ pc \in {"summary", "manifest"} /\ pc' \in Finals
          /\ UNCHANGED <<tier, orphans, peak, mon, req, rows, summaries, seen, wave>>
      BY <1>11 DEF Write, At, Outputs, Finals
    <2>2. wave' \in Nat
      BY <2>1 DEF BatchTypes
    <2> QED
      BY <2>1, <2>2, MovesTypes DEF Waiting, InTier, Waves, Finals
  <1>12. CASE \E i \in DOMAIN req : Answer(i)
    BY <1>12, AnswerTypes
  <1>13. CASE DropOrphan
    <2>1. /\ orphans' = orphans - 1 /\ orphans > 0
          /\ UNCHANGED <<pc, tier, wave, peak, mon, req, rows, summaries, seen>>
      BY <1>13 DEF DropOrphan, Kept
    <2> QED
      BY <2>1 DEF BatchTypes, Conc
  <1>14. CASE Monitor
    <2>1. /\ pc \in InTier \ {"end"} /\ mon' \in {"in", "idle"} /\ peak' \in {peak, Running}
          /\ UNCHANGED <<pc, tier, wave, orphans, req, rows, summaries, seen>>
      BY <1>14 DEF Monitor, Sample, ReadRunning, Kept, BatchTypes, InTier, Waves
    <2> QED
      BY <2>1, RunningFacts DEF BatchTypes, Conc, Waiting, InTier, Waves
  <1> QED
    BY <1>1, <1>2, <1>3, <1>4, <1>5, <1>6, <1>7, <1>8, <1>9, <1>10, <1>11, <1>12,
       <1>13, <1>14 DEF Next, Main

LEMMA PureInit == Init => PureInv
  BY DEF Init, PureInv, TierTold, PureMeansTogether, InTier, Waves

\* The main thread goes on within a tier, or leaves it.
LEMMA PureSame ==
  ASSUME PureInv, UNCHANGED <<tier, summaries, seen, req, orphans, peak>>,
         pc' \in InTier => pc \in InTier
  PROVE  PureInv'
  BY DEF PureInv, TierTold, PureMeansTogether, AllRun, Conc

\* Where the history of a tier is, and which tiers have been judged.
LEMMA SeenFacts ==
  ASSUME BatchTypes
  PROVE  /\ pc \in InTier => tier \in DOMAIN seen /\ DOMAIN summaries = 1 .. tier - 1
         /\ pc \in {"wait", "rows", "flush"} => pc \in InTier
         /\ req # <<>> => pc \in {"wait", "rows", "flush"}
         /\ pc = "tier" => DOMAIN seen = 1 .. tier - 1 /\ DOMAIN summaries = 1 .. tier - 1
         /\ \A t \in DOMAIN seen : seen[t].together \in BOOLEAN /\ seen[t].mixed \in BOOLEAN
  <1>1. \A t \in DOMAIN seen : seen[t].together \in BOOLEAN /\ seen[t].mixed \in BOOLEAN
    <2>1. \A t \in DOMAIN seen : seen[t] \in OneHistory
      BY DEF BatchTypes
    <2> QED
      BY <2>1 DEF OneHistory
  <1>2. req # <<>> => Len(req) # 0
    BY DEF BatchTypes
  <1> QED
    BY <1>1, <1>2, ConcFacts DEF BatchTypes, Waiting, InTier, Waves, Finals

LEMMA PureRequest ==
  ASSUME BatchTypes, PureInv, NEW i \in DOMAIN req, NEW state \in States, NEW lost \in {0, 1},
         Request(i, state, lost)
  PROVE  PureInv'
  <1> DEFINE to == seen[tier].together \/ \A j \in DOMAIN req' : req'[j] = "running"
             mi == seen[tier].mixed \/ orphans' > 0
  <1>1. pc \in InTier /\ tier \in DOMAIN seen /\ DOMAIN summaries = 1 .. tier - 1
    <2>1. req # <<>>
      OBVIOUS
    <2> QED
      BY <2>1, SeenFacts
  <1>2. /\ seen' = [seen EXCEPT ![tier] = [together |-> to, mixed |-> mi]]
        /\ UNCHANGED <<pc, tier, peak, summaries>>
    BY DEF Request, Kept
  <1>3. /\ seen'[tier].together = to /\ seen'[tier].mixed = mi
        /\ \A t \in DOMAIN summaries : t # tier /\ seen'[t] = seen[t]
    <2> HIDE DEF to, mi
    <2>1. \A t \in 1 .. tier - 1 : t # tier
      BY DEF BatchTypes
    <2> QED
      BY <1>1, <1>2, <2>1
  <1>4. TierTold'
    <2> SUFFICES /\ orphans' > 0 => mi
                 /\ (\A j \in DOMAIN req' : req'[j] = "running") => to
                 /\ peak >= Conc /\ ~mi => to
      BY <1>2, <1>3 DEF TierTold, AllRun, Conc
    <2>1. peak >= Conc /\ ~seen[tier].mixed => seen[tier].together
      BY <1>1 DEF PureInv, TierTold
    <2> QED
      BY <2>1
  <1>5. PureMeansTogether'
    BY <1>2, <1>3 DEF PureInv, PureMeansTogether
  <1> QED
    BY <1>4, <1>5 DEF PureInv

LEMMA PureEndTier ==
  ASSUME BatchTypes, PureInv, NEW start, NEW end, EndTier(start, end)
  PROVE  PureInv'
  <1>1. /\ pc = "end" /\ peak' = 0 /\ UNCHANGED <<req, orphans, seen>>
        /\ pc \in InTier
    BY DEF EndTier, At, InTier
  <1>2. CASE Raises(start, end)
    <2>1. UNCHANGED <<pc, tier, summaries>>
      BY <1>2 DEF EndTier
    <2>2. ~(peak' >= Conc)
      BY <1>1, ConcFacts
    <2> QED
      BY <1>1, <2>1, <2>2 DEF PureInv, TierTold, PureMeansTogether, AllRun, Conc
  <1>3. CASE ~Raises(start, end)
    <2>1. summaries' = Append(summaries, [acceptance |-> ByStatus, pure |-> Pure])
      BY <1>3 DEF EndTier
    <2>2. pc' \notin InTier
      BY <1>3 DEF EndTier, Outputs, InTier, Waves
    <2>3. DOMAIN summaries' = 1 .. tier /\ summaries'[tier].pure = Pure
          /\ \A t \in 1 .. tier : t # tier => t \in DOMAIN summaries /\ summaries'[t] = summaries[t]
      <3>1. summaries \in Seq(OneSummary) /\ Len(summaries) = tier - 1 /\ tier \in Nat
        BY <1>1, ConcFacts DEF BatchTypes, Finals
      <3>2. DOMAIN summaries = 1 .. tier - 1
        BY <3>1
      <3> QED
        BY <2>1, <3>1, <3>2
    <2>4. Pure /\ ~seen[tier].mixed => seen[tier].together
      BY <1>1 DEF PureInv, TierTold, Pure, Conc
    <2>5. PureMeansTogether'
      BY <1>1, <2>3, <2>4 DEF PureInv, PureMeansTogether
    <2> QED
      BY <2>2, <2>5 DEF PureInv, TierTold
  <1> QED
    BY <1>2, <1>3

LEMMA PureKeeps ==
  ASSUME BatchTypes, PureInv, [Next]_vars
  PROVE  PureInv'
  <1> USE ConcFacts, SeenFacts
  <1>1. CASE \/ NotReady \/ Prepare \/ OpenFiles \/ StartWaves \/ Collect \/ WriteRow
             \/ StopMonitor \/ Exit \/ Signal \/ Handler \/ Ended \/ Sample
             \/ (\E k \in DOMAIN Outputs : Write(k)) \/ UNCHANGED vars
    <2>1. UNCHANGED <<tier, summaries, seen, req, orphans, peak>>
      BY <1>1 DEF NotReady, Prepare, OpenFiles, StartWaves, Collect, WriteRow, StopMonitor,
         Exit, Signal, Handler, HandlerFlush, HandlerExit, Ended, Sample, Write, Kept, vars
    <2>2. pc' \in InTier => pc \in InTier
      BY <1>1 DEF NotReady, Prepare, OpenFiles, StartWaves, Collect, WriteRow, StopMonitor,
         Exit, Signal, Handler, HandlerFlush, HandlerExit, Ended, Sample, Write, Kept, vars,
         At, InTier, Waves, Outputs
    <2> QED
      BY <2>1, <2>2, PureSame
  <1>2. CASE StartMonitor
    <2>1. /\ pc = "tier" /\ UNCHANGED <<tier, req, orphans, peak, summaries>>
          /\ seen' = Append(seen, [together |-> FALSE, mixed |-> orphans > 0])
      BY <1>2 DEF StartMonitor, At, Kept
    <2>2. seen \in Seq(OneHistory) /\ Len(seen) = tier - 1 /\ tier \in Nat
      BY <2>1 DEF BatchTypes, Waiting
    <2>3. /\ \A t \in 1 .. tier - 1 : seen'[t] = seen[t]
          /\ seen'[tier] = [together |-> FALSE, mixed |-> orphans > 0]
      BY <2>1, <2>2
    <2>4. PureMeansTogether'
      BY <2>1, <2>3 DEF PureInv, PureMeansTogether
    <2>5. TierTold'
      <3>1. req = <<>> /\ peak = 0 /\ seen'[tier].mixed = (orphans > 0)
        BY <2>1, <2>3 DEF BatchTypes, Waiting
      <3>2. ~(peak >= Conc)
        BY <3>1
      <3> QED
        BY <2>1, <3>1, <3>2 DEF TierTold, Conc
    <2> QED
      BY <2>4, <2>5 DEF PureInv
  <1>3. CASE Submit
    <2>1. /\ pc = "wave" /\ UNCHANGED <<tier, seen, orphans, peak, summaries>>
          /\ req' = [j \in 1 .. Conc |-> "sent"]
      BY <1>3 DEF Submit, At, Kept, Requests, Conc
    <2>2. 1 \in DOMAIN req' /\ req'[1] = "sent" /\ pc \in InTier
      BY <2>1 DEF InTier, Waves
    <2> QED
      BY <2>1, <2>2 DEF PureInv, TierTold, PureMeansTogether, AllRun, Conc
  <1>4. CASE EndWave
    <2>1. /\ pc \in InTier /\ req' = <<>> /\ UNCHANGED <<tier, seen, orphans, peak, summaries>>
      BY <1>4 DEF EndWave, At, InTier, Waves
    <2> QED
      BY <2>1 DEF PureInv, TierTold, PureMeansTogether, Conc
  <1>5. CASE \E start, end \in BOOLEAN : EndTier(start, end)
    BY <1>5, PureEndTier
  <1>6. ASSUME NEW i \in DOMAIN req, Answer(i) PROVE PureInv'
    <2>1. PICK state \in States, lost \in {0, 1} : Request(i, state, lost)
      <3>1. Refusals \cup Endings \cup Losses \subseteq States /\ "running" \in States
        BY BatchAssumption DEF States
      <3> QED
        BY <1>6, <3>1 DEF Answer, Admit, Refuse, Finish, GiveUp
    <2> QED
      BY <2>1, PureRequest
  <1>7. CASE DropOrphan
    <2>1. /\ orphans > 0 /\ orphans' = orphans - 1
          /\ UNCHANGED <<pc, tier, req, seen, peak, summaries>>
      BY <1>7 DEF DropOrphan, Kept
    <2> QED
      BY <2>1 DEF PureInv, TierTold, PureMeansTogether, AllRun, Conc
  <1>8. CASE ReadRunning
    <2>1. /\ mon = "in" /\ peak' \in {peak, Running}
          /\ UNCHANGED <<pc, tier, req, orphans, seen, summaries>>
      BY <1>8 DEF ReadRunning, Kept
    <2>2. pc \in InTier
      BY <2>1 DEF BatchTypes
    <2>3. peak' >= Conc /\ ~seen[tier].mixed => seen[tier].together
      <3>1. orphans \in Nat
        BY DEF BatchTypes
      <3>2. Running >= Conc /\ ~seen[tier].mixed => seen[tier].together
        BY <2>2, <3>1, RunningFacts DEF PureInv, TierTold
      <3> QED
        BY <2>1, <2>2, <3>2 DEF PureInv, TierTold
    <2> QED
      BY <2>1, <2>3 DEF PureInv, TierTold, PureMeansTogether, AllRun, Conc
  <1> QED
    BY <1>1, <1>2, <1>3, <1>4, <1>5, <1>6, <1>7, <1>8 DEF Next, Main, Monitor

-----------------------------------------------------------------------------
(***************************************************************************)
(* The rows and the summary.                                               *)
(***************************************************************************)

LEMMA RowSets ==
  ASSUME BatchTypes, NEW T \in SUBSET (DOMAIN rows)
  PROVE  IsFiniteSet(T) /\ Cardinality(T) \in Nat
  <1>1. DOMAIN rows = 1 .. Len(rows) /\ Len(rows) \in Nat
    BY DEF BatchTypes
  <1>2. IsFiniteSet(DOMAIN rows)
    BY <1>1, CountTo
  <1> QED
    BY <1>2, FS_Subset, FS_CardinalityType

\* A row more.
LEMMA RowMore ==
  ASSUME BatchTypes, NEW e \in OneRow, e.tier = tier, e.wave = wave,
         rows' = Append(rows, e), UNCHANGED <<tier, wave>>
  PROVE  /\ DOMAIN rows' = DOMAIN rows \cup {Len(rows) + 1}
         /\ rows'[Len(rows) + 1] = e /\ \A i \in DOMAIN rows : rows'[i] = rows[i]
         /\ Cardinality(Results(tier))' = Cardinality(Results(tier)) + 1
         /\ Cardinality(Written)' = Cardinality(Written) + 1
         /\ \A t : t # tier => /\ Results(t)' = Results(t)
                               /\ \A s : Labelled(t, s)' = Labelled(t, s)
  <1> DEFINE n == Len(rows) + 1
  <1>1. /\ DOMAIN rows' = DOMAIN rows \cup {n} /\ n \notin DOMAIN rows
        /\ rows'[n] = e /\ \A i \in DOMAIN rows : rows'[i] = rows[i]
    BY DEF BatchTypes
  <1> HIDE DEF n
  <1>2. /\ Results(tier)' = Results(tier) \cup {n} /\ n \notin Results(tier)
        /\ Written' = Written \cup {n} /\ n \notin Written
    BY <1>1 DEF Results, Written
  <1>3. /\ IsFiniteSet(Results(tier)) /\ IsFiniteSet(Written)
    <2>1. Results(tier) \in SUBSET (DOMAIN rows) /\ Written \in SUBSET (DOMAIN rows)
      BY DEF Results, Written
    <2> QED
      BY <2>1, RowSets
  <1>4. /\ Cardinality(Results(tier) \cup {n}) = Cardinality(Results(tier)) + 1
        /\ Cardinality(Written \cup {n}) = Cardinality(Written) + 1
    BY <1>2, <1>3, FS_AddElement
  <1>5. \A t : t # tier => Results(t)' = Results(t) /\ \A s : Labelled(t, s)' = Labelled(t, s)
    BY <1>1 DEF Results, Labelled
  <1> QED
    BY <1>1, <1>2, <1>4, <1>5 DEF n

LEMMA SummaryInit == Init => SummaryInv
  BY DEF Init, SummaryInv, RowsInv, CountInv, SummedInv, FileInv, Waves, Absent

\* What leaves the rows, the tier and the wave alone.
LEMMA RowsSame ==
  ASSUME SummaryInv, UNCHANGED <<tier, wave, rows, summaries>>,
         pc' = pc \/ (pc' \notin Waiting \cup Waves \cup {"base", "post", "end"})
                  \/ (pc \in Waiting /\ pc' \in Waiting)
  PROVE  (RowsInv /\ CountInv /\ SummedInv)'
  BY DEF SummaryInv, RowsInv, CountInv, SummedInv, Results, Written, Labelled, Conc,
     Waiting, Waves

LEMMA SummedSame ==
  ASSUME SummedInv, UNCHANGED <<rows, summaries>>
  PROVE  SummedInv'
  <1>1. /\ \A t : Results(t)' = Results(t)
        /\ \A t, s : Labelled(t, s)' = Labelled(t, s)
    BY DEF Results, Labelled
  <1> QED
    BY <1>1 DEF SummedInv

LEMMA FileSame ==
  ASSUME SummaryInv, UNCHANGED <<rows, disk, summaries, out, sig>>,
         pc \in {"rows", "flush"} => pc' \in {"rows", "flush"},
         pc \in Finals => pc' \in Finals, over # "no" => over' # "no"
  PROVE  FileInv'
  BY DEF SummaryInv, FileInv

\* The steps of a tier that write nothing.
LEMMA TierKeeps ==
  ASSUME BatchTypes, SummaryInv, StartMonitor \/ StartWaves \/ Submit \/ Collect \/ StopMonitor
  PROVE  SummaryInv'
  <1>1. UNCHANGED <<tier, rows, disk, summaries, out, sig, over>>
    BY DEF StartMonitor, StartWaves, Submit, Collect, StopMonitor, Kept
  <1>2. \/ pc = "tier" /\ pc' = "base" /\ wave' = wave
        \/ pc = "base" /\ pc' = "wave" /\ wave' = 1
        \/ pc = "wave" /\ pc' = "wait" /\ wave' = wave
        \/ pc = "wait" /\ pc' = "rows" /\ wave' = wave
        \/ pc = "post" /\ pc' = "end" /\ wave' = wave
    BY DEF StartMonitor, StartWaves, Submit, Collect, StopMonitor, At
  <1>3. FileInv'
    BY <1>1, <1>2, FileSame DEF Finals
  <1>4. SummedInv'
    BY <1>1, SummedSame DEF SummaryInv
  <1>5. tier \in Nat /\ \A i \in DOMAIN rows : rows[i].tier \in Nat /\ rows[i].wave \in Nat
    <2>1. \A i \in DOMAIN rows : rows[i] \in OneRow
      BY DEF BatchTypes
    <2> QED
      BY <2>1, ConcFacts DEF OneRow
  <1>6. RowsInv'
    BY <1>1, <1>2, <1>5 DEF SummaryInv, RowsInv, Waiting, Waves
  <1>7. CountInv'
    <2>1. CASE pc = "tier" \/ pc = "wave" \/ pc = "post"
      BY <1>1, <1>2, <2>1 DEF SummaryInv, CountInv, Results, Conc, Waves
    <2>2. CASE pc = "base"
      <3>1. Results(tier) = {}
        BY <1>5, <2>2 DEF SummaryInv, RowsInv, Results
      <3>2. Results(tier)' = {} /\ Cardinality({}) = 0
        BY <1>1, <3>1, FS_EmptySet DEF Results
      <3>3. 1 \in 1 .. Rounds /\ 0 = (1 - 1) * Conc
        BY BatchAssumption, ConcFacts
      <3> QED
        BY <1>1, <1>2, <2>2, <3>2, <3>3 DEF CountInv, Conc, Waves
    <2>3. CASE pc = "wait"
      <3>1. Written = {}
        BY <1>5, <2>3 DEF SummaryInv, RowsInv, Results, Written
      <3>2. Written' = {} /\ Cardinality({}) = 0
        BY <1>1, <1>2, <2>3, <3>1, FS_EmptySet DEF Results, Written
      <3>3. (wave - 1) * Conc \in Int /\ 0 < Conc
        BY ConcFacts DEF BatchTypes
      <3>4. Cardinality(Results(tier)) = (wave - 1) * Conc + 0 /\ wave \in 1 .. Rounds
        BY <2>3, <3>3 DEF SummaryInv, CountInv, Waves
      <3> QED
        BY <1>1, <1>2, <2>3, <3>2, <3>3, <3>4 DEF CountInv, Results, Conc, Waves
    <2> QED
      BY <1>2, <2>1, <2>2, <2>3
  <1> QED
    BY <1>3, <1>4, <1>6, <1>7 DEF SummaryInv

LEMMA WriteRowKeeps ==
  ASSUME BatchTypes, SummaryInv, WriteRow
  PROVE  SummaryInv'
  <1> DEFINE c == Cardinality(Written)
             e == [tier |-> tier, wave |-> wave, status |-> req[c + 1]]
  <1>1. /\ pc = "rows" /\ c + 1 \in DOMAIN req /\ rows' = Append(rows, e)
        /\ pc' = IF c + 1 = Len(req) THEN "flush" ELSE "rows"
        /\ sig = "none" /\ over = "no"
        /\ UNCHANGED <<tier, wave, req, disk, summaries, out, sig, over>>
    BY DEF WriteRow, At, Alive
  <1>2. e \in OneRow /\ e.tier = tier /\ e.wave = wave
    <2> HIDE DEF c
    <2> QED
      BY <1>1, ConcFacts DEF BatchTypes, OneRow
  <1> HIDE DEF e
  <1>3. /\ DOMAIN rows' = DOMAIN rows \cup {Len(rows) + 1}
        /\ rows'[Len(rows) + 1] = e /\ \A i \in DOMAIN rows : rows'[i] = rows[i]
        /\ Cardinality(Results(tier))' = Cardinality(Results(tier)) + 1
        /\ Cardinality(Written)' = c + 1
        /\ \A t : t # tier => /\ Results(t)' = Results(t)
                              /\ \A s : Labelled(t, s)' = Labelled(t, s)
    BY <1>1, <1>2, RowMore
  <1>4. Conc \in Nat \ {0} /\ c \in Nat /\ tier \in Nat /\ Len(req) = Conc /\ wave \in Nat
    <2>1. Written \in SUBSET (DOMAIN rows)
      BY DEF Results, Written
    <2> QED
      BY <1>1, <2>1, RowSets, ConcFacts DEF BatchTypes
  <1>5. RowsInv'
    BY <1>1, <1>2, <1>3, <1>4 DEF SummaryInv, RowsInv, Waiting, Waves
  <1>6. CountInv'
    <2>1. /\ wave \in 1 .. Rounds /\ c < Conc
          /\ Cardinality(Results(tier)) = (wave - 1) * Conc + c
      BY <1>1 DEF SummaryInv, CountInv, Waves
    <2> HIDE DEF c
    <2>2. (wave - 1) * Conc \in Int /\ (wave - 1) * Conc + Conc = wave * Conc
      BY <1>4
    <2>3. CASE c + 1 = Conc
      BY <1>1, <1>3, <1>4, <2>1, <2>2, <2>3 DEF CountInv, Conc, Waves
    <2>4. CASE c + 1 # Conc
      BY <1>1, <1>3, <1>4, <2>1, <2>2, <2>4 DEF CountInv, Conc, Waves
    <2> QED
      BY <2>3, <2>4
  <1>7. SummedInv'
    <2>1. \A t \in DOMAIN summaries : t # tier
      BY <1>1, <1>4, ConcFacts DEF BatchTypes, Finals
    <2> QED
      BY <1>1, <1>3, <2>1 DEF SummaryInv, SummedInv
  <1>8. FileInv'
    <2>1. Len(rows') = Len(rows) + 1 /\ Len(rows) \in Nat
      BY <1>1, <1>2 DEF BatchTypes
    <2>2. out["summary"].state # "whole"
      BY <1>1 DEF SummaryInv, FileInv, Finals
    <2> QED
      BY <1>1, <2>1, <2>2 DEF SummaryInv, FileInv, Finals
  <1> QED
    BY <1>5, <1>6, <1>7, <1>8 DEF SummaryInv

LEMMA EndWaveKeeps ==
  ASSUME BatchTypes, SummaryInv, EndWave
  PROVE  SummaryInv'
  <1>1. /\ pc = "flush" /\ disk' = Len(rows) /\ sig = "none" /\ over = "no"
        /\ \/ wave < Rounds /\ wave' = wave + 1 /\ pc' = "wave"
           \/ ~(wave < Rounds) /\ wave' = 0 /\ pc' = "post"
        /\ UNCHANGED <<tier, rows, summaries, out, sig, over>>
    BY DEF EndWave, At, Alive, Flushed
  <1>2. /\ wave \in 1 .. Rounds /\ Rounds \in Nat /\ Conc \in Nat
        /\ Cardinality(Results(tier)) = wave * Conc
    BY <1>1, BatchAssumption, ConcFacts DEF SummaryInv, CountInv, Waves
  <1>3. \A i \in DOMAIN rows : rows[i].wave \in Nat
    <2>1. \A i \in DOMAIN rows : rows[i] \in OneRow
      BY DEF BatchTypes
    <2> QED
      BY <2>1 DEF OneRow
  <1>4. RowsInv'
    BY <1>1, <1>2, <1>3 DEF SummaryInv, RowsInv, Waiting, Waves
  <1>5. CountInv'
    <2>1. CASE wave < Rounds
      <3>1. ((wave + 1) - 1) * Conc = wave * Conc /\ wave + 1 \in 1 .. Rounds
        BY <1>2, <2>1
      <3> QED
        BY <1>1, <1>2, <2>1, <3>1 DEF CountInv, Results, Conc, Waves
    <2>2. CASE ~(wave < Rounds)
      <3>1. wave = Rounds
        BY <1>2, <2>2
      <3> QED
        BY <1>1, <1>2, <2>2, <3>1 DEF CountInv, Results, Conc, Waves
    <2> QED
      BY <2>1, <2>2
  <1>6. SummedInv'
    BY <1>1, SummedSame DEF SummaryInv
  <1>7. FileInv'
    <2>1. Len(rows) \in Nat
      BY DEF BatchTypes
    <2> QED
      BY <1>1, <2>1 DEF SummaryInv, FileInv, Finals
  <1> QED
    BY <1>4, <1>5, <1>6, <1>7 DEF SummaryInv

LEMMA EndTierSums ==
  ASSUME BatchTypes, SummaryInv, NEW start, NEW end, EndTier(start, end)
  PROVE  SummaryInv'
  <1>1. /\ pc = "end" /\ sig = "none" /\ over = "no"
        /\ UNCHANGED <<wave, rows, out, sig>>
    BY DEF EndTier, At, Alive
  <1>2. disk = Len(rows) /\ Len(rows) \in Nat /\ out["summary"].state # "whole"
    BY <1>1 DEF SummaryInv, FileInv, Finals, BatchTypes
  <1>3. CASE Raises(start, end)
    <2>1. over' = "error" /\ disk' = disk /\ UNCHANGED <<pc, tier, summaries>>
      BY <1>2, <1>3 DEF EndTier
    <2> QED
      BY <1>1, <2>1, RowsSame, FileSame DEF SummaryInv
  <1>4. CASE ~Raises(start, end)
    <2>1. /\ summaries' = Append(summaries, [acceptance |-> ByStatus, pure |-> Pure])
          /\ UNCHANGED <<disk, over>>
          /\ \/ tier' = tier + 1 /\ pc' = "tier"
             \/ tier' = tier /\ pc' = "summary"
      BY <1>4 DEF EndTier, Outputs
    <2>2. /\ summaries \in Seq(OneSummary) /\ Len(summaries) = tier - 1 /\ tier \in Nat
          /\ DOMAIN summaries = 1 .. tier - 1
      BY <1>1, ConcFacts DEF BatchTypes, Finals
    <2>3. /\ DOMAIN summaries' = 1 .. tier /\ summaries'[tier].acceptance = ByStatus
          /\ \A t \in 1 .. tier : t # tier => t \in DOMAIN summaries /\ summaries'[t] = summaries[t]
      BY <2>1, <2>2
    <2>4. /\ \A t : Results(t)' = Results(t)
          /\ \A t, s : Labelled(t, s)' = Labelled(t, s)
      BY <1>1 DEF Results, Labelled
    <2>5. SummedInv'
      <3>1. /\ Cardinality(Results(tier)) = Rounds * Plan[tier].concurrency
            /\ \A s \in StatusLabels : ByStatus[s] = Cardinality(Labelled(tier, s))
        BY <1>1 DEF SummaryInv, CountInv, Conc, ByStatus, Labelled
      <3> QED
        BY <2>3, <2>4, <3>1 DEF SummaryInv, SummedInv
    <2>6. \A i \in DOMAIN rows : rows[i].tier \in Nat
      <3>1. \A i \in DOMAIN rows : rows[i] \in OneRow
        BY DEF BatchTypes
      <3> QED
        BY <3>1 DEF OneRow
    <2>7. RowsInv'
      BY <1>1, <2>1, <2>2, <2>6 DEF SummaryInv, RowsInv, Waiting, Waves
    <2>8. CountInv'
      BY <2>1 DEF CountInv, Waves
    <2>9. FileInv'
      BY <1>1, <1>2, <2>1 DEF SummaryInv, FileInv
    <2> QED
      BY <2>5, <2>7, <2>8, <2>9 DEF SummaryInv
  <1> QED
    BY <1>3, <1>4

LEMMA WriteSums ==
  ASSUME BatchTypes, SummaryInv, NEW k \in DOMAIN Outputs, Write(k)
  PROVE  SummaryInv'
  <1>1. /\ pc \in Finals /\ pc' \in Finals /\ sig = "none" /\ over = "no"
        /\ UNCHANGED <<tier, wave, rows, disk, summaries, sig, over>>
        /\ \E f \in {"summary", "manifest"} :
             out' = [out EXCEPT ![f] = Torn] \/ out' = [out EXCEPT ![f] = Whole]
    BY DEF Write, At, Alive, Outputs, Finals
  <1>2. (RowsInv /\ CountInv /\ SummedInv)'
    BY <1>1, RowsSame DEF Waiting, Waves, Finals
  <1>3. disk = Len(rows)
    BY <1>1 DEF SummaryInv, FileInv, Finals
  <1>4. FileInv'
    BY <1>1, <1>3 DEF SummaryInv, FileInv, Torn, Whole, Finals
  <1> QED
    BY <1>2, <1>4 DEF SummaryInv

LEMMA HandlerSums ==
  ASSUME BatchTypes, SummaryInv, Signal \/ Handler
  PROVE  SummaryInv'
  <1>1. UNCHANGED <<pc, tier, wave, rows, summaries>> /\ over = "no"
    BY DEF Signal, Handler, HandlerFlush, HandlerExit
  <1>2. (RowsInv /\ CountInv /\ SummedInv)'
    BY <1>1, RowsSame
  <1>3. Len(rows) \in Nat
    BY DEF BatchTypes
  <1>4. CASE Signal
    BY <1>1, <1>2, <1>3, <1>4 DEF Signal, SummaryInv, FileInv
  <1>5. CASE HandlerFlush
    BY <1>1, <1>2, <1>3, <1>5 DEF HandlerFlush, SummaryInv, FileInv, Torn, Finals
  <1>6. CASE HandlerExit
    BY <1>1, <1>2, <1>3, <1>6 DEF HandlerExit, HandlersSummary, SummaryInv, FileInv, Whole, Finals
  <1> QED
    BY <1>2, <1>4, <1>5, <1>6 DEF Handler, SummaryInv

LEMMA SummaryKeeps ==
  ASSUME BatchTypes, SummaryInv, [Next]_vars
  PROVE  SummaryInv'
  <1>1. CASE \/ NotReady \/ Prepare \/ OpenFiles \/ Exit \/ Monitor \/ DropOrphan
             \/ Ended \/ (\E i \in DOMAIN req : Answer(i)) \/ UNCHANGED vars
    <2>1. UNCHANGED <<tier, wave, rows, disk, summaries, out, sig>>
      BY <1>1 DEF NotReady, Prepare, OpenFiles, Exit, Monitor, Sample, ReadRunning,
         DropOrphan, Ended, Answer, Admit, Refuse, Finish, GiveUp, Request, Kept, vars
    <2>2. /\ pc' = pc \/ (pc \in Waiting /\ pc' \in Waiting)
          /\ over # "no" => over' # "no"
      BY <1>1 DEF NotReady, Prepare, OpenFiles, Exit, Monitor, Sample, ReadRunning,
         DropOrphan, Ended, Answer, Admit, Refuse, Finish, GiveUp, Request, Kept, vars,
         At, Waiting
    <2>3. (RowsInv /\ CountInv /\ SummedInv)'
      BY <2>1, <2>2, RowsSame
    <2>4. FileInv'
      BY <2>1, <2>2, FileSame DEF Waiting, Finals
    <2> QED
      BY <2>3, <2>4 DEF SummaryInv
  <1>2. CASE StartMonitor \/ StartWaves \/ Submit \/ Collect \/ StopMonitor
    BY <1>2, TierKeeps
  <1>3. CASE WriteRow \/ EndWave
    BY <1>3, WriteRowKeeps, EndWaveKeeps
  <1>4. CASE \E start, end \in BOOLEAN : EndTier(start, end)
    BY <1>4, EndTierSums
  <1>5. CASE \E k \in DOMAIN Outputs : Write(k)
    BY <1>5, WriteSums
  <1>6. CASE Signal \/ Handler
    BY <1>6, HandlerSums
  <1> QED
    BY <1>1, <1>2, <1>3, <1>4, <1>5, <1>6 DEF Next, Main

LEMMA TypesHold == Spec => []BatchTypes
  <1>1. BatchTypes /\ [Next]_vars => BatchTypes'
    BY TypesKeep
  <1> QED
    BY <1>1, TypesInit, PTL DEF Spec

\* A tier that the samples call pure, with no lost request in the engine, had all
\* requests of one of its waves running at one moment (Monitor.classify), though the
\* time of a sample and what it reads are not of the same moment.
THEOREM PureTogether == Spec => []PureMeansTogether
  <1>1. BatchTypes /\ PureInv /\ [Next]_vars => PureInv'
    BY PureKeeps
  <1>2. PureInv => PureMeansTogether
    BY DEF PureInv
  <1> QED
    BY <1>1, <1>2, PureInit, TypesHold, PTL DEF Spec

\* Whoever wrote the summary that can be read, each of its tiers has the rows of all
\* its waves in the CSV file, with the statuses that it counts (summarize_tier and
\* write_rows in bench_v2.py, for any plan, rounds and number of signals).
THEOREM SummaryAgrees == Spec => []SummaryMatchesRows
  <1>1. BatchTypes /\ SummaryInv /\ [Next]_vars => SummaryInv'
    BY SummaryKeeps
  <1>2. BatchTypes /\ SummaryInv => SummaryMatchesRows
    <2> SUFFICES ASSUME BatchTypes, SummaryInv, out["summary"].state = "whole",
                        NEW t \in DOMAIN out["summary"].tiers
                 PROVE  /\ Cardinality(RowsOf(t)) = Rounds * Plan[t].concurrency
                        /\ \A s \in StatusLabels :
                             out["summary"].tiers[t].acceptance[s]
                               = Cardinality({i \in RowsOf(t) : rows[i].status = s})
      BY DEF SummaryMatchesRows
    <2>1. /\ out["summary"].tiers = summaries /\ disk = Len(rows)
          /\ DOMAIN rows = 1 .. Len(rows)
      BY ConcFacts DEF SummaryInv, FileInv
    <2>2. /\ RowsOf(t) = Results(t)
          /\ \A s : {i \in RowsOf(t) : rows[i].status = s} = Labelled(t, s)
      BY <2>1 DEF RowsOf, Results, Labelled
    <2> QED
      BY <2>1, <2>2 DEF SummaryInv, SummedInv
  <1> QED
    BY <1>1, <1>2, SummaryInit, TypesHold, PTL DEF Spec
=============================================================================
