------------------------------ MODULE BenchV2 ------------------------------
(***************************************************************************)
(* src/tools/bench_v2.py: a batch of tiers against a serving engine.  In a *)
(* tier, waves of requests run side by side; the rows of a wave go to a    *)
(* CSV file, the statistics of a tier to a list that is written as the     *)
(* summary at the end, or by a signal handler that may run between any two *)
(* steps of the main thread, itself included.  A monitor thread samples    *)
(* how many requests the engine runs.                                      *)
(***************************************************************************)
EXTENDS Integers, Sequences, FiniteSets

CONSTANTS
  Concs,       \* the concurrency groups, in the order they are run
  Kinds,       \* the tiers of a group: the tasks (DE), then the prefixes (PR)
  Rounds,      \* waves of a tier
  Refusals,    \* how a request can fail before the engine has it
  Endings,     \* how it can end on its own
  Losses,      \* how the client can lose a request that the engine runs
  MaxOrphans,  \* lost requests that the engine still runs; bounds the model
  MaxSignals   \* SIGINTs and SIGTERMs of a run; bounds the model

\* STATUS_LABELS: _err and _build give a request one of these.
StatusLabels == {"ok", "http_err", "timeout", "conn_err", "model_err", "other"}

\* A batch has a tier, a tier a wave and a wave a request.
ASSUME BatchAssumption ==
  /\ Concs \in Seq(Nat \ {0}) /\ Len(Concs) > 0
  /\ Len(Kinds) \in Nat \ {0} /\ Rounds \in Nat \ {0}
  /\ Refusals \cup Endings \cup Losses \subseteq StatusLabels
  /\ MaxOrphans \in Nat /\ MaxSignals \in Nat

\* build_plan: all tiers of a group before the next group.
Plan == [i \in 1 .. Len(Concs) * Len(Kinds) |->
           [kind |-> Kinds[((i - 1) % Len(Kinds)) + 1],
            concurrency |-> Concs[((i - 1) \div Len(Kinds)) + 1]]]

VARIABLES
  pc,         \* where the main thread is
  tier, wave, \* the current ones
  req,        \* the wave: "none", "sent", "running" or the status of its end
  orphans,    \* requests the client has lost and the engine still runs
  counters,   \* the engine has counters of speculative decoding
  mon,        \* the monitor: "off", "idle", or holding a time of the waves
              \* ("in") before it reads the metrics
  peak,       \* the largest sample of the waves
  rows,       \* the rows written
  disk,       \* how many of them the file has
  summaries,  \* the list of the tiers' statistics
  out,        \* the output files: [state, tiers]
  sig,        \* the signal handler: "none", "flush" or "write"
  signals,    \* the signals sent
  over,       \* how the process ended, "no" before
  seen        \* history of each tier: its wave was together, orphans were there

vars == <<pc, tier, wave, req, orphans, counters, mon, peak, rows, disk,
          summaries, out, sig, signals, over, seen>>

\* The results a tier is judged by, and the files, stay.
Kept == <<rows, disk, summaries, out, sig, signals, over>>

Requests == 1 .. Plan[tier].concurrency

Running == Cardinality({i \in DOMAIN req : req[i] = "running"}) + orphans

Absent == [state |-> "absent", tiers |-> <<>>]
Torn == [state |-> "torn", tiers |-> <<>>]
Whole == [state |-> "whole", tiers |-> summaries]

\* Variant for a mutant: the manifest before what it lists.
ManifestFirst == <<"manifest", "summary">>

\* The files written when all tiers are done (the copy of the options, in
\* between, is left out).
Outputs == <<"summary", "manifest">>

Init ==
  /\ pc = "setup" /\ tier = 1 /\ wave = 0
  /\ req = <<>> /\ orphans = 0 /\ counters \in BOOLEAN
  /\ mon = "off" /\ peak = 0
  /\ rows = <<>> /\ disk = 0 /\ summaries = <<>>
  /\ out = [f \in {"summary", "manifest"} |-> Absent]
  /\ sig = "none" /\ signals = 0 /\ over = "no"
  /\ seen = <<>>

\* No handler is on top of the main thread. What the other threads do while one
\* is reaches no file, and is left out.
Alive == sig = "none" /\ over = "no"

At(l) == Alive /\ pc = l

-----------------------------------------------------------------------------
(***************************************************************************)
(* The main thread.                                                        *)
(***************************************************************************)

\* The endpoint is not there, or the calibration fails: no file is touched.
NotReady ==
  /\ At("setup")
  /\ over' = "error"
  /\ UNCHANGED <<pc, tier, wave, req, orphans, counters, mon, peak, rows, disk,
                 summaries, out, sig, signals, seen>>

\* Ready, calibrated and planned; the handlers are set.
Prepare ==
  /\ At("setup")
  /\ pc' = "opening"
  /\ UNCHANGED <<tier, wave, req, orphans, counters, mon, peak, seen, Kept>>

\* The handler knows the list of summaries from here on.
OpenFiles ==
  /\ At("opening")
  /\ pc' = "tier"
  /\ UNCHANGED <<tier, wave, req, orphans, counters, mon, peak, seen, Kept>>

StartMonitor ==
  /\ At("tier")
  /\ pc' = "base" /\ mon' = "idle"
  /\ seen' = Append(seen, [together |-> FALSE, mixed |-> orphans > 0])
  /\ UNCHANGED <<tier, wave, req, orphans, counters, peak, Kept>>

\* After the baseline samples and a first reading of the metrics.
StartWaves ==
  /\ At("base")
  /\ pc' = "wave" /\ wave' = 1
  /\ UNCHANGED <<tier, req, orphans, counters, mon, peak, seen, Kept>>

\* run_wave: a worker for each request.
Submit ==
  /\ At("wave")
  /\ pc' = "wait" /\ req' = [i \in Requests |-> "sent"]
  /\ UNCHANGED <<tier, wave, orphans, counters, mon, peak, seen, Kept>>

\* Variant for a mutant: a wave is over when all its requests succeeded.
AllSucceeded == \A i \in DOMAIN req : req[i] = "ok"

\* Every future has its result, an error or not.
AllDone == \A i \in DOMAIN req : req[i] \in StatusLabels

Collect ==
  /\ At("wait") /\ AllDone
  /\ pc' = "rows"
  /\ UNCHANGED <<tier, wave, req, orphans, counters, mon, peak, seen, Kept>>

\* The results of a tier, and the rows of the wave that are written.
Results(t) == {i \in DOMAIN rows : rows[i].tier = t}
Written == {i \in Results(tier) : rows[i].wave = wave}

\* write_rows: the results in the order of the prompts.
WriteRow ==
  LET i == Cardinality(Written) + 1 IN
  /\ At("rows") /\ i \in DOMAIN req
  /\ rows' = Append(rows, [tier |-> tier, wave |-> wave, status |-> req[i]])
  /\ pc' = IF i = Len(req) THEN "flush" ELSE "rows"
  /\ UNCHANGED <<tier, wave, req, orphans, counters, mon, peak, disk,
                 summaries, out, sig, signals, over, seen>>

\* Variant for a mutant: the file is left to its buffer.
LazyFlush == disk

Flushed == Len(rows)

EndWave ==
  /\ At("flush")
  /\ disk' = Flushed
  /\ req' = <<>>
  /\ IF wave < Rounds THEN wave' = wave + 1 /\ pc' = "wave"
                      ELSE wave' = 0 /\ pc' = "post"
  /\ UNCHANGED <<tier, orphans, counters, mon, peak, rows, summaries, out,
                 sig, signals, over, seen>>

\* Monitor.stop: join gives up on a sample that is on its way.
StopMonitor ==
  /\ At("post")
  /\ pc' = "end" /\ mon' = "off"
  /\ UNCHANGED <<tier, wave, req, orphans, counters, peak, seen, Kept>>

\* summarize_tier.
ByStatus ==
  [s \in StatusLabels |-> Cardinality({i \in Results(tier) : rows[i].status = s})]

\* Variant for a mutant: pure is what does not overshoot.
NotOver == peak > 0 /\ ~ (peak > Plan[tier].concurrency)

\* Monitor.classify.
Pure == peak >= Plan[tier].concurrency /\ ~ (peak > Plan[tier].concurrency)

\* dspark_stats on the two snapshots: without the counters it divides None by
\* the number of requests, and the exception ends the batch.
Raises(start, end) == start /\ end /\ ~counters

\* The end of a tier, of which the metrics could be read at the start and at the
\* end or not. On an exception "finally" closes the CSV file, and nothing writes
\* the summary.
EndTier(start, end) ==
  /\ At("end")
  /\ IF Raises(start, end)
     THEN /\ over' = "error" /\ disk' = Len(rows)
          /\ UNCHANGED <<pc, tier, summaries>>
     ELSE /\ summaries' = Append(summaries, [acceptance |-> ByStatus, pure |-> Pure])
          /\ IF tier < Len(Plan) THEN tier' = tier + 1 /\ pc' = "tier"
                                 ELSE tier' = tier /\ pc' = Outputs[1]
          /\ UNCHANGED <<disk, over>>
  /\ peak' = 0
  /\ UNCHANGED <<wave, req, orphans, counters, mon, rows, out, sig, signals, seen>>

\* An output is truncated, and then written.
Write(k) ==
  /\ At(Outputs[k])
  /\ IF out[Outputs[k]] # Torn
     THEN out' = [out EXCEPT ![Outputs[k]] = Torn] /\ pc' = pc
     ELSE /\ out' = [out EXCEPT ![Outputs[k]] = Whole]
          /\ pc' = IF k < Len(Outputs) THEN Outputs[k + 1] ELSE "exit"
  /\ UNCHANGED <<tier, wave, req, orphans, counters, mon, peak, rows, disk,
                 summaries, sig, signals, over, seen>>

Exit ==
  /\ At("exit")
  /\ over' = "done"
  /\ UNCHANGED <<pc, tier, wave, req, orphans, counters, mon, peak, rows, disk,
                 summaries, out, sig, signals, seen>>

-----------------------------------------------------------------------------
(***************************************************************************)
(* run_one and the engine (the engine is external).  A request lives on in *)
(* the engine when the client gives it up.                                 *)
(***************************************************************************)

\* A request ends, is admitted or is lost.
Request(i, state, lost) ==
  /\ req' = [req EXCEPT ![i] = state]
  /\ orphans' = orphans + lost
  /\ seen' = [seen EXCEPT ![tier] =
       [together |-> @.together \/ \A j \in DOMAIN req' : req'[j] = "running",
        mixed |-> @.mixed \/ orphans' > 0]]
  /\ UNCHANGED <<pc, tier, wave, counters, mon, peak, Kept>>

InState(i, s) == Alive /\ i \in DOMAIN req /\ req[i] = s

Admit(i) == InState(i, "sent") /\ Request(i, "running", 0)

\* The post raises, or the answer is not 200.
Refuse(i) == InState(i, "sent") /\ \E s \in Refusals : Request(i, s, 0)

\* The stream ends: with usage, or with an error of the model or without usage.
Finish(i) == InState(i, "running") /\ \E s \in Endings : Request(i, s, 0)

\* The deadline is over at the next line, or the stream breaks.
GiveUp(i) ==
  /\ InState(i, "running") /\ orphans < MaxOrphans
  /\ \E s \in Losses : Request(i, s, 1)

\* The engine notices that nobody listens.
DropOrphan ==
  /\ Alive /\ orphans > 0
  /\ orphans' = orphans - 1
  /\ UNCHANGED <<pc, tier, wave, req, counters, mon, peak, seen, Kept>>

-----------------------------------------------------------------------------
(***************************************************************************)
(* Monitor.run: the time is taken before the metrics are read.  Samples of  *)
(* another time than that of the waves are in no decision and left out.     *)
(***************************************************************************)

Sample ==
  /\ Alive /\ mon = "idle" /\ pc \in {"wave", "wait", "rows", "flush"}
  /\ mon' = "in"
  /\ UNCHANGED <<pc, tier, wave, req, orphans, counters, peak, seen, Kept>>

ReadRunning ==
  /\ Alive /\ mon = "in"
  /\ mon' = "idle"
  /\ peak' \in {peak, IF Running > peak THEN Running ELSE peak}
  /\ UNCHANGED <<pc, tier, wave, req, orphans, counters, seen, Kept>>

-----------------------------------------------------------------------------
(***************************************************************************)
(* _sig_flush_handler.  SIGINT and SIGTERM start it, also on top of itself;*)
(* then the outer one never goes on.                                       *)
(***************************************************************************)

Signal ==
  /\ over = "no" /\ pc # "setup" /\ signals < MaxSignals
  /\ sig' = "flush" /\ signals' = signals + 1
  /\ UNCHANGED <<pc, tier, wave, req, orphans, counters, mon, peak, rows, disk,
                 summaries, out, over, seen>>

\* Flush the CSV file and truncate the summary, once the list is known.
HandlerFlush ==
  /\ sig = "flush" /\ over = "no"
  /\ disk' = Len(rows) /\ sig' = "write"
  /\ out' = IF pc = "opening" THEN out ELSE [out EXCEPT !["summary"] = Torn]
  /\ UNCHANGED <<pc, tier, wave, req, orphans, counters, mon, peak, rows,
                 summaries, signals, over, seen>>

\* Variant for a mutant: the handler raises SystemExit; what the main thread had
\* not yet written of the summary goes in behind.
RaisingHandler ==
  IF pc = "summary" THEN Torn ELSE Whole

\* os._exit: no buffer of the main thread is written any more.
HandlersSummary == Whole

HandlerExit ==
  /\ sig = "write" /\ over = "no"
  /\ over' = "signal"
  /\ out' = IF pc = "opening" THEN out ELSE [out EXCEPT !["summary"] = HandlersSummary]
  /\ UNCHANGED <<pc, tier, wave, req, orphans, counters, mon, peak, rows, disk,
                 summaries, sig, signals, seen>>

Ended == over # "no" /\ UNCHANGED vars

Main ==
  \/ NotReady \/ Prepare \/ OpenFiles \/ StartMonitor \/ StartWaves \/ Submit \/ Collect
  \/ WriteRow \/ EndWave \/ StopMonitor \/ Exit
  \/ \E start, end \in BOOLEAN : EndTier(start, end)
  \/ \E k \in DOMAIN Outputs : Write(k)

Answer(i) == Admit(i) \/ Refuse(i) \/ Finish(i) \/ GiveUp(i)
Monitor == Sample \/ ReadRunning
Handler == HandlerFlush \/ HandlerExit

Next ==
  \/ Main \/ Monitor \/ Handler
  \/ \E i \in DOMAIN req : Answer(i)
  \/ DropOrphan \/ Signal \/ Ended

\* Every thread goes on, and every read of a request returns or times out. No
\* fairness of signals, and none of the monitor.
Fairness ==
  /\ WF_vars(Main) /\ WF_vars(Handler)
  /\ \A c \in {Concs[k] : k \in DOMAIN Concs} : \A i \in 1 .. c : WF_vars(Answer(i))

Spec == Init /\ [][Next]_vars
FairSpec == Spec /\ Fairness

-----------------------------------------------------------------------------
(***************************************************************************)
(* Properties.                                                             *)
(***************************************************************************)

RowsOf(t) == {i \in 1 .. disk : rows[i].tier = t}

\* Whenever a summary can be read, whoever wrote it, and wherever a kill (which
\* changes no file) leaves the process, it agrees with the CSV file on disk: each
\* of its tiers has the rows of all its waves there, and the statuses add up to
\* those of the summary.
SummaryMatchesRows ==
  out["summary"].state = "whole" =>
    \A t \in DOMAIN out["summary"].tiers :
      /\ Cardinality(RowsOf(t)) = Rounds * Plan[t].concurrency
      /\ \A s \in StatusLabels :
           out["summary"].tiers[t].acceptance[s]
             = Cardinality({i \in RowsOf(t) : rows[i].status = s})

\* A batch that a signal ended keeps what it had: every row that was written, and
\* once the first tier runs a whole summary with every tier that was done, even
\* when the signal came in the middle of a write, or of another signal's handler.
SignalKeepsResults ==
  over = "signal" =>
    /\ disk = Len(rows)
    /\ pc # "opening" => out["summary"] = Whole

\* A manifest says that the batch is complete: with it there is a summary of all
\* tiers, which only a handler at work, or one that was killed, leaves torn.
ManifestMeansAll ==
  out["manifest"].state = "whole" =>
    /\ out["summary"].state # "absent"
    /\ out["summary"].state = "whole" => Len(out["summary"].tiers) = Len(Plan)
    /\ out["summary"].state = "torn" => sig # "none"

\* A tier is called pure from samples whose times and readings differ. Even so,
\* as long as no lost request was left in the engine, all requests of one of its
\* waves did run at the same moment.
PureMeansTogether ==
  \A t \in DOMAIN summaries :
    summaries[t].pure /\ ~seen[t].mixed => seen[t].together

\* The batch ends, whatever becomes of its requests.
BatchEnds == <>(over # "no")
=============================================================================
