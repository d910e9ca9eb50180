---------------------------- MODULE FilteredForecast ----------------------------
(***************************************************************************)
(* The filtered forecast of a study on resident particles: a weekly filter *)
(* that persists restarts, a posterior cache, and forecasts sampled from   *)
(* it in batches until their error is small enough.  The program may be    *)
(* killed at any point and run again.  What its random streams draw is     *)
(* fixed by its seeds: chosen once, and the same in every run.             *)
(***************************************************************************)
EXTENDS ParticlePool

CONSTANTS
  Weeks, RestartEvery,
  MaxTrajectories, \* max_forecast_trajectories
  Draws,           \* parents that a week's resampling may draw; <<>>: none is due
  Selections,      \* posterior members that the trajectories may be drawn from
  Stops,           \* trajectories after which the error may be small enough
  MaxRuns,         \* bound: times the program is started
  MaxCalls         \* bound: calls of a caller that makes any

ASSUME RunnerAssumption ==
  /\ Weeks \in Nat \ {0} /\ RestartEvery \in Nat \ {0}
  /\ Stops \subseteq 1..MaxTrajectories /\ Keys = 1..(Weeks + 1)
  /\ MaxTrajectories \in Nat /\ Selections \subseteq [1..MaxTrajectories -> Slots]
  /\ Draws \subseteq {<<>>} \cup [Slots -> Slots]

Posterior == Weeks + 1

VARIABLES
  stage, week,       \* of the run and of its filter
  draws, picks, enough,
  metadata, manifests, \* of the caches, by key
  forecast,          \* the trajectories consumed
  calls              \* of a caller that makes any

studyVars == <<draws, picks, enough>>
runVars == <<stage, week, studyVars, metadata, manifests, forecast, calls>>
vars == <<poolVars, runVars>>

Roots == [s \in Slots |-> << <<"slot", s>> >>]

\* _load_resident_particle_cache: a manifest counts when the metadata and every
\* payload are what it says.
Loadable(key) ==
  /\ manifests[key] # Nothing
  /\ metadata[key] = manifests[key].metadata
  /\ \A s \in Slots : files[<<key, s>>] = manifests[key].particles[s]

Stored(key) == [s \in Slots |-> files[<<key, s>>].state]

\* Variant: a run that starts over although a restart could be loaded.
RestartsForgotten == {}

Restarts == {key \in 1..Weeks : Loadable(key)}

Start ==
  /\ stage = "starting" /\ UNCHANGED <<studyVars, metadata, manifests, forecast, calls>>
  /\ \/ /\ manifests[Posterior] # Nothing /\ Loadable(Posterior)
        /\ Open(Stored(Posterior), "loading")
        /\ week' = metadata[Posterior].week /\ stage' = "summarizing"
     \/ /\ manifests[Posterior] = Nothing /\ Restarts # {}
        /\ Open(Stored(Max(Restarts)), "loading")
        /\ week' = metadata[Max(Restarts)].week /\ stage' = "training"
     \/ /\ manifests[Posterior] = Nothing /\ Restarts = {}
        /\ Open(Roots, "serving") /\ week' = 0 /\ stage' = "training"

\* A week: propagate to its end, weigh and perhaps resample, perhaps persist.
Advance ==
  /\ stage = "training" /\ ~broken /\ week < Weeks
  /\ AskPropagate(week + 1) /\ stage' = "assimilating"
  /\ UNCHANGED <<week, studyVars, metadata, manifests, forecast, calls>>

RestartDue(after) == after % RestartEvery = 0

Assimilate ==
  /\ stage = "assimilating" /\ Idle /\ ~broken
  /\ week' = week + 1
  /\ stage' = IF RestartDue(week + 1) THEN "saving" ELSE "training"
  /\ \/ draws[week + 1] = <<>> /\ UNCHANGED poolVars
     \/ draws[week + 1] # <<>> /\ AskResampleBalanced(draws[week + 1])
  /\ UNCHANGED <<studyVars, metadata, manifests, forecast, calls>>

\* The metadata first, then every payload, the manifest last.
Save(key, next) ==
  /\ ~broken /\ AskPersist(key) /\ stage' = next
  /\ metadata' = [metadata EXCEPT ![key] = [week |-> week, era |-> era]]
  /\ UNCHANGED <<week, studyVars, manifests, forecast, calls>>

SaveRestart == stage = "saving" /\ Save(week, "publishing")

SavePosterior == stage = "training" /\ week = Weeks /\ Save(Posterior, "publishing posterior")

Published(key) == [metadata |-> metadata[key], particles |-> Returned]

Publish ==
  /\ Idle /\ ~broken
  /\ \/ /\ stage = "publishing" /\ stage' = "training"
        /\ manifests' = [manifests EXCEPT ![week] = Published(week)]
     \/ /\ stage = "publishing posterior" /\ stage' = "summarizing"
        /\ manifests' = [manifests EXCEPT ![Posterior] = Published(Posterior)]
  /\ UNCHANGED <<poolVars, week, studyVars, metadata, forecast, calls>>

Summarize ==
  /\ stage = "summarizing" /\ ~broken /\ AskRead("summarize") /\ stage' = "forecasting"
  /\ UNCHANGED <<week, studyVars, metadata, manifests, forecast, calls>>

\* Trajectories are evaluated two for each worker at a time, in the order of their
\* numbers, and consumed in it until there are enough.
Batch ==
  LET done == Len(forecast) IN
  /\ stage = "forecasting" /\ ~broken
  /\ AskEvaluate([j \in 1..Least(2 * WorkerCount, MaxTrajectories - done) |->
                    [slot |-> picks[done + j], sample |-> done + j]])
  /\ stage' = "consuming"
  /\ UNCHANGED <<week, studyVars, metadata, manifests, forecast, calls>>

\* Variant: a batch is consumed whole.
ConsumedWhole == [j \in 1..Cardinality(DOMAIN Returned) |-> Returned[j]]

Consumed ==
  [j \in 1..Least(Cardinality(DOMAIN Returned), enough - Len(forecast)) |-> Returned[j]]

Consume ==
  /\ stage = "consuming" /\ Idle /\ ~broken
  /\ forecast' = forecast \o Consumed
  /\ stage' = IF Len(forecast') < enough THEN "forecasting" ELSE "tearing down"
  /\ UNCHANGED <<poolVars, week, studyVars, metadata, manifests, calls>>

\* An exception: of the forecast, into the finally; before it, and of the finally's
\* first call, out of the program.
Escape ==
  /\ Idle /\ broken
  /\ \/ stage \in {"training", "assimilating", "saving", "publishing",
                   "publishing posterior", "forecasting", "closing"} /\ stage' = "over"
     \/ stage = "consuming" /\ stage' = "tearing down"
  /\ UNCHANGED <<poolVars, week, studyVars, metadata, manifests, forecast, calls>>

\* The finally: the processor time of the workers, and close() if that has returned.
Measure ==
  /\ stage = "tearing down" /\ AskRead("metrics") /\ stage' = "closing"
  /\ UNCHANGED <<week, studyVars, metadata, manifests, forecast, calls>>

Close ==
  /\ stage = "closing" /\ ~broken /\ AskRead("shutdown") /\ stage' = "closed"
  /\ UNCHANGED <<week, studyVars, metadata, manifests, forecast, calls>>

End ==
  /\ stage = "closed" /\ ~Calling /\ stage' = "over"
  /\ UNCHANGED <<poolVars, week, studyVars, metadata, manifests, forecast, calls>>

\* The program is killed, with its workers, or it is over; and it is run again.
Rerun ==
  /\ stage \notin {"starting", "any"} /\ era < MaxRuns
  /\ Killed
  /\ stage' = "starting" /\ week' = 0 /\ forecast' = <<>>
  /\ UNCHANGED <<studyVars, metadata, manifests, calls>>

\* A caller that makes any calls of a pool: after one has raised, only close.
OpenAny ==
  /\ stage = "any" /\ era = 0 /\ Open(Roots, "serving")
  /\ UNCHANGED runVars

CallAny ==
  /\ stage = "any" /\ Idle
  /\ \/ /\ ~broken /\ calls < MaxCalls /\ calls' = calls + 1
        /\ \/ AskPropagate(1) \/ AskPersist(1)
           \/ \E name \in {"snapshot", "summarize", "metrics"} : AskRead(name)
           \/ \E slots \in Selections :
                AskEvaluate([j \in DOMAIN slots |-> [slot |-> slots[j], sample |-> j]])
           \/ \E parents \in Draws \ {<<>>} : AskResample(parents) \/ AskResampleBalanced(parents)
     \/ AskRead("shutdown") /\ UNCHANGED calls
  /\ UNCHANGED <<stage, week, studyVars, metadata, manifests, forecast>>

Init ==
  /\ PoolInit
  /\ week = 0 /\ forecast = <<>> /\ calls = 0
  /\ metadata = [key \in Keys |-> Nothing] /\ manifests = [key \in Keys |-> Nothing]
  /\ \/ /\ stage = "starting" /\ enough \in Stops /\ picks \in Selections
        /\ draws \in [1..Weeks -> Draws]
     \/ /\ stage = "any" /\ enough = 0 /\ picks = <<>> /\ draws = <<>>

Runs == Start \/ Advance \/ Assimilate \/ SaveRestart \/ SavePosterior \/ Publish
        \/ Summarize \/ Batch \/ Consume \/ Escape \/ Measure \/ Close \/ End
Works(w) == Worker(w) /\ UNCHANGED runVars
Coordinates == (Receive \/ Joins) /\ UNCHANGED runVars

Next == Runs \/ Coordinates \/ Rerun \/ OpenAny \/ CallAny \/ \E w \in Workers : Works(w)

Spec == Init /\ [][Next]_vars /\ WF_vars(Runs) /\ WF_vars(Coordinates)
             /\ \A w \in Workers : WF_vars(Works(w))

-----------------------------------------------------------------------------
\* What the filter's states are after each week when nothing goes wrong.
Reference[w \in 0..Weeks] ==
  IF w = 0 THEN Roots
  ELSE LET moved == [s \in Slots |-> Store!Advanced(Reference[w - 1][s], w)]
       IN IF draws[w] = <<>> THEN moved
          ELSE [s \in Slots |-> Store!Forked(moved[draws[w][s]], s)]

\* Wherever the program was killed, how often, and from whichever cache it went on
\* and with the slots dealt to the workers anew, the forecast is the one that an
\* uninterrupted serial run would make: the same posterior, and its first trajectories
\* in order, no more than were enough.
SameForecast ==
  Len(forecast) > 0 =>
    /\ Len(forecast) <= enough
    /\ stage \notin {"forecasting", "consuming"} /\ ~broken => Len(forecast) = enough
    /\ \A j \in DOMAIN forecast : forecast[j] = Store!Forked(Reference[Weeks][picks[j]], j)

\* What is published stays loadable, and is the filter after the week it names,
\* through every later run (persist_states: "a manifest can safely reference only
\* complete payloads"): the raise of a posterior that cannot be loaded is never met.
PublishedIsLoadable ==
  \A key \in Keys : manifests[key] # Nothing =>
    Loadable(key) /\ Stored(key) = Reference[metadata[key].week]

\* Once the forecast is over, or has failed, the program gets to its end (close:
\* "Teardown must not strand the coordinator on a dead IPC endpoint").
TeardownEnds == stage = "tearing down" ~> stage \in {"over", "starting"}
=============================================================================
