----------------------------- MODULE ArcCampaign -----------------------------
(***************************************************************************)
(* An ensemble campaign on a cluster (rust/hpc/arc_campaign.py, started by *)
(* rust/hpc/arc_array.sbatch): array elements run the tasks of their bundle *)
(* in order, each task in an attempt directory of its own, and publish a   *)
(* success marker with the hashes of what the attempt wrote.  Elements are *)
(* killed and requeued, the same campaign is submitted more than once,     *)
(* people edit the binary and the configs, and the scratch file system     *)
(* loses files.  A hash is modelled by the content it stands for.          *)
(*                                                                         *)
(* An attempt directory that no marker and no running element names is     *)
(* never read again, and the serial number appended to its name keeps the   *)
(* name from blocking a later attempt: the model takes it for absent.      *)
(***************************************************************************)
EXTENDS Integers

CONSTANTS
  TaskCount,   \* tasks of the campaign
  BundleSize,  \* tasks_per_bundle
  Elements,    \* submission and bundle of every array element
  Attempts,    \* attempt directories of a task
  MaxKills,    \* bound: elements preempted or timed out
  MaxEdits,    \* bound: edits of the binary and the config
  MaxLosses,   \* bound: outputs lost on scratch
  Absent      \* an absent directory or marker

ASSUME TaskCountAssumption == TaskCount \in Nat \ {0}
ASSUME BundleSizeAssumption == BundleSize \in Nat \ {0}
ASSUME ElementsAssumption ==
  \A e \in Elements : e[2] \in Nat /\ e[2] * BundleSize < TaskCount
ASSUME BoundsAssumption == MaxKills \in Nat /\ MaxEdits \in Nat /\ MaxLosses \in Nat

VARIABLES
  inputs,   \* the binary and the config now, against the campaign's hashes
  failing,  \* tasks whose process returns an error
  attempt,  \* task -> directory -> its output
  marker,   \* task -> _SUCCESS.json
  element,  \* array element -> where it is in run_task, and on which task
  kills, edits, losses

campaignVars == <<inputs, failing, attempt, marker, element, kills, edits, losses>>

Tasks == 0 .. TaskCount - 1
Files == {"binary", "config"}
Locked == [f \in Files |-> "locked"]

\* What an attempt writes says which inputs it read; without files it is empty.
Output(in) == {<<f, in[f]>> : f \in Files}
Empty == {}
Outputs == {Output(in) : in \in [Files -> {"locked", "edited"}]}

ASSUME AbsentAssumption ==
  Absent \notin Outputs \cup {Empty} \cup Attempts \cup [attempt : Attempts, files : Outputs]

Idle == [pc |-> "idle", task |-> 0, attempt |-> Absent, files |-> Absent]

FirstTask(e) == e[2] * BundleSize

\* min(start + tasks_per_bundle, task_count)
LastTask(e) ==
  IF FirstTask(e) + BundleSize <= TaskCount THEN FirstTask(e) + BundleSize - 1
  ELSE TaskCount - 1

\* verify_success: no marker, a marker whose files are as recorded, or an error.
Verdict(t) ==
  IF marker[t] = Absent THEN "none"
  ELSE IF attempt[t][marker[t].attempt] = marker[t].files THEN "complete"
  ELSE "changed"

\* A campaign is built: the hashes of the inputs are those of the files.
CampaignInit ==
  /\ inputs = Locked
  /\ failing \in SUBSET Tasks
  /\ attempt = [t \in Tasks |-> [a \in Attempts |-> Absent]]
  /\ marker = [t \in Tasks |-> Absent]
  /\ element = [e \in Elements |-> Idle]
  /\ kills = 0
  /\ edits = 0
  /\ losses = 0

-----------------------------------------------------------------------------

At(e, pc) == element[e].pc = pc
Go(e, pc) == element' = [element EXCEPT ![e].pc = pc]

\* The element ends; its attempt, if no marker names it, is of no further use.
Exit(e) == element' = [element EXCEPT ![e] = Idle]
Abandon(e) ==
  attempt' = IF element[e].attempt = Absent THEN attempt
             ELSE [attempt EXCEPT ![element[e].task][element[e].attempt] = Absent]

\* run_bundle goes on to its next task.
NextTask(e) ==
  element' = [element EXCEPT ![e] =
    IF element[e].task < LastTask(e)
    THEN [Idle EXCEPT !.pc = "binary", !.task = element[e].task + 1]
    ELSE Idle]

\* Slurm starts the element, for the first time or again.
StartElement(e) ==
  /\ At(e, "idle")
  /\ element' = [element EXCEPT ![e] = [Idle EXCEPT !.pc = "binary", !.task = FirstTask(e)]]
  /\ UNCHANGED <<inputs, failing, attempt, marker, kills, edits, losses>>

\* The hash of an input is compared with the campaign's.
CheckInput(e, f, next) ==
  /\ At(e, f)
  /\ IF inputs[f] = "locked" THEN Go(e, next) ELSE Exit(e)
  /\ UNCHANGED <<inputs, failing, attempt, marker, kills, edits, losses>>

\* Variant of SkipCompleted: a completed task ends the bundle.
SkipCompletedAndExit(e) ==
  /\ At(e, "verify")
  /\ CASE Verdict(element[e].task) = "none" -> Go(e, "choose")
       [] OTHER -> Exit(e)
  /\ UNCHANGED <<inputs, failing, attempt, marker, kills, edits, losses>>

\* A completed task is skipped, a changed one ends the element with an error.
SkipCompleted(e) ==
  /\ At(e, "verify")
  /\ CASE Verdict(element[e].task) = "none" -> Go(e, "choose")
       [] Verdict(element[e].task) = "complete" -> NextTask(e)
       [] Verdict(element[e].task) = "changed" -> Exit(e)
  /\ UNCHANGED <<inputs, failing, attempt, marker, kills, edits, losses>>

\* The element picks a name that does not exist yet.
ChooseAttempt(e) ==
  /\ At(e, "choose")
  /\ \E a \in Attempts :
       /\ attempt[element[e].task][a] = Absent
       /\ element' = [element EXCEPT ![e].pc = "make", ![e].attempt = a]
  /\ UNCHANGED <<inputs, failing, attempt, marker, kills, edits, losses>>

\* Variant of MakeAttempt: mkdir accepts a directory that exists.
MakeOrShareAttempt(e) ==
  /\ At(e, "make")
  /\ attempt' = [attempt EXCEPT ![element[e].task][element[e].attempt] = Empty]
  /\ Go(e, "run")
  /\ UNCHANGED <<inputs, failing, marker, kills, edits, losses>>

\* mkdir fails when another element has made the directory meanwhile.
MakeAttempt(e) ==
  /\ At(e, "make")
  /\ IF attempt[element[e].task][element[e].attempt] = Absent
     THEN /\ attempt' = [attempt EXCEPT ![element[e].task][element[e].attempt] = Empty]
          /\ Go(e, "run")
     ELSE /\ Exit(e)
          /\ UNCHANGED attempt
  /\ UNCHANGED <<inputs, failing, marker, kills, edits, losses>>

\* The process reads the binary and the config as they are now.
RunProcess(e) ==
  /\ At(e, "run")
  /\ IF element[e].task \in failing
     THEN /\ Abandon(e)
          /\ Exit(e)
     ELSE /\ attempt' = [attempt EXCEPT ![element[e].task][element[e].attempt] = Output(inputs)]
          /\ Go(e, "hash")
  /\ UNCHANGED <<inputs, failing, marker, kills, edits, losses>>

\* The expected files must be there.
HashFiles(e) ==
  /\ At(e, "hash")
  /\ LET found == attempt[element[e].task][element[e].attempt]
     IN IF found # Empty
        THEN /\ element' = [element EXCEPT ![e].pc = "recheck", ![e].files = found]
             /\ UNCHANGED attempt
        ELSE /\ Abandon(e)
             /\ Exit(e)
  /\ UNCHANGED <<inputs, failing, marker, kills, edits, losses>>

\* Another element may have completed the task meanwhile.
Recheck(e) ==
  /\ At(e, "recheck")
  /\ IF Verdict(element[e].task) = "none"
     THEN /\ Go(e, "publish")
          /\ UNCHANGED attempt
     ELSE /\ Abandon(e)
          /\ IF Verdict(element[e].task) = "complete" THEN NextTask(e) ELSE Exit(e)
  /\ UNCHANGED <<inputs, failing, marker, kills, edits, losses>>

Publish(e) ==
  /\ At(e, "publish")
  /\ marker' = [marker EXCEPT ![element[e].task] =
                  [attempt |-> element[e].attempt, files |-> element[e].files]]
  /\ NextTask(e)
  /\ UNCHANGED <<inputs, failing, attempt, kills, edits, losses>>

\* The element is preempted, or its time is up.
Preempt(e) ==
  /\ kills < MaxKills
  /\ ~At(e, "idle")
  /\ kills' = kills + 1
  /\ IF element[e].pc \in {"run", "hash", "recheck", "publish"} THEN Abandon(e)
     ELSE UNCHANGED attempt
  /\ Exit(e)
  /\ UNCHANGED <<inputs, failing, marker, edits, losses>>

\* Somebody rebuilds the binary or edits the config, or restores it.
Edit(f) ==
  /\ edits < MaxEdits
  /\ edits' = edits + 1
  /\ inputs' = [inputs EXCEPT ![f] = IF @ = "locked" THEN "edited" ELSE "locked"]
  /\ UNCHANGED <<failing, attempt, marker, element, kills, losses>>

\* Scratch loses an output.
Lose(t, a) ==
  /\ losses < MaxLosses
  /\ attempt[t][a] \notin {Absent, Empty}
  /\ losses' = losses + 1
  /\ attempt' = [attempt EXCEPT ![t][a] = Empty]
  /\ UNCHANGED <<inputs, failing, marker, element, kills, edits>>

Step(e) ==
  \/ StartElement(e)
  \/ CheckInput(e, "binary", "config")
  \/ CheckInput(e, "config", "verify")
  \/ SkipCompleted(e) \/ ChooseAttempt(e) \/ MakeAttempt(e) \/ RunProcess(e)
  \/ HashFiles(e) \/ Recheck(e) \/ Publish(e)

CampaignNext ==
  \/ \E e \in Elements : Step(e) \/ Preempt(e)
  \/ \E f \in Files : Edit(f)
  \/ \E t \in Tasks, a \in Attempts : Lose(t, a)

CampaignSpec == CampaignInit /\ [][CampaignNext]_campaignVars

\* The campaign is submitted until it is complete, and a running element runs.
FairSpec == CampaignSpec /\ \A e \in Elements : WF_campaignVars(Step(e))

-----------------------------------------------------------------------------

\* Type invariant.
CampaignTypeOK ==
  /\ inputs \in [Files -> {"locked", "edited"}]
  /\ failing \in SUBSET Tasks
  /\ attempt \in [Tasks -> [Attempts -> Outputs \cup {Absent, Empty}]]
  /\ marker \in [Tasks -> [attempt : Attempts, files : Outputs] \cup {Absent}]
  /\ \A e \in Elements :
       /\ element[e].pc \in {"idle", "binary", "config", "verify", "choose", "make",
                             "run", "hash", "recheck", "publish"}
       /\ element[e].task \in Tasks
       /\ element[e].attempt \in Attempts \cup {Absent}
       /\ element[e].files \in Outputs \cup {Absent}

\* Elements of any submissions running the same task never write into the
\* attempt a marker names: what its hashes stand for is there, or was lost on
\* scratch, even when two of them publish.
EvidenceKept ==
  \A t \in Tasks : marker[t] # Absent =>
    attempt[t][marker[t].attempt] \in {marker[t].files, Empty}

\* While scratch loses nothing, a task that was complete stays complete: a
\* rerun, a kill or a second submission takes nothing away.
CompleteStays ==
  [][\A t \in Tasks : Verdict(t) = "complete" =>
       Verdict(t)' = "complete" \/ losses' > 0]_campaignVars

\* When the inputs are what the campaign locked in the end, every task gets its
\* marker, unless a task before it in its bundle fails or has lost its output.
InputsRestored == <>[](inputs = Locked)
Stopped(t) == t \in failing \/ Verdict(t) = "changed"
EveryReachableTaskCompletes ==
  InputsRestored =>
    \A e \in Elements : \A t \in FirstTask(e) .. LastTask(e) :
      <>(marker[t] # Absent \/ \E u \in FirstTask(e) .. t : Stopped(u))
=============================================================================
