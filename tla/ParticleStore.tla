----------------------------- MODULE ParticleStore -----------------------------
(***************************************************************************)
(* What a pool of resident particles promises its caller: one collection   *)
(* of particle states, changed or read by one call at a time, as if they   *)
(* were all at hand.  A call that raises promises nothing any more.        *)
(* A state is the sequence of what became of it: the slot it began in, the *)
(* observations it was propagated to and the slots it was forked for.      *)
(***************************************************************************)
EXTENDS Naturals, FiniteSets, Sequences

CONSTANTS Slots, Nothing

VARIABLES
  particles,
  request,  \* [op |-> ..., arg |-> ...], or NoRequest
  answer, broken,
  era       \* pools opened so far

storeVars == <<particles, request, answer, broken, era>>

Advanced(state, time) == Append(state, <<"advanced", time>>)
Forked(state, child) == Append(state, <<"forked", child>>)

NoRequest == [op |-> "none", arg |-> Nothing]
Requested == request.op # "none"

Request ==
  /\ ~Requested /\ ~broken /\ Requested'
  /\ UNCHANGED <<particles, answer, broken, era>>

Answers(got) == answer' = [op |-> request.op, got |-> got]

Resampled == particles' = [s \in Slots |-> Forked(particles[request.arg[s]], s)]

\* As many children have moved as left one place and as came to another.
AnswersMoved ==
  \E n \in 0..Cardinality(Slots) : Answers([migrated |-> n, exported |-> n, imported |-> n])

Return ==
  /\ Requested /\ request' = NoRequest /\ UNCHANGED <<broken, era>>
  /\ \/ /\ request.op = "propagate"
        /\ particles' = [s \in Slots |-> Advanced(particles[s], request.arg)]
        /\ Answers(particles')
     \/ /\ request.op = "evaluate_nonmutating"
        /\ Answers([job \in DOMAIN request.arg |->
                      Forked(particles[request.arg[job].slot], request.arg[job].sample)])
        /\ UNCHANGED particles
     \/ request.op = "resample" /\ Resampled /\ UNCHANGED answer
     \/ request.op = "resample_balanced" /\ Resampled /\ AnswersMoved
     \/ /\ request.op \in {"snapshot", "summarize"}
        /\ Answers(particles) /\ UNCHANGED particles
     \/ /\ request.op = "persist"
        /\ Answers([s \in Slots |-> [state |-> particles[s], era |-> era]])
        /\ UNCHANGED particles
     \/ request.op \in {"metrics", "shutdown"} /\ UNCHANGED <<answer, particles>>

Raise ==
  /\ Requested /\ request' = NoRequest /\ broken' = TRUE
  /\ UNCHANGED <<particles, answer, era>>

Events == {"slot", "advanced", "forked"} \X Nat
Contents == [Slots -> Seq(Events)]

Reopen ==
  /\ era' = era + 1
  /\ particles' \in Contents
  /\ request' = NoRequest /\ answer' = Nothing /\ broken' = FALSE

Init ==
  /\ particles \in Contents /\ era = 0
  /\ request = NoRequest /\ answer = Nothing /\ broken = FALSE

Next == Request \/ Return \/ Raise \/ Reopen

Spec == Init /\ [][Next]_storeVars
=============================================================================
