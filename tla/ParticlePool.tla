------------------------------ MODULE ParticlePool ------------------------------
(***************************************************************************)
(* PersistentParticlePool: particle states resident in worker processes,   *)
(* with a command and a result queue for each.  A coordinator sends one    *)
(* command to all and then takes the replies in the order of the workers;  *)
(* resample_balanced makes workers send each other children, which arrive  *)
(* over the same command queue in any order with the coordinator's.  A     *)
(* callback may raise in any command: the worker reports it and ends.      *)
(* Not here: propagate_profiled, which is propagate with timings;          *)
(* import_resampled, handled by the workers but sent by nobody; and the    *)
(* number of a resampling, since nothing is asked of a pool again before   *)
(* a resampling of it is over.                                             *)
(***************************************************************************)
EXTENDS Naturals, FiniteSets, FiniteSetsExt, Functions, Sequences, SequencesExt

CONSTANTS
  ParticleCount, WorkersAsked,
  Nothing,
  MaxRaises,   \* bound: callbacks that raise in a behaviour
  Oversize,    \* messages that may be larger than what a pipe holds
  Keys         \* of the caches that states are persisted in

ASSUME PoolAssumption ==
  /\ ParticleCount \in Nat \ {0} /\ WorkersAsked \in Nat \ {0} /\ MaxRaises \in Nat

Slots == 0..(ParticleCount - 1)
WorkerCount == IF WorkersAsked <= ParticleCount THEN WorkersAsked ELSE ParticleCount
Workers == 0..(WorkerCount - 1)
Coordinator == WorkerCount

VARIABLES
  states,      \* what each worker holds, by slot
  phase,       \* of each worker; "ended": its function has returned
  doing,       \* what a worker has of a command that takes it several steps
  imports,     \* pending_imports of each worker, by slot
  commands,    \* to each worker, from each sender: what it has not taken yet
  results,     \* of each worker
  call,        \* the coordinator's, with the replies it has got; or NoCall
  assignment,  \* of slots to workers, as the coordinator knows it
  answer, broken, closed,
  gone,        \* workers whose process is known to have ended: joined or terminated
  era,         \* pools opened so far
  raises,
  content,     \* history: what the workers held when the coordinator last knew
  files        \* persisted states, by key and slot, with the era that wrote them

workerVars == <<states, phase, doing, imports, commands, results>>
coordinatorVars == <<call, assignment, answer, broken, closed, gone, era, content>>
poolVars == <<workerVars, coordinatorVars, raises, files>>

NoCall == [op |-> "none", arg |-> Nothing, next |-> 0, got |-> <<>>]
Calling == call.op # "none"

\* A dictionary updated with another.
Updated(own, more) ==
  [x \in DOMAIN own \cup DOMAIN more |-> IF x \in DOMAIN more THEN more[x] ELSE own[x]]

ForAll(each) == [w \in Workers |-> each]
NoCommands == [w \in Workers |-> [from \in Workers \cup {Coordinator} |-> <<>>]]

\* What the workers hold.
Held == [s \in UNION {DOMAIN states[w] : w \in Workers} |->
           states[CHOOSE w \in Workers : s \in DOMAIN states[w]][s]]

Store == INSTANCE ParticleStore WITH
  particles <- content,
  request <- [op |-> IF broken THEN "none" ELSE call.op,
              arg |-> IF broken THEN Nothing ELSE call.arg]

-----------------------------------------------------------------------------
\* The layout: slots are dealt round to the workers.  After a balanced resampling
\* a worker holds its even share; the first children of its own parents stay, and
\* the others fill the room left, in the order of the workers.
Capacity(w) == (ParticleCount \div WorkerCount)
               + (IF w < ParticleCount % WorkerCount THEN 1 ELSE 0)

Children(w, parents) == {c \in Slots : assignment[parents[c]] = w}

Stays(c, parents) ==
  Cardinality({d \in Children(assignment[parents[c]], parents) : d < c})
    < Capacity(assignment[parents[c]])

Least(a, b) == IF a <= b THEN a ELSE b

\* Room left on the workers up to t once those that stay are placed.
Room(t, parents) ==
  Cardinality({place \in (0..t) \X (1..ParticleCount) :
                 /\ Cardinality(Children(place[1], parents)) < place[2]
                 /\ place[2] <= Capacity(place[1])})

Target(c, parents) ==
  IF Stays(c, parents) THEN assignment[parents[c]]
  ELSE LET rank == Cardinality({d \in 0..c : ~Stays(d, parents)})
       IN CHOOSE t \in Workers : Room(t, parents) >= rank
                                 /\ \A u \in 0..(t - 1) : Room(u, parents) < rank

-----------------------------------------------------------------------------
\* Queues.  A queue keeps the order of one sender.
Took(w, from) == [commands EXCEPT ![w][from] = Tail(@)]
Put(w, reply) == results' = [results EXCEPT ![w] = Append(@, reply)]

Command(w, from, name) == commands[w][from] # <<>> /\ Head(commands[w][from]).op = name
Payload(w, from) == Head(commands[w][from]).arg

Serving(w, name) ==
  /\ phase[w] = "serving" /\ Command(w, Coordinator, name)
  /\ UNCHANGED <<coordinatorVars, raises, files>>

Propagate(w) ==
  LET moved == [s \in DOMAIN states[w] |->
                  Store!Advanced(states[w][s], Payload(w, Coordinator))]
  IN
  /\ Serving(w, "propagate")
  /\ commands' = Took(w, Coordinator)
  /\ states' = [states EXCEPT ![w] = moved]
  /\ Put(w, [op |-> "propagate", got |-> moved])
  /\ UNCHANGED <<phase, doing, imports>>

\* Variant: the forecast's state becomes the resident one.
EvaluateInPlace(w) ==
  LET jobs == Payload(w, Coordinator)
      evaluated == [j \in DOMAIN jobs |-> Store!Forked(states[w][jobs[j].slot], jobs[j].sample)]
  IN
  /\ Serving(w, "evaluate_nonmutating")
  /\ commands' = Took(w, Coordinator)
  /\ Put(w, [op |-> "evaluate_nonmutating", got |-> evaluated])
  /\ states' = [states EXCEPT ![w] = [s \in DOMAIN @ |->
       IF \E j \in DOMAIN jobs : jobs[j].slot = s
       THEN evaluated[CHOOSE j \in DOMAIN jobs : jobs[j].slot = s] ELSE @[s]]]
  /\ UNCHANGED <<phase, doing, imports>>

\* A forecast is of a fork that is thrown away.
Evaluate(w) ==
  LET jobs == Payload(w, Coordinator) IN
  /\ Serving(w, "evaluate_nonmutating")
  /\ commands' = Took(w, Coordinator)
  /\ Put(w, [op |-> "evaluate_nonmutating",
             got |-> [j \in DOMAIN jobs |->
                        Store!Forked(states[w][jobs[j].slot], jobs[j].sample)]])
  /\ UNCHANGED <<states, phase, doing, imports>>

Offspring(w, parentOf) == [c \in DOMAIN parentOf |-> Store!Forked(states[w][parentOf[c]], c)]

Resample(w) ==
  /\ Serving(w, "resample")
  /\ commands' = Took(w, Coordinator)
  /\ states' = [states EXCEPT ![w] = Offspring(w, Payload(w, Coordinator))]
  /\ Put(w, [op |-> "resample", got |-> <<>>])
  /\ UNCHANGED <<phase, doing, imports>>

Read(w, name) ==
  /\ Serving(w, name)
  /\ commands' = Took(w, Coordinator)
  /\ Put(w, [op |-> name, got |-> IF name = "metrics" THEN <<>> ELSE states[w]])
  /\ UNCHANGED <<states, phase, doing, imports>>

\* Variant: a worker that acknowledges "shutdown" and goes on.
ShutdownGoesOn(w) ==
  /\ Serving(w, "shutdown")
  /\ commands' = Took(w, Coordinator)
  /\ Put(w, [op |-> "shutdown", got |-> <<>>])
  /\ UNCHANGED <<states, phase, doing, imports>>

Shutdown(w) ==
  /\ Serving(w, "shutdown")
  /\ commands' = Took(w, Coordinator)
  /\ phase' = [phase EXCEPT ![w] = "ended"]
  /\ Put(w, [op |-> "shutdown", got |-> <<>>])
  /\ UNCHANGED <<states, doing, imports>>

\* Variant: a bundle that was there first is forgotten.
AdoptedOwn(w, next) == next

\* Its children so far, those that peers sent before its own command included.
Adopted(w, next) == Updated(imports[w], next)

\* A worker that has its whole share goes on.
Settle(w, next, exported, expected, own) ==
  IF Cardinality(DOMAIN next) >= expected
  THEN /\ states' = [states EXCEPT ![w] = next]
       /\ phase' = [phase EXCEPT ![w] = "serving"]
       /\ doing' = [doing EXCEPT ![w] = Nothing]
       /\ Put(w, [op |-> "resample_balanced",
                  got |-> [exported |-> exported,
                           imported |-> Cardinality(DOMAIN next) - own]])
  ELSE /\ phase' = [phase EXCEPT ![w] = "importing"]
       /\ doing' = [doing EXCEPT ![w] =
            [next |-> next, exported |-> exported, expected |-> expected, own |-> own]]
       /\ UNCHANGED <<states, results>>

\* The i-th of a set of numbers.
Ith(S, i) == CHOOSE x \in S : Cardinality({y \in S : y <= x}) = i

\* One bundle for each parent and target: the parent, forked where its children go.
Bundles(w, target, plan) ==
  LET parents == {plan[c].parent : c \in {d \in DOMAIN plan : plan[d].target = target}}
  IN [i \in 1..Cardinality(parents) |->
        LET parent == Ith(parents, i) IN
        [op |-> "import_parent_bundle",
         arg |-> [state |-> states[w][parent],
                  children |-> {c \in DOMAIN plan : plan[c].parent = parent
                                                    /\ plan[c].target = target}]]]

ResampleBalanced(w) ==
  LET plan == Payload(w, Coordinator).plan
      own == {c \in DOMAIN plan : plan[c].target = w}
      kept == Offspring(w, [c \in own |-> plan[c].parent])
  IN
  /\ Serving(w, "resample_balanced")
  /\ commands' = [v \in Workers |->
       [Took(w, Coordinator)[v] EXCEPT ![w] = IF v = w THEN @ ELSE @ \o Bundles(w, v, plan)]]
  /\ imports' = [imports EXCEPT ![w] = <<>>]
  /\ Settle(w, Adopted(w, kept), Cardinality(DOMAIN plan \ own),
            Payload(w, Coordinator).expected, Cardinality(own))

Import(w, from) ==
  LET bundle == Payload(w, from)
      children == [c \in bundle.children |-> Store!Forked(bundle.state, c)]
      waits == doing[w]
  IN
  /\ phase[w] \in {"serving", "importing"} /\ Command(w, from, "import_parent_bundle")
  /\ commands' = Took(w, from)
  /\ \/ /\ phase[w] = "serving"
        /\ imports' = [imports EXCEPT ![w] = Updated(@, children)]
        /\ UNCHANGED <<states, phase, doing, results>>
     \/ /\ phase[w] = "importing" /\ UNCHANGED imports
        /\ Settle(w, Updated(waits.next, children), waits.exported, waits.expected, waits.own)
  /\ UNCHANGED <<coordinatorVars, raises, files>>

\* One file at a time, each complete when it gets its name.
Persist(w) ==
  /\ Serving(w, "persist")
  /\ commands' = Took(w, Coordinator)
  /\ phase' = [phase EXCEPT ![w] = "persisting"]
  /\ doing' = [doing EXCEPT ![w] = [key |-> Payload(w, Coordinator), rows |-> <<>>]]
  /\ UNCHANGED <<states, imports, results>>

PersistSlot(w) ==
  LET left == DOMAIN states[w] \ DOMAIN doing[w].rows
      slot == Min(left)
      file == [state |-> states[w][slot], era |-> era]
  IN
  /\ phase[w] = "persisting" /\ left # {}
  /\ files' = [files EXCEPT ![<<doing[w].key, slot>>] = file]
  /\ doing' = [doing EXCEPT ![w].rows = Updated(@, [s \in {slot} |-> file])]
  /\ UNCHANGED <<states, phase, imports, commands, results, coordinatorVars, raises>>

Persisted(w) ==
  /\ phase[w] = "persisting" /\ DOMAIN doing[w].rows = DOMAIN states[w]
  /\ Put(w, [op |-> "persist", got |-> doing[w].rows])
  /\ doing' = [doing EXCEPT ![w] = Nothing]
  /\ phase' = [phase EXCEPT ![w] = "serving"]
  /\ UNCHANGED <<states, imports, commands, coordinatorVars, raises, files>>

\* A worker that is to read its states from files does so first.
Load(w) ==
  /\ phase[w] = "loading" /\ phase' = [phase EXCEPT ![w] = "serving"]
  /\ UNCHANGED <<states, doing, imports, commands, results, coordinatorVars, raises, files>>

Ends(w) ==
  /\ phase' = [phase EXCEPT ![w] = "ended"]
  /\ Put(w, [op |-> "error", got |-> <<>>])
  /\ UNCHANGED <<states, doing, imports, coordinatorVars, files>>

\* A callback or a file raises.  A resampling that raises has sent no child yet:
\* a worker's own children are forked first.
Raises(w) ==
  /\ raises < MaxRaises /\ raises' = raises + 1
  /\ Ends(w)
  /\ \/ phase[w] \in {"loading", "persisting"} /\ UNCHANGED commands
     \/ \E from \in Workers \cup {Coordinator} :
          /\ phase[w] \in {"serving", "importing"} /\ commands[w][from] # <<>>
          /\ Head(commands[w][from]).op \notin {"shutdown", "metrics", "snapshot"}
          /\ commands' = Took(w, from)

\* What the coordinator sends a worker that still waits for its imports ends it.
Refuses(w) ==
  /\ phase[w] = "importing" /\ commands[w][Coordinator] # <<>>
  /\ commands' = Took(w, Coordinator)
  /\ Ends(w) /\ UNCHANGED raises

Worker(w) ==
  \/ Load(w) \/ Raises(w) \/ Refuses(w)
  \/ Propagate(w) \/ Evaluate(w) \/ Resample(w) \/ ResampleBalanced(w)
  \/ Persist(w) \/ PersistSlot(w) \/ Persisted(w) \/ Shutdown(w)
  \/ \E name \in {"snapshot", "summarize", "metrics"} : Read(w, name)
  \/ \E from \in Workers : Import(w, from)

-----------------------------------------------------------------------------
\* The coordinator opens a pool with states at hand (first = "serving") or in files
\* ("loading"), and then makes one call at a time.
Open(initial, first) ==
  /\ era' = era + 1
  /\ states' = [w \in Workers |-> Restrict(initial, {s \in Slots : s % WorkerCount = w})]
  /\ assignment' = [s \in Slots |-> s % WorkerCount]
  /\ phase' = [w \in Workers |-> first]
  /\ doing' = ForAll(Nothing) /\ imports' = ForAll(<<>>) /\ results' = ForAll(<<>>)
  /\ commands' = NoCommands
  /\ content' = initial
  /\ call' = NoCall /\ answer' = Nothing /\ broken' = FALSE /\ closed' = FALSE
  /\ gone' = {}
  /\ UNCHANGED <<raises, files>>

\* Its processes go, wherever they are; the files stay.
Killed ==
  /\ phase' = ForAll("ended")
  /\ doing' = ForAll(Nothing) /\ imports' = ForAll(<<>>) /\ results' = ForAll(<<>>)
  /\ commands' = NoCommands
  /\ call' = NoCall /\ broken' = (broken \/ Calling) /\ closed' = FALSE
  /\ gone' = Workers
  /\ UNCHANGED <<states, assignment, answer, era, content, raises, files>>

Idle == ~Calling /\ era > 0 /\ ~closed

Ask(op, arg, payload) ==
  /\ Idle
  /\ call' = [op |-> op, arg |-> arg, next |-> 0, got |-> <<>>]
  /\ closed' = (op = "shutdown")
  /\ commands' = [w \in Workers |-> [commands[w] EXCEPT
       ![Coordinator] = Append(@, [op |-> op, arg |-> payload[w]])]]
  /\ UNCHANGED <<states, phase, doing, imports, results, assignment, answer, broken,
                 gone, era, content, raises, files>>

JobsOf(jobs) == [w \in Workers |-> Restrict(jobs, {j \in DOMAIN jobs : assignment[jobs[j].slot] = w})]

ChildrenOf(parents) == [w \in Workers |-> Restrict(parents, Children(w, parents))]

PlansOf(parents) == [w \in Workers |->
  [plan |-> [c \in Children(w, parents) |-> [parent |-> parents[c], target |-> Target(c, parents)]],
   expected |-> Capacity(w)]]

AskPropagate(time) == Ask("propagate", time, ForAll(time))
AskEvaluate(jobs) == Ask("evaluate_nonmutating", jobs, JobsOf(jobs))
AskResample(parents) == Ask("resample", parents, ChildrenOf(parents))
AskResampleBalanced(parents) == Ask("resample_balanced", parents, PlansOf(parents))
AskPersist(key) == Ask("persist", key, ForAll(key))
AskRead(name) == Ask(name, Nothing, ForAll(Nothing))

\* A result that is not the reply of this call raises.
Misfits == results[call.next] # <<>> /\ Head(results[call.next]).op # call.op

Moved(parents) == {c \in Slots : Target(c, parents) # assignment[parents[c]]}

\* Variant: after a balanced resampling too, the owner of its parent.
ReassignedToParents ==
  [s \in Slots |->
     IF call.op \in {"resample", "resample_balanced"} THEN assignment[call.arg[s]]
     ELSE assignment[s]]

\* The table of owners after a call.
Reassigned ==
  [s \in Slots |->
     IF call.op = "resample" THEN assignment[call.arg[s]]
     ELSE IF call.op = "resample_balanced" THEN Target(s, call.arg) ELSE assignment[s]]

\* Replies by slot or job, as one; of two for the same the later one counts.
Together(replies) ==
  [x \in UNION {DOMAIN replies[i] : i \in DOMAIN replies} |->
     replies[CHOOSE i \in DOMAIN replies :
               /\ x \in DOMAIN replies[i]
               /\ \A j \in DOMAIN replies : x \in DOMAIN replies[j] => j <= i][x]]

\* A call's replies together.
Joined(replies) ==
  IF call.op = "resample_balanced"
  THEN [migrated |-> Cardinality(Moved(call.arg)),
        exported |-> SumFunction([w \in Workers |-> replies[w + 1].exported]),
        imported |-> SumFunction([w \in Workers |-> replies[w + 1].imported])]
  ELSE Together(replies)

Returned == answer.got

\* The slots, or the jobs, that replies must tell of.
Expected ==
  IF call.op = "evaluate_nonmutating" THEN DOMAIN call.arg
  ELSE IF call.op \in {"propagate", "snapshot", "summarize", "persist"} THEN Slots ELSE {}

Receive ==
  LET w == call.next
      replies == Append(call.got, Head(results[w]).got)
  IN
  /\ Calling /\ call.op # "shutdown" /\ results[w] # <<>>
  /\ results' = [results EXCEPT ![w] = Tail(@)]
  /\ \/ /\ ~Misfits /\ w + 1 < WorkerCount
        /\ call' = [call EXCEPT !.next = @ + 1, !.got = replies]
        /\ UNCHANGED <<assignment, answer, broken, content>>
     \/ /\ ~Misfits /\ w + 1 = WorkerCount
        /\ call' = NoCall /\ assignment' = Reassigned /\ content' = Held
        /\ answer' = IF call.op \in {"metrics", "resample"} THEN answer
                   ELSE [op |-> call.op, got |-> Joined(replies)]
        /\ broken' = (broken \/ (Expected # {} /\ DOMAIN answer'.got # Expected))
     \/ /\ Misfits /\ call' = NoCall /\ broken' = TRUE
        /\ UNCHANGED <<assignment, answer, content>>
  /\ UNCHANGED <<states, phase, doing, imports, commands, closed, gone, era, raises, files>>

\* A process ends when its queues have passed on what it put in them: a large message
\* waits until it is read, and so does one put in the same queue after it.
Large(queue) == \E i \in DOMAIN queue : queue[i].op \in Oversize

Unread(w) == Large(results[w]) \/ \E v \in Workers : Large(commands[v][w])

Behind(w) == \E v, u \in Workers : commands[v][w] # <<>> /\ Large(commands[v][u])

\* close() after it has sent "shutdown" to all: it waits ten seconds for the reply of
\* a worker that is alive, and joins or terminates it whatever it gets.  A worker that
\* has just put its last result may still be alive; one with a large message unread is.
Joins ==
  LET w == call.next IN
  /\ Calling /\ call.op = "shutdown"
  /\ phase' = [phase EXCEPT ![w] = "ended"] /\ gone' = gone \cup {w}
  /\ \/ /\ Misfits => phase[w] = "ended" /\ ~Unread(w)
        /\ call' = IF w + 1 < WorkerCount THEN [call EXCEPT !.next = @ + 1] ELSE NoCall
        /\ UNCHANGED <<broken, results>>
     \/ /\ Misfits
        /\ call' = NoCall /\ broken' = TRUE
        /\ results' = [results EXCEPT ![w] = Tail(@)]
  /\ UNCHANGED <<states, doing, imports, commands, assignment, answer, closed,
                 era, content, raises, files>>

\* Before the first pool.
PoolInit ==
  /\ era = 0 /\ phase = ForAll("ended") /\ gone = Workers /\ states = ForAll(<<>>)
  /\ doing = ForAll(Nothing) /\ imports = ForAll(<<>>) /\ results = ForAll(<<>>)
  /\ commands = NoCommands
  /\ content = [s \in Slots |-> <<>>] /\ assignment = [s \in Slots |-> s % WorkerCount]
  /\ call = NoCall /\ answer = Nothing /\ broken = FALSE /\ closed = FALSE
  /\ raises = 0 /\ files = [place \in Keys \X Slots |-> Nothing]

-----------------------------------------------------------------------------
\* Whatever the workers do, in whatever order bundles and commands reach them, a
\* call that returns has done to the particles what it would do to one collection
\* of them, and has returned that (persist_states' and resample_balanced's rows
\* included); a call that only reads leaves every resident state as it was.
ImplementsParticleStore == Store!Spec

OwnersKnown ==
  ~Calling /\ ~broken /\ ~closed /\ era > 0 =>
    \A w \in Workers : phase[w] # "ended" =>
      /\ DOMAIN states[w] = {s \in Slots : assignment[s] = w}
      /\ phase[w] # "importing" /\ \A v \in Workers : commands[w][v] = <<>>

FewestMove ==
  Calling /\ call.op = "resample_balanced" =>
    LET Even(owner) == \A w \in Workers : Cardinality({c \in Slots : owner[c] = w}) = Capacity(w)
        Moves(owner) == Cardinality({c \in Slots : owner[c] # assignment[call.arg[c]]})
    IN /\ Even(Reassigned)
       /\ \A owner \in [Slots -> Workers] : Even(owner) => Moves(Reassigned) <= Moves(owner)

\* Between calls the coordinator's table of owners is what the workers hold, and none
\* of them waits for a child or is to get one: the next evaluation is sent to the
\* worker that has the state.  And a balanced resampling gives each worker its share
\* and moves no more children than any other way to do that (resample_balanced: "Only
\* the minimum number of children required to fill worker capacity deficits are
\* migrated").
LayoutKept == OwnersKnown /\ FewestMove

\* The coordinator waits for a worker that has ended and has no result left, or for
\* one whose imports an ended worker owes it: no receive but close's has a timeout.
Stranded ==
  /\ Calling /\ results[call.next] = <<>>
  /\ \/ phase[call.next] = "ended"
     \/ phase[call.next] = "importing" /\ \E v \in Workers : phase[v] = "ended"

\* Every call returns or raises, unless a worker that ended keeps it from doing so:
\* the exchange of children never deadlocks by itself.
CallsReturn == []<>(~Calling \/ Stranded)

\* What an ended worker may wait for: a reader of its last results, which a pool that
\* has raised does not read, or of the bundles in the queue of a peer that has ended.
HeldUp(w) ==
  /\ broken /\ phase[w] = "ended" /\ w \notin gone
  /\ \/ Large(results[w])
     \/ \E v, u \in Workers :
          phase[v] = "ended" /\ commands[v][w] # <<>> /\ Large(commands[v][u])

Exited(w) == w \in gone \/ (phase[w] = "ended" /\ ~Unread(w) /\ ~Behind(w))

\* Once close() has begun every process exits, those that it did not get to included:
\* it raises at a reply of an earlier call, and joins and terminates no worker after.
\* Only there, and only with a large message that nobody will read, is one left.
WorkersExit == closed ~> \A w \in Workers : Exited(w) \/ HeldUp(w)
=============================================================================
