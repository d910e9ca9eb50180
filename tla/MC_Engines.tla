------------------------------ MODULE MC_Engines ------------------------------
\* A study runs its worlds on one of the two engines; `engine` says which.  The
\* two share the state they have in common, heap being queue, and each leaves
\* the other's own state alone.  Burn-ins of three days with a scan every two,
\* so that a window is cut at zero; clocks of one and of two days that meet on
\* the same day; patrols that leave for three days.
EXTENDS SimulationRun

CONSTANTS Engines, NativeWorlds, Drivers, ParticleExecution

ASSUME NativeWorldsAssumption == \A w \in NativeWorlds : IsWorld(w)

VARIABLES engine, nextAvailable

Native == INSTANCE NativeEngine WITH heap <- queue, Worlds <- NativeWorlds

both == <<vars, engine, nextAvailable>>

BothInit ==
  \/ /\ engine = "python" /\ engine \in Engines
     /\ Init
     /\ nextAvailable = 0
  \/ /\ engine = "native" /\ engine \in Engines
     /\ Native!Init
     /\ checkpointing = TRUE /\ saved = None
     /\ recruiting = world.founded /\ insurgents = world.founded

PythonNext == engine = "python" /\ Next /\ UNCHANGED <<engine, nextAvailable>>
NativeNext ==
  engine = "native" /\ Native!Next
    /\ UNCHANGED <<engine, checkpointing, saved, recruiting, insurgents>>

BothSpec == BothInit /\ [][PythonNext \/ NativeNext]_both
                     /\ WF_both(PythonNext /\ Loop) /\ WF_both(NativeNext /\ Native!Loop)

\* Where the engines are meant to agree and do: without a burn-in, while every
\* patrol has its formation, and with the insurgency there throughout or never,
\* since the native calendar takes it from the configuration.
Compared ==
  \/ engine = "python"
  \/ /\ world.burnIn = 0 /\ world.absences = {}
     /\ world.endings = {}
     /\ world.founded \/ (world.onsets = {} /\ world.meetings = {})

\* Both engines make the trajectory that the world alone determines, however
\* callers divide it into runs, limit them or checkpoint them;
\* the native one is compared on the worlds above.
Agreed == INSTANCE RecurringClocks WITH
  Worlds <- Worlds \cup NativeWorlds,
  phase <- IF Compared \/ world.burnIn = 0 THEN Phase ELSE "burn_in",
  trace <- IF Compared THEN trace ELSE [p \in {"burn_in", "observed"} |-> <<>>]
EnginesAgree == Agreed!Spec

Answers(b, f, o, n, m, l, r, a) ==
  [burnIn |-> b, founded |-> f, onsets |-> o, endings |-> n, meetings |-> m,
   longs |-> l, transits |-> r, absences |-> a]

MCClocks == {"contact_scan", "patrol", "organization_ecology", "recruitment"}
MCInterval == [contact_scan |-> 2, patrol |-> 1, organization_ecology |-> 2,
               recruitment |-> 1, checkpoint |-> 2]

\* Insurgents from burn-in, from its last tick, from the run, or never; or there
\* from the start and gone before day zero, for good or until day two.
MCWorlds ==
  {Answers(b, FALSE, o, {}, m, {-2, 0}, {1}, {-1, 3}) :
     b \in {0, 3}, o \in {{}, {-3}, {-1, 2}}, m \in {{-3, -1, 0, 2}}}
  \cup {Answers(3, TRUE, o, {-1}, {}, {0}, {}, {0, 3, 4}) : o \in {{}, {2}}}

MCNativeWorlds ==
  {Answers(0, f, {}, {}, IF f THEN {0, 4} ELSE {}, {0, 3}, r, {}) :
     f \in BOOLEAN, r \in {{}, {3}}}
  \cup {Answers(3, TRUE, {}, {}, {-3, -1}, {-3}, {}, {})}
=============================================================================
