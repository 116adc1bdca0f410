--------------------------- MODULE HardwareProofs ---------------------------
(***************************************************************************)
(* Theorems about the plugins of Hardware, for any positions, speeds and   *)
(* width of the counters.  A plugin that is not followed stays as          *)
(* constructed, so types and the invariants of the arm and of the chassis  *)
(* hold for every device; those of the rail are about behaviors that       *)
(* follow the rail.                                                        *)
(***************************************************************************)
EXTENDS Hardware, TLAPS

(* ArmSystem: a record of all joints is what the arm has taken unless a    *)
(* moveJ failed late; while active, what was asked of a joint is in the    *)
(* command buffer.                                                         *)
ArmInv ==
    /\ armCmd \in Arm!Vectors /\ at \in Arm!Vectors
    /\ armPrev \in [Arm!Joints -> Angles \cup {Arm!None}]
    /\ armPrev \in Arm!Vectors /\ ~late => target = armPrev
    /\ device = "arm" /\ state = "active" =>
         \A j \in Arm!Joints : wanted[j] # Arm!None => armCmd[j] = wanted[j]

(* DaisHardware: with a fault latched the drive has been told 0, and a     *)
(* drive that is on without an active component has been left on.          *)
DaisInv ==
    device = "dais" =>
        /\ fault => drive = 0
        /\ enabled => state = "active" \/ leftOn

-----------------------------------------------------------------------------
(* The arm. *)

LEMMA ArmFacts ==
    /\ Zero \in Angles /\ Arm!None \notin Angles
    /\ 1 \in Arm!Joints /\ \A j \in Arm!Joints : j \in Int
    /\ Arm!Nothing \in [Arm!Joints -> {Arm!None}]
<1> QED
  BY HardwareAssumption DEF Arm!Joints, Arm!None, Arm!Nothing

LEMMA ArmInitially == Init => ArmInv
<1> SUFFICES ASSUME Init PROVE ArmInv
  OBVIOUS
<1>1. /\ armCmd = [j \in Arm!Joints |-> Zero] /\ at \in Arm!Vectors
      /\ armPrev = Arm!Nothing /\ state = "unconfigured"
  BY DEF Init, Arm!ArmInit
<1>2. armPrev[1] \notin Angles
  BY <1>1, ArmFacts
<1>3. armPrev \notin Arm!Vectors
  BY <1>2, ArmFacts DEF Arm!Vectors
<1> QED
  BY <1>1, <1>3, ArmFacts DEF ArmInv, Arm!Vectors

(* A buffer of which the first joints are replaced. *)
LEMMA WithTyped ==
    ASSUME NEW n \in Int, NEW S, NEW a \in [Arm!Joints -> S], NEW b \in [Arm!Joints -> S]
    PROVE  Arm!With(n, a, b) \in [Arm!Joints -> S]
<1> QED
  BY ArmFacts DEF Arm!With

LEMMA WithEach ==
    ASSUME NEW n, NEW a, NEW b, NEW j \in Arm!Joints
    PROVE  Arm!With(n, a, b)[j] = IF j <= n THEN a[j] ELSE b[j]
<1> QED
  BY DEF Arm!With

(* A record that loses some joints is not one of all joints, and one that  *)
(* loses none is the one from before.                                      *)
LEMMA Cleared ==
    ASSUME NEW n \in Int, NEW b \in [Arm!Joints -> Angles \cup {Arm!None}],
           Arm!With(n, Arm!Nothing, b) \in Arm!Vectors
    PROVE  Arm!With(n, Arm!Nothing, b) = b
<1> DEFINE w == Arm!With(n, Arm!Nothing, b)
<1>1. /\ w \in [Arm!Joints -> Angles \cup {Arm!None}]
      /\ \A j \in Arm!Joints : w[j] = IF j <= n THEN Arm!Nothing[j] ELSE b[j]
  <2>1. w \in [Arm!Joints -> Angles \cup {Arm!None}]
    BY ArmFacts DEF Arm!With
  <2> QED
    BY <2>1, WithEach
<1>2. ASSUME NEW j \in Arm!Joints PROVE w[j] = b[j]
  <2>1. w[j] \in Angles
    BY DEF Arm!Vectors
  <2>2. ~(j <= n)
    BY <1>1, <2>1, ArmFacts
  <2> QED
    BY <1>1, <2>2
<1> QED
  BY <1>1, <1>2

LEMMA ArmActivateKeeps ==
    ASSUME ArmInv, device = "arm", device' = device, Arm!ArmActivate
    PROVE  ArmInv'
<1>1. CASE UNCHANGED <<at, armCmd, armPrev, target, Arm!history>> /\ state' # "active"
  BY <1>1 DEF ArmInv, Arm!history
<1>2. ASSUME NEW n \in 0..Dof,
             /\ armCmd' = Arm!With(n, at, armCmd)
             /\ armPrev' = Arm!With(n, Arm!Nothing, armPrev)
             /\ wanted' = Arm!With(n, at, Arm!Nothing)
             /\ UNCHANGED <<at, target, late>>
      PROVE  ArmInv'
  <2>0. n \in Int
    BY HardwareAssumption
  <2>1. armCmd' \in Arm!Vectors /\ at' \in Arm!Vectors
    BY <1>2, <2>0, WithTyped DEF ArmInv, Arm!Vectors
  <2>2. armPrev' \in [Arm!Joints -> Angles \cup {Arm!None}]
    BY <1>2, <2>0, WithTyped, ArmFacts DEF ArmInv
  <2>3. ASSUME armPrev' \in Arm!Vectors, ~late'
        PROVE  target' = armPrev'
    <3>1. armPrev' = armPrev
      BY <1>2, <2>0, <2>3, Cleared DEF ArmInv
    <3> QED
      BY <1>2, <2>3, <3>1 DEF ArmInv
  <2>4. ASSUME NEW j \in Arm!Joints, wanted'[j] # Arm!None
        PROVE  armCmd'[j] = wanted'[j]
    <3>1. /\ wanted'[j] = IF j <= n THEN at[j] ELSE Arm!Nothing[j]
          /\ armCmd'[j] = IF j <= n THEN at[j] ELSE armCmd[j]
      BY <1>2, WithEach
    <3> QED
      BY <2>4, <3>1, ArmFacts
  <2> QED
    BY <2>1, <2>2, <2>3, <2>4 DEF ArmInv, Arm!Vectors, Arm!Joints, Arm!None
<1> QED
  BY <1>1, <1>2 DEF Arm!ArmActivate, Arm!Activates, Arm!Throws

LEMMA ArmTransitions ==
    ASSUME ArmInv, device = "arm", device' = device,
           Arm!ArmConfigure \/ Arm!ArmActivate \/ Arm!ArmDeactivate
    PROVE  ArmInv'
<1>1. CASE Arm!ArmConfigure
  BY <1>1 DEF ArmInv, Arm!ArmConfigure, Arm!Configures, Arm!history
<1>2. CASE Arm!ArmActivate
  BY <1>2, ArmActivateKeeps
<1>3. CASE Arm!ArmDeactivate
  BY <1>3
  DEF ArmInv, Arm!ArmDeactivate, Arm!Deactivates, Arm!CleansUp, Arm!Ends, Arm!ShutsDown, Arm!Dies
<1> QED
  BY <1>1, <1>2, <1>3

LEMMA ArmCommandKeeps ==
    ASSUME ArmInv, device = "arm", device' = device,
           NEW joints \in SUBSET Arm!Joints, NEW c \in Arm!Vectors, Arm!ArmCommand(joints, c)
    PROVE  ArmInv'
<1>1. /\ armCmd' = [j \in Arm!Joints |-> IF j \in joints THEN c[j] ELSE armCmd[j]]
      /\ wanted' = [j \in Arm!Joints |-> IF j \in joints THEN c[j] ELSE wanted[j]]
      /\ UNCHANGED <<state, at, armPrev, target, late>> /\ state = "active"
  BY DEF Arm!ArmCommand
<1>2. armCmd' \in Arm!Vectors
  BY <1>1 DEF ArmInv, Arm!Vectors
<1>3. \A j \in Arm!Joints : wanted'[j] # Arm!None => armCmd'[j] = wanted'[j]
  BY <1>1 DEF ArmInv
<1> QED
  BY <1>1, <1>2, <1>3 DEF ArmInv, Arm!None, Arm!Vectors, Arm!Joints

LEMMA ArmCycle ==
    ASSUME ArmInv, device = "arm", device' = device,
           \/ Arm!ArmRead \/ Arm!ArmWrite \/ Arm!ArmMoves \/ Arm!ArmLinkChanges
           \/ \E joints \in SUBSET Arm!Joints, c \in Arm!Vectors : Arm!ArmCommand(joints, c)
    PROVE  ArmInv'
<1>1. CASE Arm!ArmRead
  BY <1>1 DEF ArmInv, Arm!ArmRead, Arm!Cycling, Arm!history
<1>2. CASE Arm!ArmWrite
  BY <1>2 DEF ArmInv, Arm!ArmWrite, Arm!Cycling, Arm!Vectors
<1>3. CASE Arm!ArmMoves
  BY <1>3 DEF ArmInv, Arm!ArmMoves, Arm!history
<1>4. CASE Arm!ArmLinkChanges
  BY <1>4 DEF ArmInv, Arm!ArmLinkChanges, Arm!history
<1> QED
  BY <1>1, <1>2, <1>3, <1>4, ArmCommandKeeps

LEMMA OthersKeepArm ==
    ASSUME ArmInv, DaisStep \/ M65Step
    PROVE  ArmInv'
<1> QED
  BY DEF ArmInv, DaisStep, M65Step, armOwn

LEMMA ArmInductive ==
    ASSUME ArmInv, [Next]_vars
    PROVE  ArmInv'
<1>1. CASE ArmStep
  BY <1>1, ArmTransitions, ArmCycle DEF ArmStep, Arm!ArmNext
<1>2. CASE DaisStep \/ M65Step
  BY <1>2, OthersKeepArm
<1>3. CASE UNCHANGED vars
  BY <1>3 DEF ArmInv, vars, armOwn
<1> QED
  BY <1>1, <1>2, <1>3 DEF Next

LEMMA ArmInvariant == Spec => []ArmInv
<1> QED
  BY ArmInitially, ArmInductive, PTL DEF Spec

(* write() of the arm skips a command only if the arm has it, unless a     *)
(* moveJ failed after the arm had taken its target.                        *)
THEOREM SentAlwaysTaken == Spec => []SentIsTaken
<1>1. ArmInv => SentIsTaken
  BY DEF ArmInv, SentIsTaken, Arm!SentIsTaken
<1> QED
  BY <1>1, ArmInvariant, PTL
-----------------------------------------------------------------------------
(* What an active arm is sent. *)

LEMMA OnlyWriteSends ==
    ASSUME Next, Arm!Sends
    PROVE  device = "arm" /\ state = "active" /\ target' = armCmd
<1>1. state = "active" /\ <<target, armPrev, late>>' # <<target, armPrev, late>>
  BY DEF Arm!Sends
<1>2. CASE ArmStep
  <2>1. CASE Arm!ArmConfigure \/ Arm!ArmActivate \/ Arm!ArmDeactivate
    BY <1>1, <2>1
    DEF Arm!ArmConfigure, Arm!ArmActivate, Arm!ArmDeactivate, Arm!Configures, Arm!Activates
  <2>2. CASE Arm!ArmRead \/ Arm!ArmMoves \/ Arm!ArmLinkChanges
    BY <1>1, <2>2 DEF Arm!ArmRead, Arm!ArmMoves, Arm!ArmLinkChanges, Arm!history
  <2>3. ASSUME NEW joints \in SUBSET Arm!Joints, NEW c \in Arm!Vectors,
               Arm!ArmCommand(joints, c)
        PROVE  FALSE
    BY <1>1, <2>3 DEF Arm!ArmCommand
  <2>4. CASE Arm!ArmWrite
    BY <1>1, <1>2, <2>4 DEF Arm!ArmWrite, ArmStep
  <2> QED
    BY <1>2, <2>1, <2>2, <2>3, <2>4 DEF ArmStep, Arm!ArmNext
<1>3. CASE DaisStep \/ M65Step
  BY <1>1, <1>3 DEF DaisStep, M65Step, armOwn
<1> QED
  BY <1>1, <1>2, <1>3 DEF Next

(* Whatever an active arm is sent is, joint by joint, what was last asked  *)
(* in this activation, wherever anything was asked: no command of an       *)
(* earlier activation comes in, also after failed writes and activations   *)
(* in which the arm answered for some joints only.                         *)
THEOREM NothingOldEverSent == Spec => NothingOldSent
<1> DEFINE AsAsked == Arm!Sends => \A j \in Arm!Joints :
                                     wanted[j] # Arm!None => target'[j] = wanted[j]
<1>1. ArmInv /\ [Next]_vars => [AsAsked]_(Arm!armVars)
  <2> SUFFICES ASSUME ArmInv, [Next]_vars, Arm!Sends
               PROVE  \A j \in Arm!Joints : wanted[j] # Arm!None => target'[j] = wanted[j]
    OBVIOUS
  <2>1. Next
    BY DEF vars, armOwn, Arm!Sends
  <2> QED
    BY <2>1, OnlyWriteSends DEF ArmInv
<1> HIDE DEF AsAsked
<1>2. Spec => [][AsAsked]_(Arm!armVars)
  BY <1>1, ArmInvariant, PTL DEF Spec
<1> QED
  BY <1>2 DEF NothingOldSent, Arm!NothingOldSent, AsAsked
-----------------------------------------------------------------------------
(* The rail. *)

LEMMA DaisInitially == Init => DaisInv
<1> QED
  BY DEF Init, Dais!DaisInit, DaisInv

LEMMA DaisTransitions ==
    ASSUME DaisInv, device = "dais", device' = device,
           \/ Dais!DaisConfigure \/ Dais!DaisActivate
           \/ Dais!DaisDeactivate \/ Dais!DaisCleanUp \/ Dais!DaisEnds
    PROVE  DaisInv'
<1>1. CASE Dais!DaisConfigure
  BY <1>1 DEF DaisInv, Dais!DaisConfigure, Dais!Configures
<1>2. CASE Dais!DaisActivate
  BY <1>2 DEF DaisInv, Dais!DaisActivate, Dais!Activates
<1>3. CASE Dais!DaisDeactivate
  BY <1>3 DEF DaisInv, Dais!DaisDeactivate, Dais!Deactivates
<1>4. CASE Dais!DaisCleanUp
  BY <1>4 DEF DaisInv, Dais!DaisCleanUp, Dais!CleansUp
<1>5. CASE Dais!DaisEnds
  BY <1>5 DEF DaisInv, Dais!DaisEnds, Dais!Ends, Dais!ShutsDown, Dais!Dies
<1> QED
  BY <1>1, <1>2, <1>3, <1>4, <1>5

LEMMA DaisCycle ==
    ASSUME DaisInv, device = "dais", device' = device,
           \/ Dais!DaisRead \/ Dais!DaisWrite \/ Dais!DriveFaults \/ Dais!LineChanges
           \/ \E v \in Speeds \cup {0} : Dais!DaisCommand(v)
    PROVE  DaisInv'
<1>1. CASE Dais!DaisRead
  BY <1>1 DEF DaisInv, Dais!DaisRead, Dais!Cycling
<1>2. CASE Dais!DaisWrite
  BY <1>2 DEF DaisInv, Dais!DaisWrite, Dais!Cycling
<1>3. CASE Dais!DriveFaults
  BY <1>3 DEF DaisInv, Dais!DriveFaults
<1>4. CASE Dais!LineChanges
  BY <1>4 DEF DaisInv, Dais!LineChanges
<1>5. ASSUME NEW v \in Speeds \cup {0}, Dais!DaisCommand(v)
      PROVE  DaisInv'
  BY <1>5 DEF DaisInv, Dais!DaisCommand
<1> QED
  BY <1>1, <1>2, <1>3, <1>4, <1>5

LEMMA DaisInductive ==
    ASSUME DaisInv, [Next]_vars
    PROVE  DaisInv'
<1>1. CASE DaisStep
  BY <1>1, DaisTransitions, DaisCycle DEF DaisStep, Dais!DaisNext
<1>2. CASE ArmStep
  BY <1>2 DEF DaisInv, ArmStep
<1>3. CASE M65Step
  BY <1>3 DEF DaisInv, M65Step
<1>4. CASE UNCHANGED vars
  BY <1>4 DEF DaisInv, vars, daisOwn
<1> QED
  BY <1>1, <1>2, <1>3, <1>4 DEF Next

(* The rail does not move with a fault latched, nor without an active      *)
(* component unless the order to stop was lost with the line, was never    *)
(* given (shutdown, end of the process) or a failed enable() took effect.  *)
THEOREM RailAlwaysStill == Spec => []RailStill
<1>1. DaisInv => RailStill
  BY DEF DaisInv, RailStill, Dais!RailStill, Dais!Moving
<1> QED
  BY <1>1, DaisInitially, DaisInductive, PTL DEF Spec
-----------------------------------------------------------------------------
(* Types, whichever plugin is followed. *)

ArmTypes ==
    /\ armLink \in {"none", "up", "down"}
    /\ at \in Arm!Vectors /\ armPosition \in Arm!Vectors /\ armCmd \in Arm!Vectors
    /\ armPrev \in [Arm!Joints -> Angles \cup {Arm!None}]
    /\ target \in Arm!Vectors \cup {Arm!Nothing}
    /\ wanted \in [Arm!Joints -> Angles \cup {Arm!None}] /\ late \in BOOLEAN

DaisTypes ==
    /\ line \in {"none", "up", "down", "closed"}
    /\ railCmd \in Speeds \cup {0} /\ drive \in Speeds \cup {0}
    /\ railVelocity \in Speeds \cup {0}
    /\ enabled \in BOOLEAN /\ fault \in BOOLEAN
    /\ leftOn \in BOOLEAN

Counters == -HalfRange..(HalfRange - 1)
SinceType == [read : BOOLEAN, from : Int, distance : Int]

M65Types ==
    /\ base \in {"none", "up", "down", "closed"}
    /\ first \in BOOLEAN
    /\ counter \in Counters /\ prevCounter \in Counters
    /\ wheelPosition \in Int /\ wheelVelocity \in Int
    /\ wheelCmd \in WheelCmds \cup {M65!Stop} /\ told \in Int \X Int
    /\ rolls \in 0..MaxRoll /\ rolled \in Int
    /\ since \in SinceType

AllTypes ==
    /\ device \in Devices
    /\ state \in Arm!LifecycleStates
    /\ ArmTypes /\ DaisTypes /\ M65Types

LEMMA SameStates ==
    /\ Dais!LifecycleStates = Arm!LifecycleStates
    /\ M65!LifecycleStates = Arm!LifecycleStates
    /\ Arm!LifecycleStates = {"unconfigured", "inactive", "active", "finalized", "dead"}
<1> QED
  BY DEF Arm!LifecycleStates, Dais!LifecycleStates, M65!LifecycleStates

LEMMA TypesInitially == Init => AllTypes
<1> SUFFICES ASSUME Init PROVE AllTypes
  OBVIOUS
<1>1. ArmTypes /\ state \in Arm!LifecycleStates
  BY ArmFacts, SameStates DEF Init, Arm!ArmInit, ArmTypes, Arm!Vectors
<1>2. DaisTypes
  BY DEF Init, Dais!DaisInit, DaisTypes
<1>3. M65Types
  <2>1. {-HalfRange, 0, HalfRange - 1} \subseteq Counters /\ 0 \in Counters
        /\ 0 \in 0..MaxRoll
    BY HardwareAssumption DEF Counters
  <2>2. M65!Stop \in Int \X Int /\ M65!NotRead \in SinceType
    BY DEF M65!Stop, M65!NotRead, SinceType
  <2> QED
    BY <2>1, <2>2 DEF Init, M65!M65Init, M65Types
<1> QED
  BY <1>1, <1>2, <1>3 DEF Init, AllTypes

LEMMA ArmBuffersKept ==
    ASSUME ArmTypes, Arm!ArmActivate
    PROVE  ArmTypes'
<1>1. CASE UNCHANGED armOwn
  BY <1>1 DEF ArmTypes, armOwn
<1>2. ASSUME NEW n \in 0..Dof,
             /\ armPosition' = Arm!With(n, at, armPosition)
             /\ armCmd' = Arm!With(n, at, armCmd)
             /\ armPrev' = Arm!With(n, Arm!Nothing, armPrev)
             /\ wanted' = Arm!With(n, at, Arm!Nothing)
             /\ UNCHANGED <<armLink, at, target, late>>
      PROVE  ArmTypes'
  <2>1. n \in Int /\ Arm!Nothing \in [Arm!Joints -> Angles \cup {Arm!None}]
        /\ at \in [Arm!Joints -> Angles \cup {Arm!None}]
    BY HardwareAssumption, ArmFacts DEF ArmTypes, Arm!Vectors
  <2>2. armPosition' \in Arm!Vectors /\ armCmd' \in Arm!Vectors
    BY <1>2, <2>1, WithTyped DEF ArmTypes, Arm!Vectors
  <2>3. /\ armPrev' \in [Arm!Joints -> Angles \cup {Arm!None}]
        /\ wanted' \in [Arm!Joints -> Angles \cup {Arm!None}]
    BY <1>2, <2>1, WithTyped DEF ArmTypes
  <2> QED
    BY <1>2, <2>2, <2>3 DEF ArmTypes
<1> QED
  BY <1>1, <1>2 DEF Arm!ArmActivate, armOwn, Arm!history

LEMMA ArmTypesKept ==
    ASSUME ArmTypes, state \in Arm!LifecycleStates, Arm!ArmNext
    PROVE  ArmTypes' /\ state' \in Arm!LifecycleStates
<1> USE SameStates
<1>1. CASE Arm!ArmConfigure
  BY <1>1 DEF ArmTypes, Arm!ArmConfigure, Arm!Configures, Arm!history
<1>2. CASE Arm!ArmActivate
  <2>1. state' \in Arm!LifecycleStates
    BY <1>2 DEF Arm!ArmActivate, Arm!Activates, Arm!Throws
  <2> QED
    BY <1>2, <2>1, ArmBuffersKept
<1>3. CASE Arm!ArmDeactivate
  BY <1>3, ArmFacts
  DEF ArmTypes, Arm!ArmDeactivate, Arm!Deactivates, Arm!CleansUp, Arm!Ends, Arm!ShutsDown, Arm!Dies
<1>4. CASE Arm!ArmRead
  <2>1. PICK n \in 0..Dof : armPosition' = Arm!With(n, at, armPosition)
    BY <1>4 DEF Arm!ArmRead
  <2>2. armPosition' \in Arm!Vectors
    <3>1. n \in Int
      BY HardwareAssumption
    <3> QED
      BY <2>1, <3>1, WithTyped DEF ArmTypes, Arm!Vectors
  <2> QED
    BY <1>4, <2>2 DEF ArmTypes, Arm!ArmRead, Arm!Cycling, Arm!history
<1>5. CASE Arm!ArmWrite
  BY <1>5 DEF ArmTypes, Arm!ArmWrite, Arm!Cycling, Arm!Vectors
<1>6. CASE Arm!ArmMoves
  BY <1>6 DEF ArmTypes, Arm!ArmMoves, Arm!history
<1>7. CASE Arm!ArmLinkChanges
  BY <1>7 DEF ArmTypes, Arm!ArmLinkChanges, Arm!history
<1>8. ASSUME NEW joints \in SUBSET Arm!Joints, NEW c \in Arm!Vectors,
             Arm!ArmCommand(joints, c)
      PROVE  ArmTypes' /\ state' \in Arm!LifecycleStates
  BY <1>8 DEF ArmTypes, Arm!ArmCommand, Arm!Vectors
<1> QED
  BY <1>1, <1>2, <1>3, <1>4, <1>5, <1>6, <1>7, <1>8 DEF Arm!ArmNext

LEMMA DaisTypesKept ==
    ASSUME DaisTypes, state \in Arm!LifecycleStates, Dais!DaisNext
    PROVE  DaisTypes' /\ state' \in Arm!LifecycleStates
<1> USE SameStates
<1>1. CASE Dais!DaisConfigure
  BY <1>1 DEF DaisTypes, Dais!DaisConfigure, Dais!Configures
<1>2. CASE Dais!DaisActivate
  BY <1>2 DEF DaisTypes, Dais!DaisActivate, Dais!Activates
<1>3. CASE Dais!DaisDeactivate
  BY <1>3 DEF DaisTypes, Dais!DaisDeactivate, Dais!Deactivates
<1>4. CASE Dais!DaisCleanUp
  BY <1>4 DEF DaisTypes, Dais!DaisCleanUp, Dais!CleansUp
<1>5. CASE Dais!DaisRead
  BY <1>5 DEF DaisTypes, Dais!DaisRead, Dais!Cycling
<1>6. CASE Dais!DaisWrite
  BY <1>6 DEF DaisTypes, Dais!DaisWrite, Dais!Cycling
<1>7. CASE Dais!DriveFaults
  BY <1>7 DEF DaisTypes, Dais!DriveFaults
<1>8. CASE Dais!LineChanges
  BY <1>8 DEF DaisTypes, Dais!LineChanges
<1>9. ASSUME NEW v \in Speeds \cup {0}, Dais!DaisCommand(v)
      PROVE  DaisTypes' /\ state' \in Arm!LifecycleStates
  BY <1>9 DEF DaisTypes, Dais!DaisCommand
<1>10. CASE Dais!DaisEnds
  BY <1>10 DEF DaisTypes, Dais!DaisEnds, Dais!Ends, Dais!ShutsDown, Dais!Dies
<1> QED
  BY <1>1, <1>2, <1>3, <1>4, <1>5, <1>6, <1>7, <1>8, <1>9, <1>10 DEF Dais!DaisNext

-----------------------------------------------------------------------------
(* The counters of the wheels. *)

Turn == 2 * HalfRange

(* Equal up to whole turns of the counter. *)
Equals(a, b) == \E k \in Int : a - b = k * Turn

LEMMA TurnPositive == HalfRange \in Nat \ {0} /\ Turn \in Nat \ {0}
<1> QED
  BY HardwareAssumption DEF Turn

LEMMA DivMod ==
    ASSUME NEW m \in Nat \ {0}, NEW n \in Int
    PROVE  n = m * (n \div m) + (n % m) /\ n \div m \in Int /\ n % m \in 0..(m - 1)
<1> QED
  OBVIOUS

LEMMA MultipleMod ==
    ASSUME NEW m \in Nat \ {0}, NEW k \in Int
    PROVE  (k * m) % m = 0
<1> QED
  OBVIOUS

LEMMA WrapFacts ==
    ASSUME NEW n \in Int
    PROVE  M65!Wrap(n) \in Counters /\ Equals(M65!Wrap(n), n)
<1>1. PICK h \in Nat \ {0}, m \in Nat \ {0} : h = HalfRange /\ m = Turn /\ m = 2 * h
  BY TurnPositive DEF Turn
<1>2. n + h \in Int
  BY <1>1
<1>3. PICK q \in Int, x \in 0..(m - 1) : n + h = m * q + x /\ (n + h) % m = x
  BY <1>2, DivMod
<1>4. M65!Wrap(n) = x - h
  BY <1>1, <1>3 DEF M65!Wrap
<1>5. x - h \in -h..(h - 1)
  BY <1>1, <1>3
<1>6. (x - h) - n = (-q) * m /\ -q \in Int
  BY <1>3
<1> QED
  BY <1>1, <1>4, <1>5, <1>6 DEF Counters, Equals

LEMMA EqualsSum ==
    ASSUME NEW a \in Int, NEW b \in Int, NEW c \in Int, NEW d \in Int,
           Equals(a, b), Equals(c, d)
    PROVE  Equals(a + c, b + d)
<1>1. PICK k \in Int, l \in Int : a - b = k * Turn /\ c - d = l * Turn
  BY DEF Equals
<1>2. Turn \in Int
  BY TurnPositive
<1>3. (k + l) * Turn = k * Turn + l * Turn /\ k + l \in Int
  BY <1>2
<1>4. (a + c) - (b + d) = (k + l) * Turn
  <2>1. (a + c) - (b + d) = (a - b) + (c - d)
    OBVIOUS
  <2> QED
    BY <1>1, <1>3, <2>1
<1> QED
  BY <1>3, <1>4 DEF Equals

LEMMA EqualsSelf ==
    ASSUME NEW a \in Int
    PROVE  Equals(a, a)
<1>1. Turn \in Int /\ 0 \in Int
  BY TurnPositive
<1>2. a - a = 0 * Turn
  BY <1>1
<1> QED
  BY <1>1, <1>2 DEF Equals

LEMMA EqualsMod ==
    ASSUME NEW a \in Int, NEW b \in Int, Equals(a, b)
    PROVE  (a - b) % Turn = 0
<1>1. PICK k \in Int : a - b = k * Turn
  BY DEF Equals
<1> QED
  BY <1>1, TurnPositive, MultipleMod

(* Since the first read of an activation: what the counter has gained over *)
(* the one that was read last is what the wheel has rolled since, and what *)
(* the position has gained is what it rolled before that.                  *)
Counted ==
    /\ first # since.read
    /\ since.read =>
         /\ Equals(counter, prevCounter + rolled)
         /\ Equals(wheelPosition, since.from + since.distance)

LEMMA CountedInitially == Init => Counted
<1> QED
  BY DEF Init, M65!M65Init, M65!NotRead, Counted

LEMMA SinceParts ==
    ASSUME M65Types
    PROVE  since.read \in BOOLEAN /\ since.from \in Int /\ since.distance \in Int
<1> QED
  BY DEF M65Types, SinceType

LEMMA CountersAreInt == Counters \subseteq Int
<1> QED
  BY HardwareAssumption DEF Counters

LEMMA M65KeepsEncoder ==
    ASSUME M65Types, Counted,
           UNCHANGED <<first, counter, prevCounter, wheelPosition, wheelVelocity,
                       rolls, rolled, since>>,
           base' \in {"none", "up", "down", "closed"},
           wheelCmd' \in WheelCmds \cup {M65!Stop}, told' \in Int \X Int
    PROVE  M65Types' /\ Counted'
<1>1. M65Types'
  BY DEF M65Types, M65!Stop, Counters, SinceType
<1>2. Counted'
  BY DEF Counted, Equals, Turn
<1> QED
  BY <1>1, <1>2

LEMMA M65ActivateKeeps ==
    ASSUME M65Types, Counted, M65!M65Activate
    PROVE  M65Types' /\ Counted'
<1>1. CASE M65!Activates("ERROR") /\ UNCHANGED <<base, wheelCmd, told, M65!encoderVars>>
  BY <1>1, M65KeepsEncoder DEF M65Types, M65!encoderVars
<1>2. CASE /\ first' = TRUE /\ since' = M65!NotRead
           /\ UNCHANGED <<base, wheelCmd, told, counter, prevCounter, wheelPosition,
                          wheelVelocity, rolls, rolled>>
  <2>1. M65!NotRead \in SinceType /\ M65!NotRead.read = FALSE
    BY DEF M65!NotRead, SinceType
  <2>2. M65Types'
    BY <1>2, <2>1 DEF M65Types, M65!Stop, Counters, SinceType
  <2>3. Counted'
    BY <1>2, <2>1 DEF Counted
  <2> QED
    BY <2>2, <2>3
<1> QED
  BY <1>1, <1>2 DEF M65!M65Activate

LEMMA M65SeedKeeps ==
    ASSUME M65Types, Counted, M65!M65Seed
    PROVE  M65Types' /\ Counted'
<1>1. /\ ~since.read /\ counter \in Int /\ counter \in Counters /\ wheelPosition \in Int
  BY CountersAreInt DEF M65!M65Seed, Counted, M65Types
<1>2. /\ first' = FALSE /\ prevCounter' = counter /\ rolled' = 0 /\ wheelVelocity' = 0
      /\ since' = [read |-> TRUE, from |-> wheelPosition, distance |-> 0]
      /\ UNCHANGED <<base, wheelCmd, told, counter, wheelPosition, rolls>>
  BY <1>1 DEF M65!M65Seed, M65!Follow
<1>3. /\ since' \in SinceType /\ since'.read = TRUE
      /\ since'.from = wheelPosition /\ since'.distance = 0
  BY <1>1, <1>2 DEF SinceType
<1>4. M65Types'
  BY <1>1, <1>2, <1>3 DEF M65Types, M65!Stop, Counters, SinceType
<1>5. counter + 0 = counter /\ wheelPosition + 0 = wheelPosition
  BY <1>1
<1>6. /\ Equals(counter, prevCounter' + rolled')
      /\ Equals(wheelPosition, since'.from + since'.distance)
  BY <1>1, <1>2, <1>3, <1>5, EqualsSelf
<1>7. /\ Equals(counter', prevCounter' + rolled')
      /\ Equals(wheelPosition', since'.from + since'.distance)
  BY <1>2, <1>6
<1> QED
  BY <1>2, <1>3, <1>4, <1>7 DEF Counted, Equals, Turn

(* The difference of two counters is what was rolled between them. *)
LEMMA DeltaCounts ==
    ASSUME M65Types, Counted, since.read, NEW d \in M65!Delta
    PROVE  d \in Int /\ Equals(d, rolled)
<1>1. /\ counter \in Int /\ prevCounter \in Int /\ rolled \in Int
      /\ counter - prevCounter \in Int /\ -prevCounter \in Int
  BY CountersAreInt DEF M65Types
<1>2. Equals(counter - prevCounter, rolled)
  <2>1. Equals(counter + (-prevCounter), (prevCounter + rolled) + (-prevCounter))
    <3>1. Equals(counter, prevCounter + rolled) /\ prevCounter + rolled \in Int
      BY <1>1 DEF Counted
    <3>2. Equals(-prevCounter, -prevCounter)
      BY <1>1, EqualsSelf
    <3> QED
      BY <1>1, <3>1, <3>2, EqualsSum
  <2>2. /\ counter + (-prevCounter) = counter - prevCounter
        /\ (prevCounter + rolled) + (-prevCounter) = rolled
    BY <1>1
  <2> QED
    BY <2>1, <2>2
<1>3. CASE d = counter - prevCounter
  BY <1>1, <1>2, <1>3
<1>4. CASE d = M65!Wrap(counter - prevCounter)
  <2>1. d \in Int /\ Equals(d, counter - prevCounter)
    BY <1>1, <1>4, WrapFacts, CountersAreInt
  <2>2. PICK k \in Int, l \in Int :
          d - (counter - prevCounter) = k * Turn /\ (counter - prevCounter) - rolled = l * Turn
    BY <1>2, <2>1 DEF Equals
  <2>3. Turn \in Int
    BY TurnPositive
  <2>4. k * Turn \in Int /\ l * Turn \in Int /\ (k + l) * Turn = k * Turn + l * Turn
    BY <2>3
  <2>5. d - rolled = (k + l) * Turn
    BY <1>1, <2>1, <2>2, <2>4
  <2> QED
    BY <2>1, <2>5 DEF Equals
<1> QED
  BY <1>3, <1>4 DEF M65!Delta

LEMMA M65ReadKeeps ==
    ASSUME M65Types, Counted, NEW long \in BOOLEAN, M65!M65Read(long)
    PROVE  M65Types' /\ Counted'
<1>1. since.read = TRUE /\ ~first
  <2>1. ~first /\ first \in BOOLEAN /\ since.read \in BOOLEAN
    BY SinceParts DEF M65!M65Read, M65Types
  <2>2. first # since.read
    BY DEF Counted
  <2> QED
    BY <2>1, <2>2, Zenon
<1>2. PICK d \in M65!Delta :
        wheelPosition' = wheelPosition + d
        /\ wheelVelocity' = IF long THEN d ELSE wheelVelocity
  BY DEF M65!M65Read
<1>3. d \in Int /\ Equals(d, rolled)
  BY <1>1, DeltaCounts
<1>4. /\ prevCounter' = counter /\ rolled' = 0
      /\ since' = [read |-> TRUE, from |-> since.from, distance |-> since.distance + rolled]
      /\ UNCHANGED <<base, wheelCmd, told, first, counter, rolls>>
  BY <1>1 DEF M65!M65Read, M65!Follow
<1>5. /\ counter \in Int /\ wheelPosition \in Int /\ rolled \in Int
      /\ since.from \in Int /\ since.distance \in Int
  BY CountersAreInt, SinceParts DEF M65Types
<1>6. /\ since' \in SinceType /\ since'.read = TRUE
      /\ since'.from = since.from /\ since'.distance = since.distance + rolled
  BY <1>4, <1>5 DEF SinceType
<1>7. M65Types'
  BY <1>2, <1>3, <1>4, <1>5, <1>6 DEF M65Types, M65!Stop, Counters, SinceType
<1>8. Equals(counter', prevCounter' + rolled')
  <2>1. counter' = counter /\ prevCounter' + rolled' = counter
    BY <1>4, <1>5
  <2> QED
    BY <1>5, <2>1, EqualsSelf
<1>9. Equals(wheelPosition', since'.from + since'.distance)
  <2>1. Equals(wheelPosition + d, (since.from + since.distance) + rolled)
    <3>1. Equals(wheelPosition, since.from + since.distance)
          /\ since.from + since.distance \in Int
      BY <1>1, <1>5 DEF Counted
    <3> QED
      BY <1>3, <1>5, <3>1, EqualsSum
  <2>2. (since.from + since.distance) + rolled = since.from + (since.distance + rolled)
    BY <1>5
  <2> QED
    BY <1>2, <1>6, <2>1, <2>2
<1> QED
  BY <1>1, <1>4, <1>6, <1>7, <1>8, <1>9 DEF Counted, Equals, Turn

LEMMA WheelRollsKeeps ==
    ASSUME M65Types, Counted, NEW d \in Rolls, M65!WheelRolls(d)
    PROVE  M65Types' /\ Counted'
<1>1. /\ d \in Int /\ counter \in Int /\ prevCounter \in Int /\ rolled \in Int
      /\ MaxRoll \in Nat
  BY HardwareAssumption, CountersAreInt DEF M65Types
<1>2. /\ counter' = M65!Wrap(counter + d) /\ rolled' = rolled + d
      /\ rolls' \in 0..MaxRoll
      /\ UNCHANGED <<base, wheelCmd, told, first, prevCounter, wheelPosition, wheelVelocity,
                     since>>
  BY <1>1 DEF M65!WheelRolls, M65Types
<1>3. /\ counter' \in Counters /\ counter' \in Int /\ rolled' \in Int
      /\ Equals(counter', counter + d)
  <2>1. counter + d \in Int /\ rolled + d \in Int
    BY <1>1
  <2>2. M65!Wrap(counter + d) \in Counters /\ Equals(M65!Wrap(counter + d), counter + d)
    BY <2>1, WrapFacts
  <2> QED
    BY <1>2, <2>1, <2>2, CountersAreInt
<1>4. M65Types'
  BY <1>2, <1>3 DEF M65Types, M65!Stop, Counters, SinceType
<1>5. ASSUME since.read PROVE Equals(counter', prevCounter + rolled')
  <2>1. PICK k \in Int, l \in Int :
          counter' - (counter + d) = k * Turn /\ counter - (prevCounter + rolled) = l * Turn
    BY <1>3, <1>5 DEF Equals, Counted
  <2>2. Turn \in Int
    BY TurnPositive
  <2>3. k * Turn \in Int /\ l * Turn \in Int /\ (k + l) * Turn = k * Turn + l * Turn
    BY <2>2
  <2>4. counter' - (prevCounter + (rolled + d)) = (k + l) * Turn
    BY <1>1, <1>3, <2>1, <2>3
  <2> QED
    BY <1>2, <2>4 DEF Equals
<1> QED
  BY <1>2, <1>4, <1>5 DEF Counted, Equals, Turn

LEMMA M65Kept ==
    ASSUME M65Types, Counted, state \in Arm!LifecycleStates, M65!M65Next
    PROVE  M65Types' /\ Counted' /\ state' \in Arm!LifecycleStates
<1> USE SameStates
<1>1. state' \in Arm!LifecycleStates
  BY DEF M65!M65Next, M65!M65Configure, M65!M65Activate, M65!M65Deactivate, M65!M65CleanUp,
         M65!M65Seed, M65!M65Read, M65!M65Write, M65!M65Command, M65!BaseLinkChanges,
         M65!WheelRolls, M65!Configures, M65!Activates, M65!Deactivates, M65!CleansUp,
         M65!Ends, M65!ShutsDown, M65!Dies, M65!Cycling
<1>0. /\ told \in Int \X Int /\ M65!Stop \in Int \X Int
      /\ wheelCmd \in WheelCmds \cup {M65!Stop}
      /\ base \in {"none", "up", "down", "closed"}
  BY DEF M65Types, M65!Stop
<1>2. CASE M65!M65Configure
  <2>1. /\ base' \in {"none", "up", "down", "closed"}
        /\ wheelCmd' = wheelCmd /\ told' = told
        /\ UNCHANGED <<first, counter, prevCounter, wheelPosition, wheelVelocity,
                       rolls, rolled, since>>
    BY <1>2 DEF M65!M65Configure, M65!encoderVars
  <2> QED
    BY <1>0, <1>1, <2>1, M65KeepsEncoder
<1>3. CASE M65!M65Deactivate
  <2>1. /\ base' = "closed"
        /\ wheelCmd' = wheelCmd
        /\ told' = M65!Stop \/ told' = told
        /\ UNCHANGED <<first, counter, prevCounter, wheelPosition, wheelVelocity,
                       rolls, rolled, since>>
    BY <1>3 DEF M65!M65Deactivate, M65!encoderVars
  <2> QED
    BY <1>0, <1>1, <2>1, M65KeepsEncoder
<1>4. CASE M65!M65CleanUp
  BY <1>1, <1>4, M65KeepsEncoder DEF M65!M65CleanUp, M65Types, M65!encoderVars
<1>5. CASE M65!M65Write
  <2>1. \A c \in Int \X Int : M65!Unicycle(c) \in Int \X Int
    BY DEF M65!Unicycle
  <2>2. wheelCmd \in Int \X Int
    BY HardwareAssumption DEF M65Types, M65!Stop
  <2>3. told' \in Int \X Int
    BY <1>5, <2>1, <2>2 DEF M65!M65Write
  <2> QED
    BY <1>0, <1>1, <1>5, <2>3, M65KeepsEncoder DEF M65!M65Write, M65!encoderVars
<1>6. CASE M65!BaseLinkChanges
  BY <1>1, <1>6, M65KeepsEncoder DEF M65!BaseLinkChanges, M65Types, M65!encoderVars
<1>7. ASSUME NEW c \in WheelCmds, M65!M65Command(c)
      PROVE  M65Types' /\ Counted'
  BY <1>7, M65KeepsEncoder DEF M65!M65Command, M65Types, M65!encoderVars
<1>8. CASE \/ M65!M65Activate \/ M65!M65Seed
           \/ \E long \in BOOLEAN : M65!M65Read(long)
           \/ \E d \in Rolls : M65!WheelRolls(d)
  <2>1. CASE M65!M65Activate \/ M65!M65Seed
    BY <1>1, <2>1, M65ActivateKeeps, M65SeedKeeps
  <2>2. CASE \E long \in BOOLEAN : M65!M65Read(long)
    BY <1>1, <2>2, M65ReadKeeps
  <2>3. CASE \E d \in Rolls : M65!WheelRolls(d)
    BY <1>1, <2>3, WheelRollsKeeps
  <2> QED
    BY <1>8, <2>1, <2>2, <2>3
<1> QED
  BY <1>1, <1>2, <1>3, <1>4, <1>5, <1>6, <1>7, <1>8 DEF M65!M65Next

LEMMA ArmTypesStay ==
    ASSUME ArmTypes, UNCHANGED armOwn PROVE ArmTypes'
<1> QED
  BY DEF ArmTypes, armOwn, Arm!None

LEMMA DaisTypesStay ==
    ASSUME DaisTypes, UNCHANGED daisOwn PROVE DaisTypes'
<1> QED
  BY DEF DaisTypes, daisOwn

LEMMA M65Stays ==
    ASSUME M65Types, Counted, UNCHANGED m65Own PROVE M65Types' /\ Counted'
<1> QED
  BY M65KeepsEncoder DEF M65Types, m65Own

LEMMA TypesInductive ==
    ASSUME AllTypes, Counted, [Next]_vars
    PROVE  AllTypes' /\ Counted'
<1>0. /\ device \in Devices /\ state \in Arm!LifecycleStates
      /\ ArmTypes /\ DaisTypes /\ M65Types
  BY DEF AllTypes
<1>1. CASE ArmStep
  BY <1>0, <1>1, ArmTypesKept, DaisTypesStay, M65Stays DEF ArmStep, AllTypes, Arm!LifecycleStates
<1>2. CASE DaisStep
  BY <1>0, <1>2, DaisTypesKept, ArmTypesStay, M65Stays DEF DaisStep, AllTypes, Arm!LifecycleStates
<1>3. CASE M65Step
  BY <1>0, <1>3, M65Kept, ArmTypesStay, DaisTypesStay DEF M65Step, AllTypes, Arm!LifecycleStates
<1>4. CASE UNCHANGED vars
  BY <1>0, <1>4, ArmTypesStay, DaisTypesStay, M65Stays DEF vars, AllTypes, Arm!LifecycleStates
<1> QED
  BY <1>1, <1>2, <1>3, <1>4 DEF Next

LEMMA TypesInvariant == Spec => [](AllTypes /\ Counted)
<1>1. (AllTypes /\ Counted) /\ [Next]_vars => (AllTypes /\ Counted)'
  BY TypesInductive
<1>2. Init => AllTypes /\ Counted
  BY TypesInitially, CountedInitially
<1> QED
  BY <1>1, <1>2, PTL DEF Spec

(* TypeOK holds for every plugin: each callback leaves its members in      *)
(* their types, in particular the counters in their range.                 *)
THEOREM TypeCorrect == Spec => []TypeOK
<1>1. AllTypes => TypeOK
  BY SameStates DEF AllTypes, ArmTypes, DaisTypes, M65Types, Counters, SinceType,
     TypeOK, Arm!ArmTypeOK, Dais!DaisTypeOK, M65!M65TypeOK
<1> QED
  BY <1>1, TypesInvariant, PTL

(* OdometryExact holds for counters of any width: read() of the chassis    *)
(* counts what the wheel rolled while it was read, up to whole turns of    *)
(* the counter, over activations, lost connections and wrapped counters.   *)
THEOREM OdometryAlwaysExact == Spec => []OdometryExact
<1>1. ASSUME AllTypes, Counted PROVE OdometryExact
  <2> SUFFICES ASSUME since.read
               PROVE  (wheelPosition - since.from - since.distance) % (2 * HalfRange) = 0
    BY DEF OdometryExact, M65!OdometryExact
  <2>1. wheelPosition \in Int /\ since.from \in Int /\ since.distance \in Int
    BY <1>1, SinceParts DEF AllTypes, M65Types
  <2>2. (wheelPosition - (since.from + since.distance)) % Turn = 0
    BY <1>1, <2>1, EqualsMod DEF Counted
  <2>3. wheelPosition - (since.from + since.distance)
          = wheelPosition - since.from - since.distance
    BY <2>1
  <2> QED
    BY <2>2, <2>3 DEF Turn
<1> QED
  BY <1>1, TypesInvariant, PTL
=============================================================================
