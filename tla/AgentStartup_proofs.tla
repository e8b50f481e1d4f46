-------------------------- MODULE AgentStartup_proofs --------------------------
(***************************************************************************)
(* Theorems about AgentStartup, for any number of clients and agents.      *)
(***************************************************************************)
EXTENDS AgentStartup, TLAPS

(* The instance lock is held from the flock in run_agent to its return.    *)
InstanceHeld == \A a \in Agents : phase[a] \in Holding <=> instance = a

(* Between its unlink and its bind an agent finds no socket at the path.   *)
SocketRemoved == \A a \in Agents : phase[a] = "unlinked" => path = None

(* A call is calm: it has met no agent that leaves, waits for an answer    *)
(* only from one that serves, and, once it has forked, an agent is there.  *)
CallCalm ==
  \A c \in Clients :
    /\ pc[c] \notin {"probe", "recheck", "poll"} => conn[c] = None
    /\ calm[c] =>
         /\ \A a \in Agents : phase[a] \notin Leaving
         /\ conn[c] # Stale
         /\ \A a \in Agents : conn[c] = a => phase[a] = "serving"
         /\ pc[c] = "poll" =>
              \E a \in Agents : phase[a] \in Starting \cup {"serving"}

ReachInv == TypeOK /\ InstanceHeld /\ SocketRemoved /\ ServingReachable
StartupInv == ReachInv /\ CallCalm /\ FailureExplained

LEMMA InitType == Init => TypeOK
BY StartupAssumption DEF Init, TypeOK, Places, Phases, Gone

LEMMA NextType == TypeOK /\ [Next]_vars => TypeOK'
<1> SUFFICES ASSUME TypeOK, [Next]_vars PROVE TypeOK'
  OBVIOUS
<1> USE StartupAssumption DEF TypeOK, clientVars, agentVars
<1>1. ASSUME NEW c \in Clients, Call(c) \/ ClientStep(c) \/ Killed(c)
      PROVE  TypeOK'
  <2>1. CASE Call(c)
    BY <2>1 DEF Call, Go, Places
  <2>2. CASE Connect(c)
    BY <2>2 DEF Connect
  <2>3. CASE Available(c)
    BY <2>3 DEF Available, Go, Places
  <2>4. CASE ProbeFails(c)
    BY <2>4 DEF ProbeFails, Go, Places
  <2>5. CASE TakeStartupLock(c)
    BY <2>5 DEF TakeStartupLock, Go, Places
  <2>6. CASE Fork(c)
    BY <2>6 DEF Fork, Go, Places, Phases, Starting
  <2>7. CASE PollFails(c)
    BY <2>7 DEF PollFails
  <2>8. CASE GiveUp(c)
    <3>1. (calm[c] /\ NoneStarting) \in BOOLEAN
      OBVIOUS
    <3> QED
      BY <2>8, <3>1 DEF GiveUp, Go, Places
  <2>9. CASE Killed(c)
    BY <2>9 DEF Killed, Go, Places
  <2> QED
    BY <1>1, <2>1, <2>2, <2>3, <2>4, <2>5, <2>6, <2>7, <2>8, <2>9
       DEF ClientStep
<1>2. ASSUME NEW a \in Agents,
             AgentStep(a) \/ ListenFails(a) \/ Locked(a) \/ Crash(a)
      PROVE  TypeOK'
  <2> USE DEF Move, Ends, Phases, Starting, Leaving, Gone
  <2>1. CASE Exec(a)
    BY <2>1 DEF Exec
  <2>2. CASE TakeInstanceLock(a)
    BY <2>2 DEF TakeInstanceLock
  <2>3. CASE InstanceExists(a)
    BY <2>3 DEF InstanceExists
  <2>4. CASE UnlinkOld(a)
    BY <2>4 DEF UnlinkOld
  <2>5. CASE Listen(a)
    BY <2>5 DEF Listen
  <2>6. CASE CloseListener(a)
    BY <2>6 DEF CloseListener
  <2>7. CASE RemoveSocket(a)
    BY <2>7 DEF RemoveSocket
  <2>8. CASE Return(a)
    BY <2>8 DEF Return
  <2>9. CASE ListenFails(a)
    BY <2>9 DEF ListenFails
  <2>10. CASE Locked(a)
    BY <2>10 DEF Locked
  <2>11. CASE Crash(a)
    BY <2>11 DEF Crash
  <2> QED
    BY <1>2, <2>1, <2>2, <2>3, <2>4, <2>5, <2>6, <2>7, <2>8, <2>9, <2>10, <2>11
       DEF AgentStep
<1>3. CASE UNCHANGED vars
  BY <1>3 DEF vars
<1> QED
  BY <1>1, <1>2, <1>3 DEF Next

LEMMA InitReach == Init => ReachInv
BY InitType, StartupAssumption
   DEF Init, ReachInv, InstanceHeld, SocketRemoved, ServingReachable, Holding, Leaving

(* Only Fork and the steps of agents touch what ReachInv is about, and a   *)
(* socket is removed by the holder of the instance lock only.              *)
LEMMA NextReach == ReachInv /\ [Next]_vars => ReachInv'
<1> SUFFICES ASSUME ReachInv, [Next]_vars PROVE InstanceHeld' /\ SocketRemoved' /\ ServingReachable'
  BY NextType DEF ReachInv
<1> USE StartupAssumption
    DEF ReachInv, TypeOK, InstanceHeld, SocketRemoved, ServingReachable
<1>1. ASSUME UNCHANGED agentVars
      PROVE  InstanceHeld' /\ SocketRemoved' /\ ServingReachable'
  BY <1>1 DEF agentVars
<1>2. ASSUME NEW c \in Clients, Call(c) \/ ClientStep(c) \/ Killed(c)
      PROVE  InstanceHeld' /\ SocketRemoved' /\ ServingReachable'
  <2>1. CASE Fork(c)
    BY <2>1 DEF Fork, Holding, Leaving, Gone
  <2>2. CASE ~ Fork(c)
    <3>1. UNCHANGED agentVars
      BY <1>2, <2>2 DEF Call, ClientStep, Killed, Connect, Available, ProbeFails,
                        TakeStartupLock, PollFails, GiveUp
    <3> QED
      BY <3>1, <1>1
  <2> QED
    BY <2>1, <2>2
<1>3. ASSUME NEW a \in Agents,
             AgentStep(a) \/ ListenFails(a) \/ Locked(a) \/ Crash(a)
      PROVE  InstanceHeld' /\ SocketRemoved' /\ ServingReachable'
  <2> USE DEF Move, Ends, Holding, Leaving, Gone
  <2>1. CASE Exec(a)
    BY <2>1 DEF Exec
  <2>2. CASE TakeInstanceLock(a)
    BY <2>2 DEF TakeInstanceLock
  <2>3. CASE InstanceExists(a)
    BY <2>3 DEF InstanceExists
  <2>4. CASE UnlinkOld(a)
    BY <2>4 DEF UnlinkOld
  <2>5. CASE Listen(a)
    BY <2>5 DEF Listen
  <2>6. CASE CloseListener(a)
    BY <2>6 DEF CloseListener
  <2>7. CASE RemoveSocket(a)
    BY <2>7 DEF RemoveSocket
  <2>8. CASE Return(a)
    BY <2>8 DEF Return
  <2>9. CASE ListenFails(a)
    BY <2>9 DEF ListenFails
  <2>10. CASE Locked(a)
    BY <2>10 DEF Locked
  <2>11. CASE Crash(a)
    BY <2>11 DEF Crash
  <2> QED
    BY <1>3, <2>1, <2>2, <2>3, <2>4, <2>5, <2>6, <2>7, <2>8, <2>9, <2>10, <2>11
       DEF AgentStep
<1>4. CASE UNCHANGED vars
  BY <1>4, <1>1 DEF vars, agentVars
<1> QED
  BY <1>2, <1>3, <1>4 DEF Next

LEMMA InitCalm == Init => CallCalm /\ FailureExplained
BY StartupAssumption DEF Init, CallCalm, FailureExplained, Leaving

LEMMA NextCalm ==
  ASSUME StartupInv, [Next]_vars
  PROVE  CallCalm' /\ FailureExplained'
<1> USE StartupAssumption
    DEF StartupInv, ReachInv, TypeOK, CallCalm, FailureExplained, clientVars,
        agentVars
<1>1. ASSUME NEW c \in Clients, Call(c) \/ ClientStep(c) \/ Killed(c)
      PROVE  CallCalm' /\ FailureExplained'
  <2>1. CASE Call(c)
    BY <2>1 DEF Call, Go
  <2>2. CASE Connect(c)
    BY <2>2 DEF Connect, Reachable, Probing, Leaving
  <2>3. CASE Available(c)
    BY <2>3 DEF Available, Go
  <2>4. CASE ProbeFails(c)
    BY <2>4 DEF ProbeFails, Go
  <2>5. CASE TakeStartupLock(c)
    BY <2>5 DEF TakeStartupLock, Go
  <2>6. CASE Fork(c)
    BY <2>6 DEF Fork, Go, Starting, Leaving, Gone
  <2>7. CASE PollFails(c)
    BY <2>7 DEF PollFails
  <2>8. CASE GiveUp(c)
    <3>1. ~ (calm[c] /\ NoneStarting)
      <4>1. SUFFICES ASSUME calm[c], NoneStarting PROVE FALSE
        OBVIOUS
      <4>2. PICK a \in Agents : phase[a] = "serving"
        BY <2>8, <4>1 DEF GiveUp, NoneStarting
      <4>3. Reachable(a)
        BY <4>2 DEF ServingReachable, Reachable
      <4> QED
        BY <2>8, <4>1, <4>3 DEF GiveUp, Unavailable
    <3> QED
      BY <2>8, <3>1 DEF GiveUp, Go
  <2>9. CASE Killed(c)
    BY <2>9 DEF Killed, Go
  <2> QED
    BY <1>1, <2>1, <2>2, <2>3, <2>4, <2>5, <2>6, <2>7, <2>8, <2>9
       DEF ClientStep
<1>2. ASSUME NEW a \in Agents,
             AgentStep(a) \/ ListenFails(a) \/ Locked(a) \/ Crash(a)
      PROVE  CallCalm' /\ FailureExplained'
  <2> USE DEF Move, Starting, Leaving
  <2>1. CASE Exec(a)
    BY <2>1 DEF Exec
  <2>2. CASE TakeInstanceLock(a)
    BY <2>2 DEF TakeInstanceLock
  <2>3. CASE InstanceExists(a)
    <3>1. instance \in Agents /\ instance # a /\ phase[instance] \in Holding
      BY <2>3 DEF InstanceExists, InstanceHeld, Holding
    <3>2. \A c \in Clients : calm[c] =>
             phase[instance] \in Starting \cup {"serving"} /\ conn[c] # a
      BY <2>3, <3>1 DEF InstanceExists, Holding
    <3>3. /\ \A c \in Clients : conn[c] # a => conn'[c] = conn[c]
          /\ \A b \in Agents : phase'[b] = IF b = a THEN "none" ELSE phase[b]
          /\ \A c \in Clients : conn[c] = None => conn'[c] = None
          /\ UNCHANGED <<pc, calm>>
      BY <2>3 DEF InstanceExists, Ends
    <3> QED
      BY <3>1, <3>2, <3>3
  <2>4. CASE UnlinkOld(a)
    BY <2>4 DEF UnlinkOld
  <2>5. CASE Listen(a)
    <3>1. path = None
      BY <2>5 DEF Listen, SocketRemoved
    <3> QED
      BY <2>5, <3>1 DEF Listen
  <2>6. CASE CloseListener(a)
    BY <2>6 DEF CloseListener
  <2>7. CASE RemoveSocket(a)
    BY <2>7 DEF RemoveSocket
  <2>8. CASE Return(a)
    BY <2>8 DEF Return, Ends
  <2>9. CASE ListenFails(a)
    BY <2>9 DEF ListenFails, Ends
  <2>10. CASE Locked(a)
    BY <2>10 DEF Locked
  <2>11. CASE Crash(a)
    BY <2>11 DEF Crash, Ends
  <2> QED
    BY <1>2, <2>1, <2>2, <2>3, <2>4, <2>5, <2>6, <2>7, <2>8, <2>9, <2>10, <2>11
       DEF AgentStep
<1>3. CASE UNCHANGED vars
  BY <1>3 DEF vars
<1> QED
  BY <1>1, <1>2, <1>3 DEF Next

(* The startup protocol keeps its types.                                   *)
THEOREM TypeCorrect == Spec => []TypeOK
BY InitType, NextType, PTL DEF Spec

(* Whoever starts, stops, crashes or is killed, a serving agent keeps its  *)
(* socket.                                                                 *)
THEOREM AgentStaysReachable == Spec => []ServingReachable
<1>1. ReachInv => ServingReachable
  BY DEF ReachInv
<1> QED
  BY InitReach, NextReach, <1>1, PTL DEF Spec

(* A call that fails has met an agent that stopped, crashed, could not     *)
(* listen or was still starting.                                           *)
THEOREM FailuresExplained == Spec => []FailureExplained
<1>1. Init => StartupInv
  BY InitReach, InitCalm DEF StartupInv
<1>2. StartupInv /\ [Next]_vars => StartupInv'
  BY NextReach, NextCalm DEF StartupInv
<1>3. StartupInv => FailureExplained
  BY DEF StartupInv
<1> QED
  BY <1>1, <1>2, <1>3, PTL DEF Spec
=============================================================================
