----------------------------- MODULE AgentStartup -----------------------------
(***************************************************************************)
(* How CLI and GUI processes start the one local agent of a user, on       *)
(* POSIX: AgentClient::ensure_running and the start and the end of         *)
(* run_agent (client/src/agent.cpp), with the three files they share in    *)
(* the runtime directory: agent-startup.lock and agent-instance.lock, both *)
(* taken with flock, and the socket agent.sock.                            *)
(*                                                                         *)
(* An flock belongs to an open file description: a forked child shares the *)
(* lock of its parent until one of them unlocks it or both have closed     *)
(* it.  A process that dies closes its files; its socket stays on disk.    *)
(***************************************************************************)
EXTENDS Naturals

CONSTANTS
  Clients,    \* CLI and GUI processes
  Agents,     \* process ids for agents
  None,       \* nobody, nothing
  Stale,      \* the socket file of an agent that is gone
  MaxTries    \* polls after a fork, 50 in the code

ASSUME StartupAssumption ==
  /\ None \notin Agents /\ Stale \notin Agents \cup {None}
  /\ Clients \cap Agents = {}
  /\ MaxTries \in Nat \ {0}

VARIABLES
  pc,        \* client -> where it is in ensure_running
  conn,      \* client -> the agent it waits for in available(), Stale when
             \*   that agent is gone, None when it is not connected
  tries,     \* client -> polls that have failed
  startup,   \* the processes that share the locked startup file
  phase,     \* agent -> where it is in its life
  instance,  \* the agent that holds agent-instance.lock, or None
  path,      \* whose socket agent.sock is: an agent, Stale or None
  calm       \* client -> no agent has failed, stopped or been slow to start
             \*   since it called

vars == <<pc, conn, tries, startup, phase, instance, path, calm>>
clientVars == <<pc, conn, tries, calm>>
agentVars == <<phase, instance, path>>

Starting == {"forked", "exec", "locked", "unlinked"}
Leaving  == {"stopping", "closed", "removed"}
Holding  == {"locked", "unlinked", "serving"} \cup Leaving
Gone     == {"none", "cut"}   \* "cut": by a crash, or by a listen that failed
Phases   == {"serving"} \cup Starting \cup Leaving \cup Gone
Places   == {"idle", "probe", "wait", "recheck", "fork", "poll", "ok", "failed"}

Probing(c) == pc[c] \in {"probe", "recheck", "poll"}

Init ==
  /\ pc = [c \in Clients |-> "idle"] /\ conn = [c \in Clients |-> None]
  /\ tries = [c \in Clients |-> 0] /\ calm = [c \in Clients |-> TRUE]
  /\ startup = {}
  /\ phase = [a \in Agents |-> "none"] /\ instance = None
  /\ path \in {None, Stale}
-----------------------------------------------------------------------------
(* ensure_running.                                                         *)

Go(c, place) == pc' = [pc EXCEPT ![c] = place]

Call(c) ==
  /\ pc[c] \in {"idle", "ok", "failed"}
  /\ Go(c, "probe")
  /\ tries' = [tries EXCEPT ![c] = 0]
  /\ calm' = [calm EXCEPT ![c] = \A a \in Agents : phase[a] \notin Leaving]
  /\ UNCHANGED <<conn, startup, agentVars>>

(* available(): connect, then wait for the answer to a status request.     *)
Reachable(a) == path = a /\ phase[a] \in {"serving", "stopping"}

Connect(c) ==
  /\ Probing(c) /\ conn[c] = None
  /\ \E a \in Agents : Reachable(a) /\ conn' = [conn EXCEPT ![c] = a]
  /\ UNCHANGED <<pc, tries, calm, startup, agentVars>>

(* available() is true: the startup lock, if we hold it, is released.      *)
Available(c) ==
  /\ Probing(c)
  /\ \E a \in Agents : conn[c] = a /\ phase[a] = "serving"
  /\ Go(c, "ok")
  /\ conn' = [conn EXCEPT ![c] = None]
  /\ startup' = IF pc[c] = "probe" THEN startup ELSE {}
  /\ UNCHANGED <<tries, calm, agentVars>>

(* available() is false: nobody listens, or the agent went without answer. *)
Unavailable(c) ==
  \/ conn[c] = None /\ \A a \in Agents : ~ Reachable(a)
  \/ conn[c] = Stale

ProbeFails(c) ==
  /\ pc[c] \in {"probe", "recheck"} /\ Unavailable(c)
  /\ Go(c, IF pc[c] = "probe" THEN "wait" ELSE "fork")
  /\ conn' = [conn EXCEPT ![c] = None]
  /\ UNCHANGED <<tries, calm, startup, agentVars>>

(* Mutant: clients do not wait for each other.                             *)
TakeStartupLockFree(c) ==
  /\ pc[c] = "wait"
  /\ startup' = startup \cup {c}
  /\ Go(c, "recheck")
  /\ UNCHANGED <<conn, tries, calm, agentVars>>

TakeStartupLock(c) ==
  /\ pc[c] = "wait" /\ startup = {}
  /\ startup' = {c}
  /\ Go(c, "recheck")
  /\ UNCHANGED <<conn, tries, calm, agentVars>>

Fork(c) ==
  /\ pc[c] = "fork"
  /\ \E a \in Agents :
       /\ phase[a] \in Gone
       /\ phase' = [phase EXCEPT ![a] = "forked"]
       /\ startup' = startup \cup {a}
  /\ Go(c, "poll")
  /\ UNCHANGED <<conn, tries, calm, instance, path>>

(* Mutant: one poll too many.                                              *)
PollFailsOnceMore(c) ==
  /\ pc[c] = "poll" /\ Unavailable(c) /\ tries[c] + 1 <= MaxTries
  /\ tries' = [tries EXCEPT ![c] = @ + 1]
  /\ conn' = [conn EXCEPT ![c] = None]
  /\ UNCHANGED <<pc, calm, startup, agentVars>>

PollFails(c) ==
  /\ pc[c] = "poll" /\ Unavailable(c) /\ tries[c] + 1 < MaxTries
  /\ tries' = [tries EXCEPT ![c] = @ + 1]
  /\ conn' = [conn EXCEPT ![c] = None]
  /\ UNCHANGED <<pc, calm, startup, agentVars>>

NoneStarting == \A a \in Agents : phase[a] \notin Starting

(* Mutant: the lock is left to the end of the process.                     *)
GiveUpLocked(c) ==
  /\ pc[c] = "poll" /\ Unavailable(c) /\ tries[c] + 1 = MaxTries
  /\ Go(c, "failed")
  /\ conn' = [conn EXCEPT ![c] = None]
  /\ calm' = [calm EXCEPT ![c] = calm[c] /\ NoneStarting]
  /\ UNCHANGED <<tries, startup, agentVars>>

(* "Local vault agent did not start".                                      *)
GiveUp(c) ==
  /\ pc[c] = "poll" /\ Unavailable(c) /\ tries[c] + 1 = MaxTries
  /\ Go(c, "failed")
  /\ conn' = [conn EXCEPT ![c] = None]
  /\ startup' = {}
  /\ calm' = [calm EXCEPT ![c] = calm[c] /\ NoneStarting]
  /\ UNCHANGED <<tries, agentVars>>

(* The client process is killed inside ensure_running.                     *)
Killed(c) ==
  /\ pc[c] \notin {"idle", "ok", "failed"}
  /\ Go(c, "idle")
  /\ conn' = [conn EXCEPT ![c] = None]
  /\ startup' = startup \ {c}
  /\ UNCHANGED <<tries, calm, agentVars>>
-----------------------------------------------------------------------------
(* The child, and run_agent.                                               *)

Move(a, from, to) == phase[a] = from /\ phase' = [phase EXCEPT ![a] = to]

(* The process ends: its descriptors are closed.                           *)
Ends(a, how) ==
  /\ phase' = [phase EXCEPT ![a] = how]
  /\ instance' = IF instance = a THEN None ELSE instance
  /\ startup' = startup \ {a}
  /\ conn' = [c \in Clients |-> IF conn[c] = a THEN Stale ELSE conn[c]]

(* Mutant: the child keeps the descriptor of the startup lock.             *)
ExecKeepsLock(a) ==
  /\ Move(a, "forked", "exec")
  /\ UNCHANGED <<clientVars, startup, instance, path>>

Exec(a) ==
  /\ Move(a, "forked", "exec")
  /\ startup' = startup \ {a}
  /\ UNCHANGED <<clientVars, instance, path>>

TakeInstanceLock(a) ==
  /\ Move(a, "exec", "locked")
  /\ instance = None
  /\ instance' = a
  /\ UNCHANGED <<clientVars, startup, path>>

(* Mutant: an agent that finds another one cleans up after itself.         *)
InstanceExistsCleansUp(a) ==
  /\ phase[a] = "exec" /\ instance # None
  /\ Ends(a, "none")
  /\ path' = None
  /\ UNCHANGED <<pc, tries, calm>>

(* Another agent has the lock: return 0.                                   *)
InstanceExists(a) ==
  /\ phase[a] = "exec" /\ instance # None
  /\ Ends(a, "none")
  /\ UNCHANGED <<pc, tries, calm, path>>

(* Mutant: listen_channel leaves what it finds.                            *)
UnlinkOldNot(a) ==
  /\ Move(a, "locked", "unlinked")
  /\ UNCHANGED <<clientVars, startup, instance, path>>

(* listen_channel: unlink, then bind and listen.                           *)
UnlinkOld(a) ==
  /\ Move(a, "locked", "unlinked")
  /\ path' = None
  /\ UNCHANGED <<clientVars, startup, instance>>

(* bind refuses a path that exists (EADDRINUSE); run_agent then returns 1. *)
Listen(a) ==
  /\ phase[a] = "unlinked"
  /\ IF path = None
       THEN /\ phase' = [phase EXCEPT ![a] = "serving"]
            /\ path' = a
            /\ UNCHANGED <<conn, startup, instance>>
       ELSE Ends(a, "none") /\ UNCHANGED path
  /\ UNCHANGED <<pc, tries, calm>>

(* Any other failure of socket, bind or listen: also return 1; bind may    *)
(* have created the socket by then.                                        *)
ListenFails(a) ==
  /\ phase[a] = "unlinked"
  /\ Ends(a, "cut")
  /\ path' \in {path, Stale}
  /\ calm' = [c \in Clients |-> FALSE]
  /\ UNCHANGED <<pc, tries>>

(* A lock request: nox lock, logout, login, passwd, the GUI.               *)
Locked(a) ==
  /\ Move(a, "serving", "stopping")
  /\ calm' = [c \in Clients |-> FALSE]
  /\ UNCHANGED <<pc, conn, tries, startup, instance, path>>

(* Mutant: the instance lock is released before the socket is removed.     *)
CloseListenerUnlocked(a) ==
  /\ Move(a, "stopping", "closed")
  /\ conn' = [c \in Clients |-> IF conn[c] = a THEN Stale ELSE conn[c]]
  /\ instance' = None
  /\ UNCHANGED <<pc, tries, calm, startup, path>>

CloseListener(a) ==
  /\ Move(a, "stopping", "closed")
  /\ conn' = [c \in Clients |-> IF conn[c] = a THEN Stale ELSE conn[c]]
  /\ UNCHANGED <<pc, tries, calm, startup, instance, path>>

RemoveSocket(a) ==
  /\ Move(a, "closed", "removed")
  /\ path' = None
  /\ UNCHANGED <<clientVars, startup, instance>>

Return(a) ==
  /\ phase[a] = "removed"
  /\ Ends(a, "none")
  /\ UNCHANGED <<pc, tries, calm, path>>

(* A signal, SIGPIPE among them, or the end of the user's session.         *)
Crash(a) ==
  /\ phase[a] \notin Gone
  /\ Ends(a, "cut")
  /\ path' = IF path = a THEN Stale ELSE path
  /\ calm' = [c \in Clients |-> FALSE]
  /\ UNCHANGED <<pc, tries>>
-----------------------------------------------------------------------------
ClientStep(c) ==
  \/ Connect(c) \/ Available(c) \/ ProbeFails(c) \/ TakeStartupLock(c)
  \/ Fork(c) \/ PollFails(c) \/ GiveUp(c)

AgentStep(a) ==
  \/ Exec(a) \/ TakeInstanceLock(a) \/ InstanceExists(a) \/ UnlinkOld(a)
  \/ Listen(a) \/ CloseListener(a) \/ RemoveSocket(a) \/ Return(a)

Next ==
  \/ \E c \in Clients : Call(c) \/ ClientStep(c) \/ Killed(c)
  \/ \E a \in Agents : AgentStep(a) \/ ListenFails(a) \/ Locked(a) \/ Crash(a)

(* Every process is scheduled, an agent answers a status request           *)
(* (ConnectionEnds of AgentSession), flock serves its waiters in turn, and *)
(* the system has process ids for the children it is asked to fork.        *)
Fairness ==
  /\ \A c \in Clients : /\ WF_vars(ClientStep(c))
                        /\ SF_vars(TakeStartupLock(c)) /\ SF_vars(Fork(c))
  /\ \A a \in Agents : WF_vars(AgentStep(a))

Spec == Init /\ [][Next]_vars
FairSpec == Spec /\ Fairness
-----------------------------------------------------------------------------
TypeOK ==
  /\ pc \in [Clients -> Places]
  /\ conn \in [Clients -> Agents \cup {None, Stale}]
  /\ tries \in [Clients -> 0 .. MaxTries - 1]
  /\ startup \in SUBSET (Clients \cup Agents)
  /\ phase \in [Agents -> Phases]
  /\ instance \in Agents \cup {None}
  /\ path \in Agents \cup {None, Stale}
  /\ calm \in [Clients -> BOOLEAN]

(* An agent that serves is the one clients reach: no other agent, starting *)
(* or ending, ever removes or replaces its socket, although listen_channel *)
(* unlinks whatever it finds and run_agent unlinks the path once more      *)
(* after its loop (agent.cpp:223, 546).                                    *)
ServingReachable == \A a \in Agents : phase[a] = "serving" => path = a

(* ensure_running does not blame the agent without a reason: a call ends   *)
(* in "Local vault agent did not start" (agent.cpp:396) only if an agent   *)
(* has stopped, crashed or failed to listen since it began, or one is      *)
(* still starting at the last poll, however many processes race to start   *)
(* an agent and are killed while they do.                                  *)
FailureExplained ==
  \A c \in Clients : pc[c] = "failed" => ~ calm[c]

(* A call of ensure_running returns, whatever happens to agents and to     *)
(* other clients while it waits, polls and holds the startup lock.         *)
EnsureEnds ==
  \A c \in Clients : pc[c] = "probe" ~> pc[c] \in {"idle", "ok", "failed"}

(* The startup lock does not survive its holder: also when the client that *)
(* took it is killed after the fork, its child lets go of it.              *)
StartupReleased == \A c \in Clients : c \in startup ~> startup = {}

(* An agent that has the instance lock comes to serve, unless it crashes   *)
(* or listen fails for a reason other than the path: what an agent before  *)
(* it has left at the path never makes run_agent return 1                  *)
(* (agent.cpp:223, 453-460).                                               *)
AgentServes ==
  \A a \in Agents : phase[a] = "locked" ~> phase[a] \in {"serving", "cut"}
=============================================================================
