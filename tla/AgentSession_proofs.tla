-------------------------- MODULE AgentSession_proofs --------------------------
(***************************************************************************)
(* Theorems about AgentSession, for all timeouts, clients and keys: the    *)
(* bounds on how long a Vault Key stays in the memory of the agent.        *)
(***************************************************************************)
EXTENDS AgentSession, TLAPS

(* A waiting connection is open, is not the one being served, and waits in *)
(* the backlog once.                                                       *)
QueueSound ==
  /\ conn # None => client[conn] # None
  /\ \A i \in 1 .. Len(queue) : client[queue[i]] # None /\ queue[i] # conn
  /\ \A i, j \in 1 .. Len(queue) : queue[i] = queue[j] => i = j

(* The watchdog is late by no more than the request that holds the mutex.  *)
WatchdogDue ==
  /\ op # None => timer <= Period + busy /\ conn # None /\ key # None
  /\ timer <= Period + MaxOp

(* Since the watchdog last looked, the clocks went at most as far as its   *)
(* timer: what it left in memory had not timed out then.                   *)
KeyFresh ==
  key # None => age <= Absolute + timer /\ idle <= Idle + timer

SessionInv == TypeOK /\ QueueSound /\ WatchdogDue /\ KeyFresh

LEMMA LaterFacts ==
  ASSUME NEW t \in 0 .. Cap
  PROVE  Later(t) \in 0 .. Cap /\ Later(t) <= t + 1
BY AgentAssumption DEF Later, Cap

LEMMA InitInv == Init => SessionInv
BY AgentAssumption, NoneAssumption
   DEF Init, SessionInv, TypeOK, QueueSound, WatchdogDue, KeyFresh, Cap

(* The end of the process.                                                 *)
LEMMA EndedInv ==
  ASSUME Ended
  PROVE  SessionInv'
BY AgentAssumption, NoneAssumption
   DEF Ended, SessionInv, TypeOK, QueueSound, WatchdogDue, KeyFresh, Cap

(* An answer leaves the backlog sound.                                     *)
LEMMA RespondInv ==
  ASSUME SessionInv, conn # None, NEW next \in {"serving", "stopping"},
         Respond(next), client[conn].there
  PROVE  /\ QueueSound' /\ phase' = next
         /\ queue' = queue /\ conn' = None
         /\ client' \in [Clients -> Ask \cup {None}]
BY NoneAssumption DEF SessionInv, TypeOK, QueueSound, Respond

LEMMA NextInv == SessionInv /\ [Next]_vars => SessionInv'
<1> SUFFICES ASSUME SessionInv, [Next]_vars PROVE SessionInv'
  OBVIOUS
<1> USE AgentAssumption, NoneAssumption
<1>1. ASSUME NEW c \in Clients,
             NEW what \in {"unlock", "unlock_bad", "status", "lock", "data"},
             NEW k \in Keys, Connect(c, what, k)
      PROVE  SessionInv'
  <2>1. [op |-> what, key |-> k, sent |-> FALSE, there |-> TRUE] \in Ask
    BY DEF Ask
  <2>2. TypeOK'
    <3>1. /\ client' \in [Clients -> Ask \cup {None}]
          /\ UNCHANGED <<phase, key, age, idle, timer, busy, conn, op>>
      BY <1>1, <2>1 DEF SessionInv, TypeOK, Connect, clocks
    <3>2. queue' \in Seq(Clients)
      BY <1>1 DEF SessionInv, TypeOK, Connect
    <3> QED
      BY <3>1, <3>2 DEF SessionInv, TypeOK
  <2>3. c # conn /\ \A i \in 1 .. Len(queue) : queue[i] # c
    BY <1>1 DEF SessionInv, QueueSound, Connect
  <2>4. /\ Len(queue') = Len(queue) + 1
        /\ queue'[Len(queue) + 1] = c
        /\ \A i \in 1 .. Len(queue) : queue'[i] = queue[i]
        /\ Len(queue) \in Nat
    BY <1>1 DEF SessionInv, TypeOK, Connect
  <2>5. /\ client'[c] # None
        /\ \A d \in Clients \ {c} : client'[d] = client[d]
        /\ \A i \in 1 .. Len(queue) : queue[i] \in Clients
    <3>1. \A i \in 1 .. Len(queue) : queue[i] \in Clients
      BY DEF SessionInv, TypeOK
    <3> QED
      BY <1>1, <2>1, <3>1 DEF SessionInv, TypeOK, Connect
  <2>6. QueueSound'
    <3>1. conn' = conn
      BY <1>1 DEF Connect
    <3> QED
      BY <2>3, <2>4, <2>5, <3>1 DEF SessionInv, QueueSound, TypeOK
  <2> QED
    BY <1>1, <2>2, <2>6
       DEF SessionInv, WatchdogDue, KeyFresh, Connect, clocks
<1>2. ASSUME NEW c \in Clients, Send(c) \/ Quit(c)
      PROVE  SessionInv'
  <2>1. client[c] \in Ask /\ client[c] # None
    BY <1>2 DEF SessionInv, TypeOK, Send, Quit
  <2>2. /\ client' \in [Clients -> Ask \cup {None}]
        /\ \A d \in Clients : client'[d] = None <=> client[d] = None
    <3>1. PICK a \in Ask : client' = [client EXCEPT ![c] = a]
      <4>1. [client[c] EXCEPT !.sent = TRUE] \in Ask
        BY <2>1 DEF Ask
      <4>2. [client[c] EXCEPT !.there = FALSE] \in Ask
        BY <2>1 DEF Ask
      <4> QED
        BY <1>2, <4>1, <4>2 DEF Send, Quit
    <3> QED
      BY <2>1, <3>1 DEF SessionInv, TypeOK
  <2>3. UNCHANGED <<phase, key, age, idle, timer, busy, queue, conn, op>>
    BY <1>2 DEF Send, Quit, clocks
  <2>4. \A i \in 1 .. Len(queue) : queue[i] \in Clients
    BY DEF SessionInv, TypeOK
  <2> QED
    BY <2>2, <2>3, <2>4
       DEF SessionInv, TypeOK, QueueSound, WatchdogDue, KeyFresh
<1>3. CASE Accept
  <2>1. Len(queue) \in Nat /\ Len(queue) > 0
    BY <1>3 DEF SessionInv, TypeOK, Accept
  <2>2. /\ conn' = queue[1] /\ queue[1] \in Clients
        /\ queue' \in Seq(Clients)
        /\ Len(queue') = Len(queue) - 1
        /\ \A i \in 1 .. Len(queue) - 1 : queue'[i] = queue[i + 1]
    BY <1>3, <2>1 DEF SessionInv, TypeOK, Accept
  <2>3. UNCHANGED <<phase, key, age, idle, timer, busy, op, client>>
    BY <1>3 DEF Accept, clocks
  <2>4. QueueSound'
    BY <2>1, <2>2, <2>3 DEF SessionInv, QueueSound
  <2> QED
    BY <1>3, <2>2, <2>3, <2>4
       DEF SessionInv, TypeOK, WatchdogDue, KeyFresh, Accept
<1>4. CASE ReadFails
  BY <1>4 DEF SessionInv, TypeOK, QueueSound, WatchdogDue, KeyFresh,
              ReadFails, clocks
<1>5. ASSUME NEW what, Begin(what)
      PROVE  client[conn] \in Ask /\ conn # None /\ op = None /\ phase = "serving"
  BY <1>5 DEF Begin, SessionInv, TypeOK, QueueSound
<1>6. ASSUME NEW next \in {"serving", "stopping"}, Respond(next), conn # None,
             ~ client[conn].there
      PROVE  SessionInv'
  BY <1>6, EndedInv DEF Respond
<1>7. CASE Unlock
  <2>1. Respond("serving") /\ client[conn] \in Ask /\ conn # None /\ op = None
    BY <1>7, <1>5 DEF Unlock
  <2>2. CASE client[conn].there
    <3>1. /\ key' = client[conn].key /\ age' = 0 /\ idle' = 0
          /\ UNCHANGED <<timer, busy, op>>
      BY <1>7, <2>2 DEF Unlock
    <3>2. key' \in Keys
      BY <2>1, <3>1 DEF Ask
    <3> QED
      BY <2>1, <2>2, <3>1, <3>2, RespondInv
         DEF SessionInv, TypeOK, WatchdogDue, KeyFresh, Cap
  <2> QED
    BY <2>1, <2>2, <1>6
<1>8. CASE Status \/ UnlockBad \/ Expired
  <2>1. Respond("serving") /\ Answered /\ conn # None /\ op = None
    BY <1>8, <1>5 DEF Status, UnlockBad, Expired
  <2>2. CASE client[conn].there
    BY <2>1, <2>2, RespondInv
       DEF Answered, SessionInv, TypeOK, WatchdogDue, KeyFresh, clocks
  <2> QED
    BY <2>1, <2>2, <1>6
<1>9. CASE Lock
  <2>1. Respond("stopping") /\ conn # None /\ op = None
    BY <1>9, <1>5 DEF Lock
  <2>2. CASE client[conn].there
    <3>1. /\ key' = None /\ age' = 0 /\ idle' = 0
          /\ UNCHANGED <<timer, busy, op>>
      BY <1>9, <2>2 DEF Lock
    <3> QED
      BY <2>1, <2>2, <3>1, RespondInv
         DEF SessionInv, TypeOK, WatchdogDue, KeyFresh, Cap
  <2> QED
    BY <2>1, <2>2, <1>6
<1>10. CASE DataBegin
  <2>1. conn # None /\ timer <= Period
    BY <1>10 DEF DataBegin, Begin
  <2>2. /\ op' = [after |-> idle] /\ idle' = 0 /\ busy' = 0 /\ key # None
        /\ UNCHANGED <<phase, key, age, timer, queue, conn, client>>
    BY <1>10 DEF DataBegin
  <2>3. op' \in DataOp
    BY <2>2 DEF SessionInv, TypeOK, DataOp
  <2>4. TypeOK'
    BY <2>2, <2>3 DEF SessionInv, TypeOK, Cap
  <2> QED
    BY <2>1, <2>2, <2>4
       DEF SessionInv, TypeOK, QueueSound, WatchdogDue, KeyFresh
<1>11. CASE DataEnd
  <2>1. Respond("serving") /\ conn # None
    BY <1>11 DEF DataEnd, SessionInv, WatchdogDue
  <2>2. CASE client[conn].there
    <3>1. op' = None /\ busy' = 0 /\ UNCHANGED <<key, age, idle, timer>>
      BY <1>11, <2>2 DEF DataEnd
    <3> QED
      BY <2>1, <2>2, <3>1, RespondInv
         DEF SessionInv, TypeOK, WatchdogDue, KeyFresh
  <2> QED
    BY <2>1, <2>2, <1>6
<1>12. CASE Shutdown
  BY <1>12, EndedInv DEF Shutdown
<1>13. CASE Start
  BY <1>13 DEF SessionInv, TypeOK, QueueSound, WatchdogDue, KeyFresh, Start, clocks
<1>14. CASE Watchdog
  BY <1>14 DEF SessionInv, TypeOK, QueueSound, WatchdogDue, KeyFresh,
               Watchdog, TimedOut, Cap
<1>15. CASE Tick
  <2>1. /\ UNCHANGED <<phase, key, queue, conn, op, client>>
        /\ timer' = timer + 1 /\ timer' \in 0 .. Period + MaxOp
        /\ busy' \in 0 .. MaxOp
        /\ op # None => timer' <= Period + busy'
    BY <1>15 DEF Tick, SessionInv, TypeOK, WatchdogDue
  <2>2. /\ age' \in 0 .. Cap /\ idle' \in 0 .. Cap
        /\ key # None => age' <= age + 1 /\ idle' <= idle + 1
    BY <1>15, LaterFacts DEF Tick, SessionInv, TypeOK
  <2>3. TypeOK'
    BY <2>1, <2>2 DEF SessionInv, TypeOK
  <2>4. QueueSound'
    BY <2>1 DEF SessionInv, QueueSound
  <2>5. WatchdogDue'
    BY <2>1 DEF SessionInv, WatchdogDue
  <2>6. KeyFresh'
    BY <2>1, <2>2 DEF SessionInv, TypeOK, KeyFresh
  <2> QED
    BY <2>3, <2>4, <2>5, <2>6 DEF SessionInv
<1>16. CASE UNCHANGED vars
  BY <1>16 DEF SessionInv, TypeOK, QueueSound, WatchdogDue, KeyFresh, vars, clocks
<1> QED
  BY <1>1, <1>2, <1>3, <1>4, <1>7, <1>8, <1>9, <1>10, <1>11, <1>12, <1>13,
     <1>14, <1>15, <1>16 DEF Next, Serve

(* The state of the agent keeps its types, and its clocks their ranges.    *)
THEOREM TypeCorrect == Spec => []TypeOK
<1>1. SessionInv => TypeOK
  BY DEF SessionInv
<1> QED
  BY InitInv, NextInv, <1>1, PTL DEF Spec

(* Whatever the timeouts are, the absolute timeout bounds the life of a    *)
(* key that is not unlocked again, up to one watchdog period and the       *)
(* longest request.                                                        *)
THEOREM AbsoluteTimeoutHolds == Spec => []AbsoluteTimeout
<1>1. SessionInv => AbsoluteTimeout
  BY AgentAssumption
     DEF SessionInv, TypeOK, WatchdogDue, KeyFresh, AbsoluteTimeout
<1> QED
  BY InitInv, NextInv, <1>1, PTL DEF Spec

(* The same bound for a key that is not used.                              *)
THEOREM IdleTimeoutHolds == Spec => []IdleTimeout
<1>1. SessionInv => IdleTimeout
  BY AgentAssumption
     DEF SessionInv, TypeOK, WatchdogDue, KeyFresh, IdleTimeout
<1> QED
  BY InitInv, NextInv, <1>1, PTL DEF Spec
=============================================================================
