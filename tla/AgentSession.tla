----------------------------- MODULE AgentSession -----------------------------
(***************************************************************************)
(* The local agent of client/src/agent.cpp (run_agent) while it runs: one  *)
(* thread accepts connections and serves them one after the other, and a   *)
(* watchdog thread wakes every Period and wipes the Vault Key when it has  *)
(* been idle, or unlocked, for too long.  Both take one mutex; a request   *)
(* that needs the server keeps it until its HTTP calls are over.           *)
(*                                                                         *)
(* Time is discrete and relative: age, idle, timer and busy are the time   *)
(* since the unlock (now - started), since the last use (now - last),      *)
(* since the watchdog last looked, and since the current request took the  *)
(* mutex.  Two assumptions on scheduling are built into Tick and Begin:    *)
(* the watchdog runs as soon as it is due and the mutex is free, and once  *)
(* it waits for the mutex it gets it before the next request does.         *)
(***************************************************************************)
EXTENDS Integers, Sequences

CONSTANTS
  Clients,   \* processes that connect to the agent: CLI runs and the GUI
  Keys,      \* Vault Keys
  None,      \* no key, no connection
  Idle,      \* unlock_timeout_seconds
  Absolute,  \* eight hours (main.cpp)
  Period,    \* between two wake-ups of the watchdog (one second)
  MaxOp      \* bound on the HTTP calls of one request (timeout of ApiClient)

ASSUME AgentAssumption ==
  Idle \in Nat /\ Absolute \in Nat /\ Period \in Nat /\ MaxOp \in Nat

VARIABLES
  phase,   \* "serving", "stopping" (the loop is left) or "gone" (no process)
  key,     \* the Vault Key in memory, or None
  age, idle, timer, busy,
  queue,   \* connections that wait in the backlog of the listener
  conn,    \* the client of the accepted connection, or None
  op,      \* the request that holds the mutex over its HTTP calls, or None
  client   \* client -> its connection, or None

vars == <<phase, key, age, idle, timer, busy, queue, conn, op, client>>
clocks == <<age, idle, timer, busy>>

(* A connection: what is asked, whether the frame has been sent, and       *)
(* whether the client is still there to read the answer.                   *)
Ask == [op : {"unlock", "unlock_bad", "status", "lock", "data"},
        key : Keys, sent : BOOLEAN, there : BOOLEAN]

(* A request under way remembers how long the key had been idle before.    *)
DataOp == [after : Nat]

ASSUME NoneAssumption == None \notin Keys \cup Clients \cup Ask \cup DataOp

(* The clocks stop where every timeout has long been exceeded.             *)
Cap == Idle + Absolute + Period + MaxOp + 1
Later(t) == IF t < Cap THEN t + 1 ELSE t

Init ==
  /\ phase = "serving" /\ key = None
  /\ age = 0 /\ idle = 0 /\ timer = 0 /\ busy = 0
  /\ queue = <<>> /\ conn = None /\ op = None
  /\ client = [c \in Clients |-> None]
-----------------------------------------------------------------------------
(* Clients: AgentClient::available and AgentClient::request.               *)

Connect(c, what, k) ==
  /\ phase \in {"serving", "stopping"}
  /\ client[c] = None
  /\ client' = [client EXCEPT ![c] = [op |-> what, key |-> k,
                                      sent |-> FALSE, there |-> TRUE]]
  /\ queue' = Append(queue, c)
  /\ UNCHANGED <<phase, key, clocks, conn, op>>

Send(c) ==
  /\ client[c] # None /\ ~ client[c].sent /\ client[c].there
  /\ client' = [client EXCEPT ![c].sent = TRUE]
  /\ UNCHANGED <<phase, key, clocks, queue, conn, op>>

(* The client process is interrupted; its end of the socket closes.        *)
Quit(c) ==
  /\ client[c] # None /\ client[c].there
  /\ client' = [client EXCEPT ![c].there = FALSE]
  /\ UNCHANGED <<phase, key, clocks, queue, conn, op>>
-----------------------------------------------------------------------------
(* The accept loop.                                                        *)

Accept ==
  /\ phase = "serving" /\ conn = None /\ queue # <<>>
  /\ conn' = Head(queue) /\ queue' = Tail(queue)
  /\ UNCHANGED <<phase, key, clocks, op, client>>

(* Mutant: the agent keeps reading from a client that is gone.             *)
ReadFailsNever == FALSE /\ UNCHANGED vars

(* read_all fails: the client closed before it sent its frame.             *)
ReadFails ==
  /\ conn # None /\ op = None
  /\ ~ client[conn].sent /\ ~ client[conn].there
  /\ client' = [client EXCEPT ![conn] = None]
  /\ conn' = None
  /\ UNCHANGED <<phase, key, clocks, queue, op>>

(* The frame is complete and the mutex is ours: no request holds it and    *)
(* the watchdog does not wait for it.                                      *)
Begin(what) ==
  /\ phase = "serving" /\ conn # None /\ op = None
  /\ client[conn].sent /\ client[conn].op = what
  /\ timer <= Period

(* The process ends: its memory, its mutex and its sockets are gone.       *)
Ended ==
  /\ phase' = "gone" /\ key' = None
  /\ age' = 0 /\ idle' = 0 /\ timer' = 0 /\ busy' = 0
  /\ queue' = <<>> /\ conn' = None /\ op' = None
  /\ client' = [c \in Clients |-> None]

(* send_response and close_channel: if the client has closed its end, the  *)
(* send raises SIGPIPE, which the agent neither blocks nor ignores.        *)
Respond(next) ==
  IF client[conn].there
    THEN /\ phase' = next
         /\ client' = [client EXCEPT ![conn] = None]
         /\ conn' = None
         /\ UNCHANGED queue
    ELSE Ended

Unlock ==
  /\ Begin("unlock")
  /\ Respond("serving")
  /\ client[conn].there => /\ key' = client[conn].key
                           /\ age' = 0 /\ idle' = 0
                           /\ UNCHANGED <<timer, busy, op>>

(* status, and requests that end in an error at once: a key of the wrong   *)
(* size, or no key for an operation that needs one.                        *)
Answered ==
  client[conn].there => UNCHANGED <<key, clocks, op>>

Status    == Begin("status") /\ Respond("serving") /\ Answered
UnlockBad == Begin("unlock_bad") /\ Respond("serving") /\ Answered
Expired   == Begin("data") /\ key = None /\ Respond("serving") /\ Answered

(* The key is wiped before the answer, and the loop ends after it.         *)
Lock ==
  /\ Begin("lock")
  /\ Respond("stopping")
  /\ client[conn].there => /\ key' = None /\ age' = 0 /\ idle' = 0
                           /\ UNCHANGED <<timer, busy, op>>

(* list, get, add, update, remove: the key is there, so the idle clock     *)
(* restarts, and the HTTP calls begin.                                     *)
DataBegin ==
  /\ Begin("data") /\ key # None
  /\ op' = [after |-> idle]
  /\ idle' = 0 /\ busy' = 0
  /\ UNCHANGED <<phase, key, age, timer, queue, conn, client>>

DataEnd ==
  /\ op # None
  /\ Respond("serving")
  /\ client[conn].there => /\ op' = None /\ busy' = 0
                           /\ UNCHANGED <<key, age, idle, timer>>

(* After the loop: the listener is closed, the key wiped, the watchdog     *)
(* joined.                                                                 *)
Shutdown == phase = "stopping" /\ Ended

(* ensure_running has started another agent.                               *)
Start ==
  /\ phase = "gone"
  /\ phase' = "serving"
  /\ UNCHANGED <<key, clocks, queue, conn, op, client>>
-----------------------------------------------------------------------------
(* The watchdog, and the passage of time.                                  *)

(* Mutants: the absolute timeout is forgotten; both have to be exceeded.   *)
TimedOutIdle == idle > Idle
TimedOutBoth == idle > Idle /\ age > Absolute

TimedOut == idle > Idle \/ age > Absolute

Watchdog ==
  /\ phase # "gone" /\ op = None /\ timer >= Period
  /\ timer' = 0
  /\ IF key # None /\ TimedOut
       THEN key' = None /\ age' = 0 /\ idle' = 0
       ELSE UNCHANGED <<key, age, idle>>
  /\ UNCHANGED <<phase, busy, queue, conn, op, client>>

(* Mutant: the HTTP calls of a request have no timeout.                    *)
TickUnbounded ==
  /\ phase # "gone"
  /\ IF op = None THEN timer < Period /\ UNCHANGED busy ELSE busy' = busy + 1
  /\ timer' = timer + 1
  /\ IF key = None THEN UNCHANGED <<age, idle>>
                   ELSE age' = Later(age) /\ idle' = Later(idle)
  /\ UNCHANGED <<phase, key, queue, conn, op, client>>

Tick ==
  /\ phase # "gone"
  /\ IF op = None THEN timer < Period /\ UNCHANGED busy
                  ELSE busy < MaxOp /\ busy' = busy + 1
  /\ timer' = timer + 1
  /\ IF key = None THEN UNCHANGED <<age, idle>>
                   ELSE age' = Later(age) /\ idle' = Later(idle)
  /\ UNCHANGED <<phase, key, queue, conn, op, client>>
-----------------------------------------------------------------------------
Serve == \/ Accept \/ ReadFails \/ Unlock \/ UnlockBad \/ Status \/ Expired
         \/ Lock \/ DataBegin \/ DataEnd \/ Shutdown

Next ==
  \/ \E c \in Clients, what \in {"unlock", "unlock_bad", "status", "lock", "data"},
        k \in Keys : Connect(c, what, k)
  \/ \E c \in Clients : Send(c) \/ Quit(c)
  \/ Serve \/ Start \/ Watchdog \/ Tick

(* The accept loop runs, HTTP calls end by their timeout, and a client that *)
(* has connected sends its frame or dies.  Requests that follow each other *)
(* without a pause keep neither the watchdog from the mutex nor time from   *)
(* passing, although each of them disables Watchdog and Tick for a while.   *)
Fairness ==
  /\ WF_vars(Serve) /\ SF_vars(Watchdog) /\ SF_vars(Tick)
  /\ \A c \in Clients : WF_vars(Send(c))

Spec == Init /\ [][Next]_vars
FairSpec == Spec /\ Fairness
-----------------------------------------------------------------------------
TypeOK ==
  /\ phase \in {"serving", "stopping", "gone"}
  /\ key \in Keys \cup {None}
  /\ age \in 0 .. Cap /\ idle \in 0 .. Cap
  /\ timer \in 0 .. Period + MaxOp /\ busy \in 0 .. MaxOp
  /\ queue \in Seq(Clients) /\ conn \in Clients \cup {None}
  /\ op \in DataOp \cup {None}
  /\ client \in [Clients -> Ask \cup {None}]

(* The watchdog looks only now and then and waits for the request that has *)
(* the mutex, but it does bound the life of the key: without a new unlock  *)
(* the key is out of memory at most one period and one request after the   *)
(* absolute timeout (agent.cpp:441-451).                                   *)
AbsoluteTimeout == key # None => age <= Absolute + Period + MaxOp

(* The same for the idle timeout: that long after its last use at latest.  *)
IdleTimeout == key # None => idle <= Idle + Period + MaxOp

(* "The local unlock agent deliberately retains the Vault Key until        *)
(* idle/absolute timeout" (docs/CRYPTOGRAPHY.md:31): no operation uses a   *)
(* key that had been idle for longer than the timeout.                     *)
UsedInTime == op # None => op.after <= Idle

(* However clients use the agent, an unlocked key does not stay: it is     *)
(* wiped, or replaced by another unlock.                                   *)
UnlockEnds == key # None ~> (key = None \/ age = 0)

(* Nobody waits for the single-threaded agent forever: each connection     *)
(* gets its answer, or ends with the agent that should have answered it.   *)
ConnectionEnds == \A c \in Clients : client[c] # None ~> client[c] = None
=============================================================================
