------------------------------- MODULE Gui_proofs -------------------------------
(***************************************************************************)
(* For any number of accounts and clicks: the state of the GUI keeps its   *)
(* types, the list of records does not outlive the session, and a sync     *)
(* shows only what was true since it began.                                *)
(*                                                                         *)
(* The argument is about what a job may rely on.  While a sync is not      *)
(* stale no operation has run beside it, so the view is still the one it   *)
(* began with, and everything it has read is among what has been seen.     *)
(***************************************************************************)
EXTENDS Gui, TLAPS

(* Jobs.  A sync, a start and a switch stay on places that lead to what    *)
(* SyncApply and ApplyStartup know.                                        *)
JobSet == [kind : Kinds, at : Places, arg : Maybe, who : Maybe, result : Results,
           needs : BOOLEAN, full : BOOLEAN, records : BOOLEAN]

Starting == {"load", "meta", "status", "list", "lockStart", "clear", "lockExpired", "lock"}
Shown == {"login", "setup", "locked", "open"}

JobSound(w, j) ==
  /\ w = "sync" => j = NoJob \/ j.kind = "sync"
  /\ w = "op" => j = NoJob \/ j.kind \notin {"none", "sync"}
  /\ j.full => j.kind = "sync"
  /\ j.kind = "sync" =>
       /\ j.at \in Starting \cup {"lockMissing", "done"}
       /\ j.at = "done" => j.result \in Shown \cup {"error"}
  /\ j.kind \in {"start", "switch"} =>
       /\ j.at \in Starting \cup {"activate", "done"}
       /\ j.at = "done" => j.result \in Shown \cup {"error", "expired"}
  /\ j.kind = "initialize" /\ j.at = "post" => j.who # None

JobsSound ==
  /\ job \in [Workers -> JobSet]
  /\ \A w \in Workers : JobSound(w, job[w])

(* A sync that began before an operation is stale while that runs; a       *)
(* logout finds the list emptied; a refresh finds no login screen, unless  *)
(* an account is being added.                                              *)
OpSound ==
  /\ Busy /\ Syncing => stale
  /\ job["op"].kind = "logout" => shown = None
  /\ job["op"].kind \in {"refresh", "write"} /\ screen = "login" => adding

(* What a sync that will be applied has read since it began.               *)
ReadSince(j) ==
  LET bound == j.who # None /\ j.who \in seen.session /\ (~ j.full => j.who = j.arg)
  IN  /\ j.arg = user
      /\ j.at \in {"meta", "status", "list", "lockStart", "lockMissing"} => bound
      /\ j.at = "list" => TRUE \in seen.open
      /\ j.at = "lockExpired" => None \in seen.session
      /\ j.at = "done" =>
           /\ j.result = "login" => None \in seen.session
           /\ j.result \in {"setup", "locked", "open"} => bound
           /\ j.result = "locked" => FALSE \in seen.open
           /\ j.result = "open" => TRUE \in seen.open

SyncSound == Syncing /\ ~ stale => ReadSince(job["sync"])

GuiInv == TypeOK /\ JobsSound /\ OpSound /\ SyncSound /\ RecordsGone

(* A worker takes its job one place further, or ends it.                   *)
JobNext(w) ==
  /\ job[w] # NoJob
  /\ \E j \in JobSet : /\ JobSound(w, j) /\ j.kind = job[w].kind /\ j.arg = job[w].arg
                       /\ job' = [job EXCEPT ![w] = j]

LEMMA NoJobSound == NoJob \in JobSet /\ \A w \in Workers : JobSound(w, NoJob)
BY DEF NoJob, Job, JobSet, Kinds, Places, Results, Maybe, JobSound

LEMMA JobMoved ==
  ASSUME NEW j \in JobSet, NEW place \in Places
  PROVE  /\ [j EXCEPT !.at = place] \in JobSet
         /\ [j EXCEPT !.at = place, !.full = TRUE] \in JobSet
         /\ [j EXCEPT !.at = place, !.full = FALSE] \in JobSet
BY DEF JobSet

LEMMA JobEnded ==
  ASSUME NEW j \in JobSet, NEW place \in Places, NEW result \in Results
  PROVE  /\ [j EXCEPT !.at = place, !.result = result] \in JobSet
         /\ [j EXCEPT !.at = place, !.result = result, !.records = TRUE] \in JobSet
BY DEF JobSet

LEMMA JobLoaded ==
  ASSUME NEW j \in JobSet, NEW place \in Places, NEW who \in Maybe
  PROVE  [j EXCEPT !.who = who, !.at = place] \in JobSet
BY DEF JobSet

LEMMA JobFields ==
  ASSUME JobsSound, NEW w \in Workers
  PROVE  /\ job[w] \in JobSet /\ JobSound(w, job[w])
         /\ job[w].kind \in Kinds /\ job[w].at \in Places /\ job[w].who \in Maybe
         /\ job[w].arg \in Maybe /\ job[w].result \in Results
         /\ job[w].full \in BOOLEAN /\ job[w].needs \in BOOLEAN /\ job[w].records \in BOOLEAN
         /\ job[w] # NoJob => job[w].kind # "none" /\ (w = "sync" <=> job[w].kind = "sync")
         /\ job[w].kind = "sync" => w = "sync"
<1>1. job[w] \in JobSet /\ JobSound(w, job[w])
  BY DEF JobsSound
<1>2. /\ job[w].kind \in Kinds /\ job[w].at \in Places /\ job[w].who \in Maybe
      /\ job[w].arg \in Maybe /\ job[w].result \in Results
      /\ job[w].full \in BOOLEAN /\ job[w].needs \in BOOLEAN /\ job[w].records \in BOOLEAN
  BY <1>1 DEF JobSet
<1>3. NoJob.kind = "none"
  BY DEF NoJob, Job
<1>4. CASE w = "sync"
  BY <1>1, <1>2, <1>3, <1>4 DEF JobSound
<1>5. CASE w = "op"
  BY <1>1, <1>2, <1>3, <1>5 DEF JobSound
<1> QED
  BY <1>4, <1>5 DEF Workers

LEMMA NextJob ==
  ASSUME JobsSound, NEW w \in Workers, job[w] # NoJob, NEW j \in JobSet,
         job' = [job EXCEPT ![w] = j],
         j.kind = job[w].kind, j.arg = job[w].arg,
         j.full => job[w].kind = "sync",
         j.kind = "sync" =>
           /\ j.at \in Starting \cup {"lockMissing", "done"}
           /\ j.at = "done" => j.result \in Shown \cup {"error"},
         j.kind \in {"start", "switch"} =>
           /\ j.at \in Starting \cup {"activate", "done"}
           /\ j.at = "done" => j.result \in Shown \cup {"error", "expired"},
         j.kind = "initialize" /\ j.at = "post" => j.who # None
  PROVE  JobNext(w)
<1>1. JobSound(w, j)
  BY JobFields DEF JobSound, Workers
<1> QED
  BY <1>1 DEF JobNext

LEMMA MoveJob ==
  ASSUME JobsSound, NEW w \in Workers, job[w] # NoJob,
         NEW place \in Places \ {"done", "post"},
         Move(w, place),
         job[w].kind = "sync" => place \in Starting \cup {"lockMissing"},
         job[w].kind \in {"start", "switch"} => place \in Starting \cup {"activate"}
  PROVE  JobNext(w)
<1> DEFINE j == [job[w] EXCEPT !.at = place]
<1>1. job[w] \in JobSet /\ (job[w].full => job[w].kind = "sync")
  BY JobFields DEF JobSound
<1>2. j \in JobSet
  BY <1>1, JobMoved
<1>3. j.kind = job[w].kind /\ j.arg = job[w].arg /\ j.at = place /\ j.full = job[w].full
  BY <1>1 DEF JobSet
<1>4. job' = [job EXCEPT ![w] = j]
  BY DEF Move
<1> HIDE DEF j
<1> QED
  BY <1>1, <1>2, <1>3, <1>4, NextJob

LEMMA EndJob ==
  ASSUME JobsSound, NEW w \in Workers, job[w] # NoJob, NEW result \in Results,
         End(w, result),
         job[w].kind = "sync" => result \in Shown \cup {"error"},
         job[w].kind \in {"start", "switch"} => result \in Shown \cup {"error", "expired"}
  PROVE  JobNext(w)
<1> DEFINE j == [job[w] EXCEPT !.at = "done", !.result = result]
<1>1. job[w] \in JobSet /\ "done" \in Places /\ (job[w].full => job[w].kind = "sync")
  BY JobFields DEF Places, JobSound
<1>2. j \in JobSet
  BY <1>1, JobEnded
<1>3. /\ j.kind = job[w].kind /\ j.arg = job[w].arg /\ j.at = "done"
      /\ j.full = job[w].full /\ j.result = result
  BY <1>1 DEF JobSet
<1>4. job' = [job EXCEPT ![w] = j]
  BY DEF End
<1> HIDE DEF j
<1> QED
  BY <1>1, <1>2, <1>3, <1>4, NextJob

(* What a worker at a place may be doing.                                  *)
LEMMA PlaceKinds ==
  ASSUME JobsSound, NEW w \in Workers, job[w] # NoJob
  PROVE  /\ job[w].at \in {"post", "fetch", "deliver", "agent", "call"} =>
              job[w].kind \notin {"sync", "start", "switch"}
         /\ job[w].at = "lockMissing" => job[w].kind \notin {"start", "switch"}
         /\ job[w].at = "activate" => job[w].kind # "sync"
         /\ job[w].kind = "sync" => w = "sync"
BY JobFields DEF JobSound, Starting

LEMMA LoadJob ==
  ASSUME JobsSound, TypeOK, NEW w \in Workers, LoadSession(w)
  PROVE  JobNext(w)
<1> USE DEF Places, Results, Starting, Shown
<1>1. job[w] # NoJob
  BY DEF LoadSession, At
<1>2. CASE session = None
  <2>1. CASE Snapshot(w) \/ job[w].kind = "sync"
    BY <1>1, <1>2, <2>1, EndJob DEF LoadSession
  <2>2. CASE ~ (Snapshot(w) \/ job[w].kind = "sync")
    <3>1. Move(w, "clear")
      BY <1>2, <2>2 DEF LoadSession
    <3> QED
      BY <1>1, <3>1, MoveJob
  <2> QED
    BY <2>1, <2>2
<1>3. CASE session # None
  <2> DEFINE j == [job[w] EXCEPT !.who = session, !.at = AfterLoad(w)]
  <2>1. job' = [job EXCEPT ![w] = j]
    BY <1>3 DEF LoadSession
  <2>2. /\ AfterLoad(w) \in Places \ {"done"}
        /\ job[w].kind = "sync" => AfterLoad(w) \in {"meta", "lock"}
        /\ job[w].kind \in {"start", "switch"} => AfterLoad(w) = "meta"
    BY JobFields DEF AfterLoad, Snapshot, JobSound
  <2>3. session \in Maybe
    BY DEF TypeOK
  <2>4. job[w] \in JobSet /\ j \in JobSet
    BY <2>2, <2>3, JobFields, JobLoaded
  <2>5. j.kind = job[w].kind /\ j.arg = job[w].arg /\ j.at = AfterLoad(w)
        /\ j.full = job[w].full /\ j.who # None
    BY <1>3, <2>4 DEF JobSet
  <2>6. job[w].full => job[w].kind = "sync"
    BY JobFields DEF JobSound
  <2> HIDE DEF j
  <2> QED
    BY <1>1, <2>1, <2>2, <2>4, <2>5, <2>6, NextJob
<1> QED
  BY <1>2, <1>3

LEMMA WorkerJob ==
  ASSUME JobsSound, TypeOK, NEW w \in Workers, WorkerStep(w)
  PROVE  JobNext(w)
<1> USE DEF Places, Results, Starting, Shown
<1>1. CASE LoadSession(w)
  BY <1>1, LoadJob
<1>2. CASE Metadata(w)
  <2>1. job[w] # NoJob
    BY <1>2 DEF Metadata, At
  <2>2. CASE Move(w, "status") \/ Move(w, "lockStart")
    BY <2>1, <2>2, MoveJob
  <2>3. CASE End(w, "setup")
    BY <2>1, <2>3, EndJob
  <2>4. CASE Move(w, "lockMissing") /\ ~ Snapshot(w)
    BY <2>1, <2>4, MoveJob DEF Snapshot
  <2> QED
    BY <1>2, <2>2, <2>3, <2>4 DEF Metadata
<1>3. CASE Status(w)
  <2>1. job[w] # NoJob
    BY <1>3 DEF Status, At
  <2>2. CASE End(w, "locked")
    BY <2>1, <2>2, EndJob
  <2>3. CASE Move(w, "list")
    BY <2>1, <2>3, MoveJob
  <2> QED
    BY <1>3, <2>2, <2>3 DEF Status
<1>4. CASE List(w)
  <2>1. job[w] # NoJob
    BY <1>4 DEF List, At
  <2>2. CASE job' = [job EXCEPT ![w] =
                       [@ EXCEPT !.at = "done", !.result = "open", !.records = TRUE]]
    <3> DEFINE j == [job[w] EXCEPT !.at = "done", !.result = "open", !.records = TRUE]
    <3>1. job[w] \in JobSet /\ "done" \in Places /\ "open" \in Results
      BY JobFields
    <3>2. j \in JobSet
      BY <3>1, JobEnded
    <3>3. /\ j.kind = job[w].kind /\ j.arg = job[w].arg /\ j.at = "done"
          /\ j.full = job[w].full /\ j.result = "open"
      BY <3>1 DEF JobSet
    <3>4. job' = [job EXCEPT ![w] = j]
      BY <2>2
    <3>5. job[w].full => job[w].kind = "sync"
      BY JobFields DEF JobSound
    <3> HIDE DEF j
    <3> QED
      BY <2>1, <3>2, <3>3, <3>4, <3>5, NextJob
  <2>3. CASE End(w, "error")
    BY <2>1, <2>3, EndJob
  <2>4. CASE End(w, "open")
    BY <2>1, <2>4, EndJob
  <2> QED
    BY <1>4, <2>2, <2>3, <2>4 DEF List
<1>5. CASE LockAgent(w)
  <2>1. job[w] # NoJob
    BY <1>5 DEF LockAgent, At
  <2>2. CASE Move(w, "status") \/ Move(w, "clear")
    BY <2>1, <2>2, MoveJob
  <2>3. CASE Move(w, "activate") /\ job[w].kind = "switch"
    BY <2>1, <2>3, MoveJob
  <2>4. CASE End(w, "setup")
    BY <2>1, <2>4, EndJob
  <2>5. CASE End(w, IF job[w].kind = "sync" THEN "login" ELSE "expired")
    <3>1. CASE job[w].kind = "sync"
      BY <2>1, <2>5, <3>1, EndJob
    <3>2. CASE job[w].kind # "sync"
      BY <2>1, <2>5, <3>2, EndJob
    <3> QED
      BY <3>1, <3>2
  <2>6. CASE End(w, "ok") /\ job[w].kind \in {"lock", "authenticate", "passwd"}
    BY <2>1, <2>6, EndJob
  <2>7. CASE /\ job[w].kind = "sync"
             /\ job' = [job EXCEPT ![w] = [@ EXCEPT !.at = "load", !.full = TRUE]]
    <3> DEFINE j == [job[w] EXCEPT !.at = "load", !.full = TRUE]
    <3>1. job[w] \in JobSet /\ "load" \in Places
      BY JobFields
    <3>2. j \in JobSet
      BY <3>1, JobMoved
    <3>3. /\ j.kind = job[w].kind /\ j.arg = job[w].arg /\ j.at = "load" /\ j.full = TRUE
      BY <3>1 DEF JobSet
    <3>4. job' = [job EXCEPT ![w] = j] /\ job[w].kind = "sync"
      BY <2>7
    <3> HIDE DEF j
    <3> QED
      BY <2>1, <3>2, <3>3, <3>4, NextJob
  <2> QED
    BY <1>5, <2>2, <2>3, <2>4, <2>5, <2>6, <2>7 DEF LockAgent
<1>6. CASE ClearSession(w)
  <2>1. job[w] # NoJob
    BY <1>6 DEF ClearSession, At
  <2>2. CASE End(w, "ok") /\ job[w].kind = "logout"
    BY <2>1, <2>2, EndJob
  <2>3. CASE job' = [job EXCEPT ![w] = [@ EXCEPT !.at = "lockExpired", !.full = FALSE]]
    <3> DEFINE j == [job[w] EXCEPT !.at = "lockExpired", !.full = FALSE]
    <3>1. job[w] \in JobSet /\ "lockExpired" \in Places
      BY JobFields
    <3>2. j \in JobSet
      BY <3>1, JobMoved
    <3>3. /\ j.kind = job[w].kind /\ j.arg = job[w].arg /\ j.at = "lockExpired" /\ j.full = FALSE
      BY <3>1 DEF JobSet
    <3>4. job' = [job EXCEPT ![w] = j]
      BY <2>3
    <3> HIDE DEF j
    <3> QED
      BY <2>1, <3>2, <3>3, <3>4, NextJob
  <2> QED
    BY <1>6, <2>2, <2>3 DEF ClearSession
<1>7. CASE Activate(w)
  <2>1. job[w] # NoJob
    BY <1>7 DEF Activate, At
  <2>2. CASE Move(w, "load")
    BY <2>1, <2>2, MoveJob
  <2>3. CASE End(w, "error")
    BY <2>1, <2>3, EndJob
  <2> QED
    BY <1>7, <2>2, <2>3 DEF Activate
<1>8. CASE Authenticate(w)
  <2>1. job[w] # NoJob
    BY <1>8 DEF Authenticate, At
  <2>2. CASE Move(w, "lock") \/ Move(w, "clear")
    BY <2>1, <2>2, MoveJob
  <2> QED
    BY <1>8, <2>2 DEF Authenticate
<1>9. CASE PostVault(w)
  <2>1. job[w] # NoJob /\ job[w].kind = "initialize"
    BY <1>9 DEF PostVault, At
  <2>2. CASE Move(w, "deliver")
    BY <2>1, <2>2, MoveJob
  <2>3. CASE End(w, "locked")
    BY <2>1, <2>3, EndJob
  <2> QED
    BY <1>9, <2>2, <2>3 DEF PostVault
<1>10. CASE FetchKey(w)
  <2>1. job[w] # NoJob /\ job[w].at = "fetch"
    BY <1>10 DEF FetchKey, At
  <2>2. job[w].kind \notin {"sync", "start", "switch"}
    BY <2>1, PlaceKinds
  <2>3. CASE Move(w, "deliver")
    BY <2>1, <2>2, <2>3, MoveJob
  <2>4. CASE End(w, "setup") \/ End(w, "error")
    BY <2>1, <2>4, EndJob
  <2> QED
    BY <1>10, <2>3, <2>4 DEF FetchKey
<1>11. CASE Deliver(w)
  <2>1. job[w] # NoJob /\ job[w].at = "deliver" /\ End(w, "ok")
    BY <1>11 DEF Deliver, At
  <2> QED
    BY <2>1, PlaceKinds, EndJob
<1>12. CASE AgentOperation(w)
  <2>1. job[w] # NoJob /\ job[w].at = "agent"
    BY <1>12 DEF AgentOperation, At
  <2>2. CASE End(w, "ok")
    BY <2>1, <2>2, PlaceKinds, EndJob
  <2>3. CASE End(w, "error")
    BY <2>1, <2>3, EndJob
  <2> QED
    BY <1>12, <2>2, <2>3 DEF AgentOperation
<1>13. CASE OtherCall(w)
  <2>1. job[w] # NoJob /\ job[w].at = "call"
    BY <1>13 DEF OtherCall, At
  <2>2. CASE Move(w, "lock")
    BY <2>1, <2>2, MoveJob
  <2>3. CASE End(w, "ok")
    BY <2>1, <2>3, PlaceKinds, EndJob
  <2>4. CASE End(w, "error")
    BY <2>1, <2>4, EndJob
  <2> QED
    BY <1>13, <2>2, <2>3, <2>4 DEF OtherCall
<1> QED
  BY <1>1, <1>2, <1>3, <1>4, <1>5, <1>6, <1>7, <1>8, <1>9, <1>10, <1>11, <1>12, <1>13
  DEF WorkerStep

LEMMA TroubleJob ==
  ASSUME JobsSound, TypeOK, NEW w \in Workers, Trouble(w)
  PROVE  JobNext(w)
<1> USE DEF Places, Results, Starting, Shown
<1>1. job[w] # NoJob
  BY DEF Trouble, At, NoJob, Job
<1>2. CASE At(w, "deliver") /\ job[w].kind = "initialize"
  <2>1. End(w, "locked")
    BY <1>2 DEF Trouble, At
  <2> QED
    BY <1>1, <1>2, <2>1, EndJob
<1>3. CASE At(w, "lockExpired") /\ w = "op"
  <2>1. End(w, "expired")
    BY <1>3 DEF Trouble, At
  <2>2. job[w].kind # "sync"
    BY <1>3, <1>1, JobFields
  <2> QED
    BY <1>1, <2>1, <2>2, EndJob
<1>4. CASE /\ ~ (At(w, "deliver") /\ job[w].kind = "initialize")
           /\ ~ (At(w, "lockExpired") /\ w = "op")
  <2>1. End(w, "error")
    BY <1>4 DEF Trouble
  <2> QED
    BY <1>1, <2>1, EndJob
<1> QED
  BY <1>2, <1>3, <1>4

LEMMA ExpiresJob ==
  ASSUME JobsSound, TypeOK, NEW w \in Workers, TokenExpires(w)
  PROVE  JobNext(w)
<1> USE DEF Places, Starting
<1>1. job[w] # NoJob
  BY DEF TokenExpires, At, NoJob, Job
<1>2. Move(w, "clear")
  BY DEF TokenExpires
<1> QED
  BY <1>1, <1>2, MoveJob

-----------------------------------------------------------------------------
(* Jobs stay sound.                                                        *)
LEMMA JobNextSound ==
  ASSUME JobsSound, NEW w \in Workers, JobNext(w)
  PROVE  /\ JobsSound' /\ (Busy' <=> Busy) /\ (Syncing' <=> Syncing)
         /\ \A v \in Workers : job'[v].kind = job[v].kind /\ job'[v].arg = job[v].arg
         /\ \A v \in Workers : v # w => job'[v] = job[v]
<1>1. PICK j \in JobSet : /\ JobSound(w, j) /\ j.kind = job[w].kind /\ j.arg = job[w].arg
                          /\ job' = [job EXCEPT ![w] = j] /\ job[w] # NoJob
  BY DEF JobNext
<1>2. j # NoJob
  <2>1. j.kind # "none"
    BY <1>1, JobFields
  <2> QED
    BY <2>1 DEF NoJob, Job
<1>3. job' \in [Workers -> JobSet] /\ job'[w] = j /\ \A v \in Workers : v # w => job'[v] = job[v]
  BY <1>1 DEF JobsSound
<1>4. JobsSound'
  <2> SUFFICES ASSUME NEW v \in Workers PROVE JobSound(v, job'[v])
    BY <1>3 DEF JobsSound, JobSound
  <2>1. CASE v = w
    BY <1>1, <1>3, <2>1
  <2>2. CASE v # w
    BY <1>3, <2>2 DEF JobsSound
  <2> QED
    BY <2>1, <2>2
<1>5. \A v \in Workers : job'[v] = NoJob <=> job[v] = NoJob
  BY <1>1, <1>2, <1>3
<1>6. (Busy' <=> Busy) /\ (Syncing' <=> Syncing)
  BY <1>5 DEF Busy, Syncing, Workers
<1> QED
  BY <1>1, <1>3, <1>4, <1>6

LEMMA RestJob ==
  ASSUME JobsSound, Rest
  PROVE  JobsSound' /\ ~ Busy' /\ (Syncing' <=> Syncing) /\ job'["op"] = NoJob
         /\ job'["sync"] = job["sync"] /\ stale' = stale
<1>1. job' \in [Workers -> JobSet] /\ job'["op"] = NoJob /\ job'["sync"] = job["sync"]
  BY NoJobSound DEF JobsSound, Rest, Workers
<1>2. JobsSound'
  BY <1>1, NoJobSound DEF JobsSound, JobSound, Workers
<1> QED
  BY <1>1, <1>2 DEF Busy, Syncing, Rest

LEMMA DispatchJob ==
  ASSUME JobsSound, NEW kind \in Kinds \ {"none", "sync"}, NEW at \in Places \ {"done"},
         NEW arg \in Maybe, kind \in {"start", "switch"} => at \in Starting,
         kind = "initialize" => at # "post",
         Dispatch(kind, at, arg)
  PROVE  JobsSound' /\ Busy' /\ (Syncing' <=> Syncing) /\ job'["op"].kind = kind
         /\ job'["sync"] = job["sync"] /\ stale' = Syncing
<1> DEFINE j == Job(kind, at, arg)
<1>1. j \in JobSet
  BY DEF Job, JobSet, Maybe, Results
<1>2. j.kind = kind /\ j.at = at /\ j.full = FALSE
  BY DEF Job
<1>3. j # NoJob
  BY <1>2 DEF NoJob, Job
<1>4. job' = [job EXCEPT !["op"] = j] /\ stale' = Syncing
  BY DEF Dispatch
<1> HIDE DEF j
<1>5. job' \in [Workers -> JobSet] /\ job'["op"] = j /\ job'["sync"] = job["sync"]
  BY <1>1, <1>4 DEF JobsSound, Workers
<1>6. JobSound("op", j)
  BY <1>2 DEF JobSound
<1>7. JobsSound'
  BY <1>5, <1>6 DEF JobsSound, JobSound, Workers
<1> QED
  BY <1>2, <1>3, <1>4, <1>5, <1>7 DEF Busy, Syncing

LEMMA SyncStartJob ==
  ASSUME JobsSound, TypeOK, SyncStart
  PROVE  /\ JobsSound' /\ ~ Busy' /\ Syncing' /\ job'["op"] = job["op"] /\ stale' = FALSE
         /\ job'["sync"].at = "load" /\ job'["sync"].arg = user
<1> DEFINE j == [Job("sync", "load", user) EXCEPT !.needs = (screen # "app")]
<1>1. j \in JobSet
  BY DEF Job, JobSet, Maybe, Results, Kinds, Places, TypeOK
<1>2. j.kind = "sync" /\ j.at = "load" /\ j.full = FALSE /\ j.arg = user
  BY DEF Job
<1>3. j # NoJob
  BY <1>2 DEF NoJob, Job
<1>4. job' = [job EXCEPT !["sync"] = j] /\ stale' = FALSE /\ ~ Busy
  BY DEF SyncStart
<1> HIDE DEF j
<1>5. job' \in [Workers -> JobSet] /\ job'["sync"] = j /\ job'["op"] = job["op"]
  BY <1>1, <1>4 DEF JobsSound, Workers
<1>6. JobSound("sync", j)
  BY <1>2 DEF JobSound, Starting
<1>7. JobsSound'
  BY <1>5, <1>6 DEF JobsSound, JobSound, Workers
<1> QED
  BY <1>2, <1>3, <1>4, <1>5, <1>7 DEF Busy, Syncing

LEMMA SyncEndJob ==
  ASSUME JobsSound, SyncEnd
  PROVE  JobsSound' /\ ~ Syncing' /\ job'["op"] = job["op"] /\ stale' = FALSE
<1>1. job' \in [Workers -> JobSet] /\ job'["sync"] = NoJob /\ job'["op"] = job["op"]
  BY NoJobSound DEF JobsSound, SyncEnd, Workers
<1>2. JobsSound'
  BY <1>1, NoJobSound DEF JobsSound, JobSound, Workers
<1> QED
  BY <1>1, <1>2 DEF Syncing, SyncEnd

-----------------------------------------------------------------------------
(* What the thread of the view does.                                       *)
USE DEF reveal, HideSensitive

ViewOK ==
  /\ screen \in Screens /\ user \in Maybe /\ shown \in Maybe
  /\ unlocked \in BOOLEAN /\ revealed \in BOOLEAN /\ timer \in BOOLEAN /\ adding \in BOOLEAN
  /\ synced \in BOOLEAN /\ stale \in BOOLEAN

ViewSound == JobsSound /\ ViewOK /\ OpSound /\ RecordsGone

(* What an operation of the view does to the workers.                      *)
Beside ==
  /\ Syncing' <=> Syncing
  /\ job'["sync"] = job["sync"]
  /\ Syncing => stale'

LEMMA RestKeeps ==
  ASSUME ViewSound, Rest, Busy
  PROVE  JobsSound' /\ OpSound' /\ Beside /\ stale' \in BOOLEAN
<1>1. /\ JobsSound' /\ ~ Busy' /\ (Syncing' <=> Syncing) /\ job'["op"] = NoJob
      /\ job'["sync"] = job["sync"] /\ stale' = stale
  BY RestJob DEF ViewSound
<1>2. job'["op"].kind = "none"
  BY <1>1 DEF NoJob, Job
<1>3. OpSound'
  BY <1>1, <1>2 DEF OpSound
<1> QED
  BY <1>1, <1>3 DEF Beside, ViewSound, OpSound, ViewOK

LEMMA DispatchKeeps ==
  ASSUME ViewSound, NEW kind \in Kinds \ {"none", "sync"}, NEW at \in Places \ {"done"},
         NEW arg \in Maybe, kind \in {"start", "switch"} => at \in Starting,
         kind = "initialize" => at # "post",
         Dispatch(kind, at, arg),
         kind = "logout" => shown' = None,
         kind \in {"refresh", "write"} /\ screen' = "login" => adding'
  PROVE  JobsSound' /\ OpSound' /\ Beside /\ stale' \in BOOLEAN
<1>1. /\ JobsSound' /\ Busy' /\ (Syncing' <=> Syncing) /\ job'["op"].kind = kind
      /\ job'["sync"] = job["sync"] /\ stale' = Syncing
  BY DispatchJob DEF ViewSound
<1>2. OpSound'
  BY <1>1 DEF OpSound
<1> QED
  BY <1>1, <1>2 DEF Beside, Syncing

(* A start shows what it has found.                                        *)
LEMMA StartupShows ==
  ASSUME ViewOK, NEW j \in JobSet, j.result \in Shown, ApplyStartup(j)
  PROVE  /\ screen' \in Screens /\ user' \in Maybe /\ shown' \in Maybe
         /\ unlocked' \in BOOLEAN /\ revealed' \in BOOLEAN /\ timer' \in BOOLEAN /\ synced' \in BOOLEAN
         /\ screen' = "login" => shown' = None
<1>1. j.who \in Maybe /\ None \in Maybe
  BY DEF JobSet, Maybe
<1>2. /\ screen' = CASE j.result = "locked" -> "unlock" [] j.result = "open" -> "app"
                     [] OTHER -> j.result
      /\ user' = IF j.result = "login" THEN None ELSE j.who
      /\ unlocked' = (j.result = "open")
      /\ shown' = IF j.result = "open" THEN j.who ELSE None
      /\ synced' = TRUE /\ reveal' = reveal
  BY DEF ApplyStartup, Shows
<1>3. screen' \in Screens /\ (screen' = "login" => j.result = "login")
  BY <1>2 DEF Shown, Screens
<1> QED
  BY <1>1, <1>2, <1>3 DEF ViewOK

LEMMA CompletionKeeps ==
  ASSUME ViewSound, Completion
  PROVE  ViewSound' /\ Beside /\ Busy
<1> USE DEF ViewOK, ViewSound
<1>1. Busy /\ job["op"].at = "done" /\ job["op"] \in JobSet /\ JobSound("op", job["op"])
  BY DEF Completion, FailOp, ExpireOp, StartOp, AuthenticateOp, UnlockOp, NotUnlockedOp, LockOp,
         LogoutOp, RefreshOp, WriteOp, RevealOp, ImportOp, PasswdOp, OtherOp, Succeeded,
         Completed, At, Busy, JobsSound, Workers
<1>2. None \in Maybe /\ job["op"].who \in Maybe
  BY <1>1 DEF Maybe, JobSet
<1>3. {"loading", "login", "setup", "unlock", "app"} = Screens
  BY DEF Screens
<1>4. CASE FailOp
  BY <1>1, <1>4, RestKeeps DEF FailOp, RecordsGone, view
<1>5. CASE ExpireOp
  BY <1>1, <1>2, <1>3, <1>5, RestKeeps DEF ExpireOp, Shows, RecordsGone
<1>6. CASE StartOp
  <2>1. job["op"].result \in Shown
    BY <1>1, <1>6 DEF StartOp, Succeeded, Completed, JobSound
  <2>2. /\ screen' \in Screens /\ user' \in Maybe /\ shown' \in Maybe
        /\ unlocked' \in BOOLEAN /\ revealed' \in BOOLEAN /\ timer' \in BOOLEAN /\ synced' \in BOOLEAN
        /\ screen' = "login" => shown' = None
    BY <1>1, <1>6, <2>1, StartupShows DEF StartOp
  <2>3. adding' \in BOOLEAN
    BY <1>6 DEF StartOp
  <2> QED
    BY <1>1, <1>6, <2>2, <2>3, RestKeeps DEF StartOp, RecordsGone
<1>7. CASE AuthenticateOp
  <2>1. /\ Dispatch("start", "load", None) /\ screen' = "loading" /\ adding' = FALSE
        /\ UNCHANGED <<user, unlocked, shown, reveal, synced>>
    BY <1>7 DEF AuthenticateOp
  <2>2. JobsSound' /\ OpSound' /\ Beside /\ stale' \in BOOLEAN
    BY <1>2, <2>1, DispatchKeeps DEF Kinds, Places, Starting
  <2> QED
    BY <1>1, <1>3, <2>1, <2>2 DEF RecordsGone
<1>8. CASE UnlockOp
  <2>1. /\ Dispatch("refresh", "load", None) /\ screen' = "app" /\ unlocked' = TRUE
        /\ user' = user /\ shown' = shown
        /\ UNCHANGED <<reveal, adding, synced>>
    BY <1>8 DEF UnlockOp, Shows
  <2>2. JobsSound' /\ OpSound' /\ Beside /\ stale' \in BOOLEAN
    BY <1>2, <2>1, DispatchKeeps DEF Kinds, Places
  <2> QED
    BY <1>1, <1>3, <2>1, <2>2 DEF RecordsGone
<1>9. CASE NotUnlockedOp
  BY <1>1, <1>2, <1>3, <1>9, RestKeeps DEF NotUnlockedOp, Shows, RecordsGone
<1>10. CASE LockOp
  BY <1>1, <1>2, <1>3, <1>10, RestKeeps DEF LockOp, Shows, RecordsGone
<1>11. CASE LogoutOp
  <2>1. shown = None
    BY <1>11 DEF LogoutOp, Succeeded, Completed, OpSound
  <2> QED
    BY <1>1, <1>2, <1>3, <1>11, <2>1, RestKeeps DEF LogoutOp, Shows, RecordsGone
<1>12. CASE RefreshOp
  <2>1. screen = "login" => adding
    BY <1>12 DEF RefreshOp, Succeeded, Completed, OpSound
  <2> QED
    BY <1>1, <1>2, <1>12, <2>1, RestKeeps DEF RefreshOp, RecordsGone
<1>13. CASE WriteOp
  <2>1. screen = "login" => adding
    BY <1>13 DEF WriteOp, Succeeded, Completed, OpSound
  <2>2. /\ Dispatch("refresh", "load", None) /\ (UNCHANGED reveal \/ HideSensitive)
        /\ UNCHANGED <<screen, user, unlocked, shown, adding, synced>>
    BY <1>13 DEF WriteOp
  <2>3. JobsSound' /\ OpSound' /\ Beside /\ stale' \in BOOLEAN
    BY <1>2, <2>1, <2>2, DispatchKeeps DEF Kinds, Places
  <2> QED
    BY <1>1, <2>2, <2>3 DEF RecordsGone
<1>14. CASE RevealOp
  BY <1>1, <1>14, RestKeeps DEF RevealOp, RecordsGone
<1>15. CASE ImportOp
  <2>1. /\ Dispatch("lock", "lock", None) /\ HideSensitive /\ shown' = None
        /\ UNCHANGED <<screen, user, unlocked, adding, synced>>
    BY <1>15 DEF ImportOp
  <2>2. JobsSound' /\ OpSound' /\ Beside /\ stale' \in BOOLEAN
    BY <1>2, <2>1, DispatchKeeps DEF Kinds, Places
  <2> QED
    BY <1>1, <1>2, <2>1, <2>2 DEF RecordsGone
<1>16. CASE PasswdOp
  BY <1>1, <1>2, <1>3, <1>16, RestKeeps DEF PasswdOp, Shows, RecordsGone
<1>17. CASE OtherOp
  BY <1>1, <1>17, RestKeeps DEF OtherOp, RecordsGone, view
<1> QED
  BY <1>4, <1>5, <1>6, <1>7, <1>8, <1>9, <1>10, <1>11, <1>12, <1>13, <1>14, <1>15, <1>16, <1>17
  DEF Completion

(* A click dispatches an operation or leaves the workers alone.            *)
Aside == user' = user /\ (Beside \/ (job' = job /\ stale' = stale))

LEMMA AsideKeeps ==
  ASSUME ViewSound, job' = job, stale' = stale,
         job["op"].kind = "logout" => shown' = None,
         job["op"].kind \in {"refresh", "write"} /\ screen' = "login" => adding'
  PROVE  JobsSound' /\ OpSound'
<1>1. JobsSound'
  BY DEF ViewSound, JobsSound, JobSound
<1>2. OpSound'
  BY DEF ViewSound, OpSound, Busy, Syncing
<1> QED
  BY <1>1, <1>2

LEMMA TryKeeps ==
  ASSUME ViewSound, NEW kind \in Kinds \ {"none", "sync"}, NEW at \in Places \ {"done"},
         NEW arg \in Maybe, kind \in {"start", "switch"} => at \in Starting,
         kind = "initialize" => at # "post",
         Try(kind, at, arg), kind \notin {"refresh", "write"},
         kind = "logout" \/ job["op"].kind = "logout" => shown' = None,
         job["op"].kind \in {"refresh", "write"} /\ screen' = "login" => adding'
  PROVE  JobsSound' /\ OpSound' /\ stale' \in BOOLEAN /\ (Beside \/ (job' = job /\ stale' = stale))
<1>1. CASE Busy
  BY <1>1, AsideKeeps DEF Try, ViewSound, ViewOK
<1>2. CASE ~ Busy
  <2>1. Dispatch(kind, at, arg)
    BY <1>2 DEF Try
  <2> QED
    BY <2>1, DispatchKeeps
<1> QED
  BY <1>1, <1>2

LEMMA OperateKeeps ==
  ASSUME ViewSound, NEW kind \in Kinds \ {"none", "sync", "refresh", "logout"},
         NEW at \in Places \ {"done"}, NEW arg \in Maybe, NEW on,
         kind = "start" => at \in Starting, kind # "switch", kind = "initialize" => at # "post",
         kind = "write" => on # "login",
         Operate(on, kind, at, arg)
  PROVE  ViewSound' /\ Aside
<1>1. Dispatch(kind, at, arg) /\ screen = on /\ UNCHANGED view
  BY DEF Operate
<1>2. JobsSound' /\ OpSound' /\ Beside /\ stale' \in BOOLEAN
  BY <1>1, DispatchKeeps DEF view
<1> QED
  BY <1>1, <1>2 DEF ViewSound, ViewOK, RecordsGone, Aside, view

LEMMA ClearAndTryKeeps ==
  ASSUME ViewSound, NEW kind \in {"lock", "logout", "switch"}, NEW arg \in Maybe,
         ClearAndTry(kind, arg)
  PROVE  ViewSound' /\ Aside
<1>1. /\ screen = "app" /\ shown' = None /\ HideSensitive /\ Try(kind, "lock", arg)
      /\ UNCHANGED <<screen, user, unlocked, adding, synced>>
  BY DEF ClearAndTry
<1>2. JobsSound' /\ OpSound' /\ stale' \in BOOLEAN /\ (Beside \/ (job' = job /\ stale' = stale))
  BY <1>1, TryKeeps DEF Kinds, Places, Starting
<1>3. None \in Maybe
  BY DEF Maybe
<1> QED
  BY <1>1, <1>2, <1>3 DEF ViewSound, ViewOK, RecordsGone, Aside

LEMMA AddAccountKeeps ==
  ASSUME ViewSound, AddAccount
  PROVE  ViewSound' /\ Aside
<1>1. /\ adding' = TRUE /\ screen' = "login" /\ shown' = None /\ HideSensitive
      /\ UNCHANGED <<user, unlocked, synced, job, stale>>
  BY DEF AddAccount
<1>2. JobsSound' /\ OpSound'
  BY <1>1, AsideKeeps
<1>3. None \in Maybe /\ "login" \in Screens
  BY DEF Maybe, Screens
<1> QED
  BY <1>1, <1>2, <1>3 DEF ViewSound, ViewOK, RecordsGone, Aside

LEMMA RevealSecretKeeps ==
  ASSUME ViewSound, RevealSecret
  PROVE  ViewSound' /\ Aside
<1>1. /\ screen = "app" /\ HideSensitive /\ Try("reveal", "load", None)
      /\ UNCHANGED <<screen, user, unlocked, shown, adding, synced>>
  BY DEF RevealSecret
<1>2. None \in Maybe
  BY DEF Maybe
<1>3. JobsSound' /\ OpSound' /\ stale' \in BOOLEAN /\ (Beside \/ (job' = job /\ stale' = stale))
  BY <1>1, <1>2, TryKeeps DEF Kinds, Places, ViewSound, OpSound
<1> QED
  BY <1>1, <1>3 DEF ViewSound, ViewOK, RecordsGone, Aside

LEMMA CancelKeeps ==
  ASSUME ViewSound, CancelAddAccount
  PROVE  ViewSound' /\ Aside
<1>1. /\ adding' = FALSE /\ screen' = "loading" /\ Try("start", "load", None)
      /\ UNCHANGED <<user, unlocked, shown, reveal, synced>>
  BY DEF CancelAddAccount
<1>2. None \in Maybe /\ "loading" \in Screens
  BY DEF Maybe, Screens
<1>3. JobsSound' /\ OpSound' /\ stale' \in BOOLEAN /\ (Beside \/ (job' = job /\ stale' = stale))
  BY <1>1, <1>2, TryKeeps DEF Kinds, Places, Starting, ViewSound, OpSound
<1> QED
  BY <1>1, <1>2, <1>3 DEF ViewSound, ViewOK, RecordsGone, Aside

LEMMA ClickKeeps ==
  ASSUME ViewSound, Click
  PROVE  ViewSound' /\ Aside
<1> USE DEF Kinds, Places
<1>1. None \in Maybe /\ Accounts \subseteq Maybe
  BY DEF Maybe
<1>2. CASE \E a \in Accounts : Operate("login", "authenticate", "post", a)
  BY <1>1, <1>2, OperateKeeps
<1>3. CASE Operate("setup", "initialize", "load", None)
  BY <1>1, <1>3, OperateKeeps
<1>4. CASE Operate("unlock", "unlock", "load", None)
  BY <1>1, <1>4, OperateKeeps
<1>5. CASE \E kind \in {"write", "import", "passwd", "other"} : Operate("app", kind, "load", None)
  <2>1. PICK kind \in {"write", "import", "passwd", "other"} : Operate("app", kind, "load", None)
    BY <1>5
  <2>2. kind \in Kinds \ {"none", "sync", "refresh", "logout"} /\ kind \notin {"start", "switch"}
    OBVIOUS
  <2> QED
    BY <1>1, <2>1, <2>2, OperateKeeps
<1>6. CASE \E kind \in {"lock", "logout"} : ClearAndTry(kind, None)
  BY <1>1, <1>6, ClearAndTryKeeps
<1>10. CASE Operate("app", "other", "call", None)
  BY <1>1, <1>10, OperateKeeps
<1>7. CASE \E a \in Accounts \ {user} : ClearAndTry("switch", a)
  BY <1>1, <1>7, ClearAndTryKeeps
<1>8. CASE AddAccount
  BY <1>8, AddAccountKeeps
<1>9. CASE RevealSecret
  BY <1>9, RevealSecretKeeps
<1> QED
  BY <1>2, <1>3, <1>4, <1>5, <1>6, <1>7, <1>8, <1>9, <1>10 DEF Click

LEMMA ReturnKeeps ==
  ASSUME ViewSound, Return
  PROVE  ViewSound' /\ Aside
<1>1. CASE Operate("loading", "start", "load", None)
  BY <1>1, OperateKeeps DEF Kinds, Places, Starting, Maybe
<1>2. CASE CancelAddAccount
  BY <1>2, CancelKeeps
<1> QED
  BY <1>1, <1>2 DEF Return

LEMMA HideKeeps ==
  ASSUME ViewSound, Hide \/ RevealTimeout
  PROVE  ViewSound' /\ Aside
<1>1. /\ HideSensitive
      /\ UNCHANGED <<screen, user, unlocked, shown, adding, synced, job, stale>>
  BY DEF RevealTimeout, Hide
<1>2. JobsSound' /\ OpSound'
  BY <1>1, AsideKeeps DEF ViewSound, OpSound
<1> QED
  BY <1>1, <1>2 DEF ViewSound, ViewOK, RecordsGone, Aside

LEMMA ElsewhereKeeps ==
  ASSUME ViewSound, Elsewhere
  PROVE  ViewSound' /\ Aside
<1>1. UNCHANGED <<view, job, stale>>
  BY DEF Elsewhere
<1>2. JobsSound' /\ OpSound'
  BY <1>1, AsideKeeps DEF ViewSound, OpSound, view
<1> QED
  BY <1>1, <1>2 DEF ViewSound, ViewOK, RecordsGone, Aside, view

LEMMA SyncStartKeeps ==
  ASSUME ViewSound, TypeOK, SyncStart
  PROVE  ViewSound'
<1>1. /\ JobsSound' /\ ~ Busy' /\ job'["op"] = job["op"] /\ stale' = FALSE
      /\ UNCHANGED view
  BY SyncStartJob DEF ViewSound, SyncStart
<1>2. OpSound'
  BY <1>1 DEF OpSound, ViewSound, view
<1> QED
  BY <1>1, <1>2 DEF ViewSound, ViewOK, RecordsGone, view

(* The result of a sync that is not dropped finds no operation under way.  *)
LEMMA SyncShows ==
  ASSUME ViewSound, SyncEnd, view' # view
  PROVE  /\ Syncing /\ ~ stale /\ ~ Busy /\ job["sync"].at = "done" /\ job["sync"].kind = "sync"
         /\ job["sync"] \in JobSet /\ job["sync"].result \in Shown
         /\ SyncApply(job["sync"]) /\ adding' = adding
<1>1. At("sync", "done") /\ ~ stale /\ job["sync"].result # "error"
      /\ SyncApply(job["sync"]) /\ adding' = adding
  BY DEF SyncEnd, SyncDone
<1>2. Syncing /\ job["sync"].at = "done"
  BY <1>1 DEF At, Syncing
<1>3. job["sync"] \in JobSet /\ JobSound("sync", job["sync"])
  BY DEF ViewSound, JobsSound, Workers
<1> QED
  BY <1>1, <1>2, <1>3 DEF JobSound, Shown, ViewSound, OpSound, Syncing

LEMMA SyncEndKeeps ==
  ASSUME ViewSound, SyncEnd
  PROVE  ViewSound'
<1> USE DEF ViewOK
<1>1. JobsSound' /\ ~ Syncing' /\ job'["op"] = job["op"] /\ stale' = FALSE
  BY SyncEndJob DEF ViewSound
<1>2. CASE UNCHANGED view
  <2>1. OpSound'
    BY <1>1, <1>2 DEF OpSound, ViewSound, view
  <2> QED
    BY <1>1, <1>2, <2>1 DEF ViewSound, RecordsGone, view
<1>3. CASE view' # view
  <2> DEFINE j == job["sync"]
  <2>1. /\ Syncing /\ ~ stale /\ ~ Busy /\ j \in JobSet /\ j.result \in Shown
        /\ SyncApply(j) /\ adding' = adding
    BY <1>3, SyncShows
  <2>2. job'["op"].kind = "none"
    BY <1>1, <2>1 DEF Busy, NoJob, Job
  <2>3. OpSound'
    BY <1>1, <2>2 DEF OpSound
  <2>4. j.who \in Maybe /\ None \in Maybe /\ j.full \in BOOLEAN /\ j.records \in BOOLEAN
    BY <2>1 DEF JobSet, Maybe
  <2> HIDE DEF j
  <2>5. /\ screen' \in Screens /\ user' \in Maybe /\ shown' \in Maybe
        /\ unlocked' \in BOOLEAN /\ revealed' \in BOOLEAN /\ timer' \in BOOLEAN /\ synced' \in BOOLEAN
        /\ screen' = "login" /\ ~ adding => shown' = None
    <3>1. CASE j.full
      <4>1. ApplyStartup(j)
        BY <2>1, <3>1 DEF SyncApply
      <4> QED
        BY <2>1, <4>1, StartupShows DEF ViewSound
    <3>2. CASE ~ j.full /\ j.result = "login"
      <4>1. IF user # None THEN Clears("login", None)
            ELSE UNCHANGED <<screen, user, unlocked, shown, reveal, synced>>
        BY <2>1, <3>2 DEF SyncApply
      <4> QED
        BY <2>4, <4>1 DEF Clears, Shows, ViewSound, RecordsGone, Screens
    <3>3. CASE ~ j.full /\ j.result = "setup"
      <4>1. Clears("setup", user)
        BY <2>1, <3>3 DEF SyncApply
      <4> QED
        BY <2>4, <4>1 DEF Clears, Shows, ViewSound, Screens
    <3>4. CASE ~ j.full /\ j.result = "locked"
      <4>1. IF unlocked THEN Clears("unlock", user)
            ELSE Shows("unlock", user, FALSE, shown) /\ UNCHANGED <<reveal, synced>>
        BY <2>1, <3>4 DEF SyncApply
      <4> QED
        BY <2>4, <4>1 DEF Clears, Shows, ViewSound, Screens
    <3>5. CASE ~ j.full /\ j.result = "open"
      <4>1. /\ Shows("app", user, TRUE, IF j.records THEN j.who ELSE shown)
            /\ UNCHANGED <<reveal, synced>>
        BY <2>1, <3>5 DEF SyncApply
      <4> QED
        BY <2>4, <4>1 DEF Shows, ViewSound, Screens
    <3> QED
      BY <2>1, <2>4, <3>1, <3>2, <3>3, <3>4, <3>5 DEF Shown
  <2> QED
    BY <1>1, <2>1, <2>3, <2>5 DEF ViewSound, RecordsGone
<1> QED
  BY <1>2, <1>3

(* A step of a worker goes on with its job and leaves the view.            *)
LEMMA WorkerKeeps ==
  ASSUME ViewSound, TypeOK, NEW w \in Workers,
         WorkerStep(w) \/ Trouble(w) \/ TokenExpires(w)
  PROVE  ViewSound' /\ JobNext(w) /\ UNCHANGED <<view, stale>>
<1>1. JobNext(w) /\ UNCHANGED <<view, stale>>
  BY WorkerJob, TroubleJob, ExpiresJob DEF WorkerStep, Trouble, TokenExpires, ViewSound
<1>2. /\ JobsSound' /\ (Busy' <=> Busy) /\ (Syncing' <=> Syncing)
      /\ job'["op"].kind = job["op"].kind
  BY <1>1, JobNextSound DEF ViewSound, Workers
<1>3. OpSound'
  BY <1>1, <1>2 DEF OpSound, ViewSound, view
<1> QED
  BY <1>1, <1>2, <1>3 DEF ViewSound, ViewOK, RecordsGone, view

LEMMA ViewStep ==
  ASSUME ViewSound, TypeOK, [Next]_vars
  PROVE  ViewSound'
<1>1. CASE UNCHANGED vars
  <2>1. UNCHANGED view /\ job' = job /\ stale' = stale
    BY <1>1 DEF vars
  <2>2. JobsSound' /\ OpSound'
    BY <2>1, AsideKeeps DEF ViewSound, OpSound, view
  <2> QED
    BY <2>1, <2>2 DEF ViewSound, ViewOK, RecordsGone, view
<1>2. CASE \E w \in Workers : WorkerStep(w) \/ Trouble(w) \/ TokenExpires(w)
  BY <1>2, WorkerKeeps
<1>3. CASE Completion
  BY <1>3, CompletionKeeps
<1>4. CASE SyncStart
  BY <1>4, SyncStartKeeps
<1>5. CASE SyncEnd
  BY <1>5, SyncEndKeeps
<1>6. CASE Click
  BY <1>6, ClickKeeps
<1>7. CASE Return
  BY <1>7, ReturnKeeps
<1>8. CASE Hide \/ RevealTimeout
  BY <1>8, HideKeeps
<1>9. CASE Elsewhere
  BY <1>9, ElsewhereKeeps
<1> QED
  BY <1>1, <1>2, <1>3, <1>4, <1>5, <1>6, <1>7, <1>8, <1>9 DEF Next

-----------------------------------------------------------------------------
(* Session, agent and vaults.                                              *)
LEMMA WorkerShared ==
  ASSUME JobsSound, TypeOK, NEW w \in Workers, WorkerStep(w)
  PROVE  session' \in Maybe /\ key' \in Maybe /\ vaults' \subseteq Accounts
<1>1. /\ None \in Maybe /\ job[w].arg \in Maybe /\ job[w].who \in Maybe
      /\ session \in Maybe /\ key \in Maybe /\ vaults \subseteq Accounts
  BY JobFields DEF Maybe, TypeOK
<1>2. CASE LoadSession(w) \/ Metadata(w) \/ Status(w) \/ List(w) \/ FetchKey(w)
           \/ AgentOperation(w) \/ OtherCall(w)
  BY <1>1, <1>2 DEF LoadSession, Metadata, Status, List, FetchKey, AgentOperation, OtherCall, shared
<1>3. CASE LockAgent(w) \/ ClearSession(w) \/ Activate(w) \/ Authenticate(w) \/ Deliver(w)
  BY <1>1, <1>3 DEF LockAgent, ClearSession, Activate, Authenticate, Deliver
<1>4. CASE PostVault(w)
  <2>1. job[w].who \in Accounts
    BY <1>1, <1>4, JobFields DEF PostVault, At, Maybe, JobSound
  <2> QED
    BY <1>1, <1>4, <2>1 DEF PostVault
<1> QED
  BY <1>2, <1>3, <1>4 DEF WorkerStep

LEMMA StepShared ==
  ASSUME ViewSound, TypeOK, [Next]_vars
  PROVE  /\ session' \in Maybe /\ key' \in Maybe /\ vaults' \subseteq Accounts
         /\ clicks' \in 0 .. MaxClicks /\ changes' \in 0 .. MaxChanges
<1>1. /\ session \in Maybe /\ key \in Maybe /\ vaults \subseteq Accounts
      /\ clicks \in 0 .. MaxClicks /\ changes \in 0 .. MaxChanges
  BY DEF TypeOK
<1>2. CASE UNCHANGED vars \/ SyncStart \/ SyncEnd \/ Completion \/ Return \/ Hide \/ RevealTimeout
  BY <1>1, <1>2 DEF vars, shared, bounds, SyncStart, SyncEnd, SyncDone, Completion, Return,
                    RevealTimeout, Hide
<1>3. CASE Click
  BY <1>1, <1>3, GuiAssumption DEF Click, shared
<1>4. CASE Elsewhere
  BY <1>1, <1>4, GuiAssumption DEF Elsewhere, Maybe
<1>5. CASE \E w \in Workers : WorkerStep(w)
  BY <1>1, <1>5, WorkerShared DEF WorkerStep, bounds, ViewSound
<1>6. CASE \E w \in Workers : Trouble(w) \/ TokenExpires(w)
  BY <1>1, <1>6, GuiAssumption DEF Trouble, TokenExpires, shared
<1> QED
  BY <1>2, <1>3, <1>4, <1>5, <1>6 DEF Next

LEMMA StepSeen ==
  ASSUME TypeOK, session' \in Maybe, [Next]_vars
  PROVE  seen'.session \subseteq Maybe /\ seen'.open \subseteq BOOLEAN
<1>1. CASE UNCHANGED vars
  BY <1>1 DEF vars, TypeOK
<1>2. CASE Watched
  <2>1. seen.session \subseteq Maybe /\ seen.open \subseteq BOOLEAN /\ (key' # None) \in BOOLEAN
    BY DEF TypeOK
  <2>2. PICK s \in SUBSET Maybe, o \in SUBSET BOOLEAN : seen' = [session |-> s, open |-> o]
    <3>1. /\ {} \in SUBSET Maybe /\ {session'} \in SUBSET Maybe
          /\ seen.session \cup {session'} \in SUBSET Maybe
          /\ {} \in SUBSET BOOLEAN /\ {key' # None} \in SUBSET BOOLEAN
          /\ seen.open \cup {key' # None} \in SUBSET BOOLEAN
      BY <2>1
    <3>2. \/ seen' = [session |-> {}, open |-> {}]
          \/ seen' = [session |-> {session'}, open |-> {key' # None}]
          \/ seen' = [session |-> seen.session \cup {session'},
                      open |-> seen.open \cup {key' # None}]
      BY <1>2 DEF Watched
    <3> QED
      BY <3>1, <3>2
  <2> QED
    BY <2>2
<1> QED
  BY <1>1, <1>2 DEF Next

LEMMA TypeStep ==
  ASSUME ViewSound, TypeOK, [Next]_vars
  PROVE  TypeOK'
<1>1. ViewSound'
  BY ViewStep
<1>2. /\ session' \in Maybe /\ key' \in Maybe /\ vaults' \subseteq Accounts
      /\ clicks' \in 0 .. MaxClicks /\ changes' \in 0 .. MaxChanges
  BY StepShared
<1>3. seen'.session \subseteq Maybe /\ seen'.open \subseteq BOOLEAN
  BY <1>2, StepSeen
<1>4. \A w \in Workers :
        /\ job'[w].kind \in Kinds /\ job'[w].at \in Places /\ job'[w].result \in Results
        /\ job'[w].arg \in Maybe /\ job'[w].who \in Maybe
        /\ job'[w].needs \in BOOLEAN /\ job'[w].full \in BOOLEAN /\ job'[w].records \in BOOLEAN
  BY <1>1 DEF ViewSound, JobsSound, JobSet
<1> QED
  BY <1>1, <1>2, <1>3, <1>4 DEF TypeOK, ViewSound, ViewOK

-----------------------------------------------------------------------------
(* What a sync has read.                                                   *)
LEMMA SeenGrows ==
  ASSUME Watched, Syncing, Syncing', At("op", "done") => job'["op"] = job["op"]
  PROVE  /\ session' \in seen'.session /\ (key' # None) \in seen'.open
         /\ seen.session \subseteq seen'.session /\ seen.open \subseteq seen'.open
<1>1. seen' = [session |-> seen.session \cup {session'}, open |-> seen.open \cup {key' # None}]
  BY DEF Watched
<1> QED
  BY <1>1

LEMMA SyncKept ==
  ASSUME SyncSound, Watched, job'["sync"] = job["sync"], user' = user, stale' = stale,
         At("op", "done") => job'["op"] = job["op"]
  PROVE  SyncSound'
<1> SUFFICES ASSUME Syncing', ~ stale'
             PROVE  ReadSince(job["sync"])'
  BY DEF SyncSound
<1>1. Syncing /\ ReadSince(job["sync"])
  BY DEF SyncSound, Syncing
<1>2. seen.session \subseteq seen'.session /\ seen.open \subseteq seen'.open
  BY <1>1, SeenGrows
<1> QED
  BY <1>1, <1>2 DEF ReadSince

(* A step of the sync itself, while nothing has made it stale.             *)
LEMMA SyncMoved ==
  ASSUME JobsSound, ReadSince(job["sync"]), user' = user, NEW place \in Places \ {"done"},
         job'["sync"] = [job["sync"] EXCEPT !.at = place],
         seen.session \subseteq seen'.session, seen.open \subseteq seen'.open,
         LET j == job["sync"] IN
           /\ place \in {"meta", "status", "list", "lockStart", "lockMissing"} =>
                j.who # None /\ j.who \in seen'.session /\ (~ j.full => j.who = j.arg)
           /\ place = "list" => TRUE \in seen'.open
           /\ place = "lockExpired" => None \in seen'.session
  PROVE  ReadSince(job["sync"])'
<1>1. job["sync"] \in JobSet
  BY DEF JobsSound, Workers
<1>2. /\ job'["sync"].at = place /\ job'["sync"].who = job["sync"].who
      /\ job'["sync"].full = job["sync"].full /\ job'["sync"].arg = job["sync"].arg
  BY <1>1 DEF JobSet
<1> QED
  BY <1>2 DEF ReadSince

LEMMA SyncEnded ==
  ASSUME JobsSound, ReadSince(job["sync"]), user' = user, NEW result \in Results,
         \/ job'["sync"] = [job["sync"] EXCEPT !.at = "done", !.result = result]
         \/ job'["sync"] =
              [job["sync"] EXCEPT !.at = "done", !.result = result, !.records = TRUE],
         seen.session \subseteq seen'.session, seen.open \subseteq seen'.open,
         LET j == job["sync"] IN
           /\ result = "login" => None \in seen'.session
           /\ result \in {"setup", "locked", "open"} =>
                j.who # None /\ j.who \in seen'.session /\ (~ j.full => j.who = j.arg)
           /\ result = "locked" => FALSE \in seen'.open
           /\ result = "open" => TRUE \in seen'.open
  PROVE  ReadSince(job["sync"])'
<1>1. job["sync"] \in JobSet
  BY DEF JobsSound, Workers
<1>2. /\ job'["sync"].at = "done" /\ job'["sync"].who = job["sync"].who
      /\ job'["sync"].full = job["sync"].full /\ job'["sync"].arg = job["sync"].arg
      /\ job'["sync"].result = result
  BY <1>1 DEF JobSet
<1> QED
  BY <1>2 DEF ReadSince

LEMMA SyncWorker ==
  ASSUME JobsSound, Syncing, ReadSince(job["sync"]), user' = user,
         session' \in seen'.session, (key' # None) \in seen'.open,
         seen.session \subseteq seen'.session, seen.open \subseteq seen'.open,
         WorkerStep("sync") \/ Trouble("sync") \/ TokenExpires("sync")
  PROVE  ReadSince(job["sync"])'
<1> USE DEF Places, Results
<1>1. /\ job["sync"] # NoJob /\ job["sync"].kind = "sync" /\ job["sync"] \in JobSet
      /\ JobSound("sync", job["sync"]) /\ "sync" \in Workers
      /\ job \in [Workers -> JobSet]
  BY JobFields DEF Syncing, Workers, JobsSound
<1> DEFINE bound == /\ job["sync"].who # None /\ job["sync"].who \in seen'.session
                    /\ ~ job["sync"].full => job["sync"].who = job["sync"].arg
<1>2. /\ job["sync"].at \in {"meta", "status", "list", "lockStart", "lockMissing"} => bound
      /\ job["sync"].at = "list" => TRUE \in seen'.open
      /\ job["sync"].at = "lockExpired" => None \in seen'.session
  BY DEF ReadSince
<1>3. /\ \A place \in Places : Move("sync", place) =>
           job'["sync"] = [job["sync"] EXCEPT !.at = place]
      /\ \A result \in Results : End("sync", result) =>
           job'["sync"] = [job["sync"] EXCEPT !.at = "done", !.result = result]
  BY <1>1 DEF Move, End
<1>4. CASE LoadSession("sync")
  <2>1. CASE session = None
    <3>1. End("sync", "login") /\ None \in seen'.session
      BY <1>1, <1>4, <2>1 DEF LoadSession, shared
    <3> QED
      BY <1>3, <3>1, SyncEnded
  <2>2. CASE session # None
    <3>1. /\ job'["sync"] = [job["sync"] EXCEPT !.who = session, !.at = AfterLoad("sync")]
          /\ session \in seen'.session
      BY <1>1, <1>4, <2>2 DEF LoadSession, shared
    <3>2. /\ AfterLoad("sync") \in {"meta", "lock"}
          /\ AfterLoad("sync") = "meta" /\ ~ job["sync"].full => session = job["sync"].arg
      BY <1>1 DEF AfterLoad, Snapshot
    <3>3. /\ job'["sync"].who = session /\ job'["sync"].at = AfterLoad("sync")
          /\ job'["sync"].full = job["sync"].full /\ job'["sync"].arg = job["sync"].arg
      BY <1>1, <3>1 DEF JobSet
    <3> QED
      BY <2>2, <3>1, <3>2, <3>3 DEF ReadSince
  <2> QED
    BY <2>1, <2>2
<1>5. CASE Metadata("sync")
  <2>1. bound
    BY <1>2, <1>5 DEF Metadata, At
  <2>2. CASE Move("sync", "status")
    <3>1. job'["sync"] = [job["sync"] EXCEPT !.at = "status"]
      BY <1>3, <2>2
    <3> QED
      BY <2>1, <3>1, SyncMoved
  <2>3. CASE Move("sync", "lockStart")
    <3>1. job'["sync"] = [job["sync"] EXCEPT !.at = "lockStart"]
      BY <1>3, <2>3
    <3> QED
      BY <2>1, <3>1, SyncMoved
  <2>4. CASE Move("sync", "lockMissing")
    <3>1. job'["sync"] = [job["sync"] EXCEPT !.at = "lockMissing"]
      BY <1>3, <2>4
    <3> QED
      BY <2>1, <3>1, SyncMoved
  <2>5. CASE End("sync", "setup")
    BY <1>3, <2>1, <2>5, SyncEnded
  <2> QED
    BY <1>5, <2>2, <2>3, <2>4, <2>5 DEF Metadata
<1>6. CASE Status("sync")
  <2>1. bound
    BY <1>2, <1>6 DEF Status, At
  <2>2. CASE key = None
    <3>1. End("sync", "locked") /\ FALSE \in seen'.open
      <4>1. key' = None /\ End("sync", "locked")
        BY <1>6, <2>2 DEF Status, shared
      <4>2. (key' # None) = FALSE
        BY <4>1
      <4> QED
        BY <4>1, <4>2
    <3> QED
      BY <1>3, <2>1, <3>1, SyncEnded
  <2>3. CASE key # None
    <3>1. Move("sync", "list") /\ TRUE \in seen'.open
      <4>1. key' # None /\ Move("sync", "list")
        BY <1>6, <2>3 DEF Status, shared
      <4>2. (key' # None) = TRUE
        BY <4>1
      <4> QED
        BY <4>1, <4>2
    <3>2. job'["sync"] = [job["sync"] EXCEPT !.at = "list"]
      BY <1>3, <3>1
    <3> QED
      BY <2>1, <3>1, <3>2, SyncMoved
  <2> QED
    BY <2>2, <2>3
<1>7. CASE List("sync")
  <2>1. bound /\ TRUE \in seen'.open
    BY <1>2, <1>7 DEF List, At
  <2>2. \/ job'["sync"] = [job["sync"] EXCEPT !.at = "done", !.result = "open", !.records = TRUE]
        \/ End("sync", "error") \/ End("sync", "open")
    BY <1>1, <1>7 DEF List
  <2>3. CASE job'["sync"] = [job["sync"] EXCEPT !.at = "done", !.result = "open", !.records = TRUE]
    BY <2>1, <2>3, SyncEnded
  <2>4. CASE End("sync", "error")
    BY <1>3, <2>4, SyncEnded
  <2>5. CASE End("sync", "open")
    BY <1>3, <2>1, <2>5, SyncEnded
  <2> QED
    BY <2>2, <2>3, <2>4, <2>5
<1>8. CASE LockAgent("sync")
  <2>1. CASE At("sync", "lockStart") /\ Move("sync", "status")
    BY <1>2, <1>3, <2>1, SyncMoved DEF At
  <2>2. CASE At("sync", "lockMissing") /\ End("sync", "setup")
    BY <1>2, <1>3, <2>2, SyncEnded DEF At
  <2>3. CASE At("sync", "lockExpired") /\ End("sync", "login")
    BY <1>2, <1>3, <2>3, SyncEnded DEF At
  <2>4. CASE job' = [job EXCEPT !["sync"] = [@ EXCEPT !.at = "load", !.full = TRUE]]
    <3>1. /\ job'["sync"].at = "load" /\ job'["sync"].arg = job["sync"].arg
      BY <1>1, <2>4 DEF JobSet
    <3> QED
      BY <3>1 DEF ReadSince
  <2> QED
    BY <1>1, <1>8, <2>1, <2>2, <2>3, <2>4 DEF LockAgent
<1>9. CASE ClearSession("sync")
  <2>1. /\ job' = [job EXCEPT !["sync"] = [@ EXCEPT !.at = "lockExpired", !.full = FALSE]]
        /\ None \in seen'.session
    BY <1>1, <1>9 DEF ClearSession
  <2>2. /\ job'["sync"].at = "lockExpired" /\ job'["sync"].arg = job["sync"].arg
    BY <1>1, <2>1 DEF JobSet
  <2> QED
    BY <2>1, <2>2 DEF ReadSince
<1>10. CASE \/ Activate("sync") \/ Authenticate("sync") \/ PostVault("sync") \/ FetchKey("sync")
            \/ Deliver("sync") \/ AgentOperation("sync") \/ OtherCall("sync")
  BY <1>1, <1>10, PlaceKinds
  DEF At, Activate, Authenticate, PostVault, FetchKey, Deliver, AgentOperation, OtherCall
<1>11. CASE Trouble("sync")
  <2>1. End("sync", "error")
    BY <1>1, <1>11 DEF Trouble, At
  <2> QED
    BY <1>3, <2>1, SyncEnded
<1>12. CASE TokenExpires("sync")
  <2>1. Move("sync", "clear")
    BY <1>12 DEF TokenExpires
  <2>2. job'["sync"] = [job["sync"] EXCEPT !.at = "clear"]
    BY <1>3, <2>1
  <2> QED
    BY <2>2, SyncMoved
<1> QED
  BY <1>4, <1>5, <1>6, <1>7, <1>8, <1>9, <1>10, <1>11, <1>12 DEF WorkerStep

LEMMA SyncStep ==
  ASSUME GuiInv, ViewSound, [Next]_vars
  PROVE  SyncSound'
<1>1. CASE UNCHANGED vars
  BY <1>1 DEF vars, view, SyncSound, ReadSince, Syncing, GuiInv
<1>2. ASSUME Watched, Beside
      PROVE  SyncSound'
  BY <1>2 DEF Beside, SyncSound
<1>3. ASSUME Watched, Aside
      PROVE  SyncSound'
  BY <1>2, <1>3, SyncKept DEF Aside, GuiInv
<1>4. ASSUME Watched, NEW w \in Workers, WorkerStep(w) \/ Trouble(w) \/ TokenExpires(w)
      PROVE  SyncSound'
  <2>1. JobNext(w) /\ UNCHANGED <<view, stale>> /\ user' = user /\ stale' = stale
    BY <1>4, WorkerKeeps DEF GuiInv, view
  <2>2. Syncing' <=> Syncing
    BY <2>1, JobNextSound DEF ViewSound
  <2>3. CASE w = "op"
    <3>1. Busy
      BY <2>1, <2>3 DEF JobNext, Busy
    <3> QED
      BY <2>1, <2>2, <3>1 DEF SyncSound, ViewSound, OpSound
  <2>4. CASE w = "sync"
    <3> SUFFICES ASSUME Syncing', ~ stale'
                 PROVE  ReadSince(job["sync"])'
      BY DEF SyncSound
    <3>1. job'["op"] = job["op"]
      BY <2>1, <2>4, JobNextSound DEF ViewSound, Workers
    <3>2. Syncing /\ ReadSince(job["sync"])
      BY <2>1, <2>2 DEF GuiInv, SyncSound
    <3>3. /\ session' \in seen'.session /\ (key' # None) \in seen'.open
          /\ seen.session \subseteq seen'.session /\ seen.open \subseteq seen'.open
      BY <1>4, <3>1, <3>2, SeenGrows
    <3>4. WorkerStep("sync") \/ Trouble("sync") \/ TokenExpires("sync")
      BY <1>4, <2>4
    <3> QED
      BY <2>1, <3>2, <3>3, <3>4, SyncWorker DEF ViewSound
  <2> QED
    BY <2>3, <2>4 DEF Workers
<1>5. CASE Completion /\ Watched
  BY <1>2, <1>5, CompletionKeeps
<1>6. CASE SyncStart
  <2>1. /\ Syncing' /\ job'["sync"].at = "load" /\ job'["sync"].arg = user /\ user' = user
    BY <1>6, SyncStartJob DEF GuiInv, SyncStart, view
  <2> QED
    BY <2>1 DEF SyncSound, ReadSince
<1>7. CASE SyncEnd
  BY <1>7, SyncEndJob DEF GuiInv, SyncSound
<1>8. CASE Watched /\ (Click \/ Return \/ Hide \/ RevealTimeout \/ Elsewhere)
  BY <1>3, <1>8, ClickKeeps, ReturnKeeps, HideKeeps, ElsewhereKeeps
<1> QED
  BY <1>1, <1>4, <1>5, <1>6, <1>7, <1>8 DEF Next

-----------------------------------------------------------------------------
LEMMA GuiInit == Init => GuiInv
<1> SUFFICES ASSUME Init PROVE GuiInv
  OBVIOUS
<1> DEFINE j == Job("start", "load", None)
<1>1. None \in Maybe /\ 0 \in 0 .. MaxClicks /\ 0 \in 0 .. MaxChanges
  BY GuiAssumption DEF Maybe
<1>2. j \in JobSet /\ j.kind = "start" /\ j.at = "load" /\ j.full = FALSE
  BY <1>1 DEF Job, JobSet, Kinds, Places, Results
<1>3. JobSound("op", j)
  BY <1>2 DEF JobSound, Starting
<1>4. job = [op |-> j, sync |-> NoJob]
  BY DEF Init
<1> HIDE DEF j
<1>5. job \in [Workers -> JobSet] /\ job["op"] = j /\ job["sync"] = NoJob
  <2>1. job["op"] = j /\ job["sync"] = NoJob /\ job = [w \in Workers |-> job[w]]
    BY <1>4 DEF Workers
  <2> QED
    BY <1>2, <2>1, NoJobSound DEF Workers
<1>6. JobsSound
  BY <1>3, <1>5, NoJobSound DEF JobsSound, Workers
<1>7. OpSound /\ SyncSound /\ RecordsGone
  BY <1>2, <1>5 DEF Init, OpSound, SyncSound, RecordsGone, Syncing
<1>8. TypeOK
  <2>1. /\ session \in Maybe /\ key \in Maybe /\ vaults \subseteq Accounts
    BY <1>1 DEF Init
  <2>2. seen.session = {} /\ seen.open = {}
    BY DEF Init
  <2>3. {unlocked, revealed, timer, adding, synced, stale} \subseteq BOOLEAN
        /\ user = None /\ shown = None /\ screen = "loading" /\ clicks = 0 /\ changes = 0
    BY DEF Init
  <2>4. \A w \in Workers :
          /\ job[w].kind \in Kinds /\ job[w].at \in Places /\ job[w].result \in Results
          /\ job[w].arg \in Maybe /\ job[w].who \in Maybe
          /\ {job[w].needs, job[w].full, job[w].records} \subseteq BOOLEAN
    BY <1>6 DEF JobsSound, JobSet
  <2> QED
    BY <1>1, <2>1, <2>2, <2>3, <2>4 DEF TypeOK, Screens
<1> QED
  BY <1>6, <1>7, <1>8 DEF GuiInv

LEMMA GuiStep ==
  ASSUME GuiInv, [Next]_vars
  PROVE  GuiInv'
<1>1. ViewSound
  BY DEF GuiInv, ViewSound, ViewOK, TypeOK
<1>2. ViewSound'
  BY <1>1, ViewStep DEF GuiInv
<1>3. TypeOK'
  BY <1>1, TypeStep DEF GuiInv
<1>4. SyncSound'
  BY <1>1, SyncStep
<1> QED
  BY <1>2, <1>3, <1>4 DEF GuiInv, ViewSound

LEMMA GuiAlways == Spec => []GuiInv
BY GuiInit, GuiStep, PTL DEF Spec

(* Jobs, view and what a sync has seen are what the code can hold.         *)
THEOREM TypeCorrect == Spec => []TypeOK
<1>1. GuiInv => TypeOK
  BY DEF GuiInv
<1> QED
  BY <1>1, GuiAlways, PTL

(* No refresh, sync or start leaves records of an account in the list of a *)
(* user who is asked to sign in because there is no session any more.      *)
THEOREM RecordsStayGone == Spec => []RecordsGone
<1>1. GuiInv => RecordsGone
  BY DEF GuiInv
<1> QED
  BY <1>1, GuiAlways, PTL

(* A sync that changes the view shows an account that session.json named   *)
(* and a state the agent was in since it began, whatever operations ran    *)
(* beside it: their dispatch has made it stale.                            *)
LEMMA SyncEndShows ==
  ASSUME GuiInv, SyncEnd
  PROVE  ShowsWhatWas
<1> SUFFICES ASSUME view' # view
             PROVE  /\ user' \in seen.session
                    /\ screen' \in {"app", "unlock"} => unlocked' \in seen.open
  BY DEF ShowsWhatWas
<1> DEFINE j == job["sync"]
<1>1. ViewSound
  BY DEF GuiInv, ViewSound, ViewOK, TypeOK
<1>2. /\ j.at = "done" /\ j \in JobSet /\ j.result \in Shown
      /\ SyncApply(j) /\ adding' = adding /\ ReadSince(j)
  BY <1>1, SyncShows DEF GuiInv, SyncSound
<1> HIDE DEF j
<1>3. /\ j.arg = user
      /\ j.result = "login" => None \in seen.session
      /\ j.result \in {"setup", "locked", "open"} =>
           j.who \in seen.session /\ (~ j.full => j.who = j.arg)
      /\ j.result = "locked" => FALSE \in seen.open
      /\ j.result = "open" => TRUE \in seen.open
  BY <1>2 DEF ReadSince
<1>4. CASE j.full
  <2>1. ApplyStartup(j)
    BY <1>2, <1>4 DEF SyncApply
  <2>2. /\ screen' = CASE j.result = "locked" -> "unlock" [] j.result = "open" -> "app"
                     [] OTHER -> j.result
        /\ user' = IF j.result = "login" THEN None ELSE j.who
        /\ unlocked' = (j.result = "open")
    BY <2>1 DEF ApplyStartup, Shows
  <2>3. CASE j.result = "login"
    BY <1>3, <2>2, <2>3
  <2>4. CASE j.result = "setup"
    BY <1>3, <2>2, <2>4
  <2>5. CASE j.result = "locked"
    BY <1>3, <2>2, <2>5
  <2>6. CASE j.result = "open"
    BY <1>3, <2>2, <2>6
  <2> QED
    BY <1>2, <2>3, <2>4, <2>5, <2>6 DEF Shown
<1>5. CASE ~ j.full /\ j.result = "login"
  <2>1. IF user # None THEN Clears("login", None)
        ELSE UNCHANGED <<screen, user, unlocked, shown, reveal, synced>>
    BY <1>2, <1>5 DEF SyncApply
  <2>2. user # None
    BY <1>2, <2>1 DEF view
  <2> QED
    BY <1>3, <1>5, <2>1, <2>2 DEF Clears, Shows
<1>6. CASE ~ j.full /\ j.result = "setup"
  <2>1. Clears("setup", user)
    BY <1>2, <1>6 DEF SyncApply
  <2> QED
    BY <1>3, <1>6, <2>1 DEF Clears, Shows
<1>7. CASE ~ j.full /\ j.result = "locked"
  <2>1. IF unlocked THEN Clears("unlock", user)
        ELSE Shows("unlock", user, FALSE, shown) /\ UNCHANGED <<reveal, synced>>
    BY <1>2, <1>7 DEF SyncApply
  <2> QED
    BY <1>3, <1>7, <2>1 DEF Clears, Shows
<1>8. CASE ~ j.full /\ j.result = "open"
  <2>1. /\ Shows("app", user, TRUE, IF j.records THEN j.who ELSE shown)
    BY <1>2, <1>8 DEF SyncApply
  <2> QED
    BY <1>3, <1>8, <2>1 DEF Shows
<1>9. j.full \in BOOLEAN
  BY <1>2 DEF JobSet
<1> QED
  BY <1>2, <1>4, <1>5, <1>6, <1>7, <1>8, <1>9 DEF Shown

LEMMA OnlySyncEndShows ==
  ASSUME GuiInv, [Next]_vars
  PROVE  ShowsWhatWas
<1>1. ViewSound
  BY DEF GuiInv, ViewSound, ViewOK, TypeOK
<1>2. CASE Syncing' <=> Syncing
  BY <1>2 DEF ShowsWhatWas
<1>3. CASE UNCHANGED vars
  BY <1>2, <1>3 DEF vars, Syncing
<1>4. CASE \E w \in Workers : WorkerStep(w) \/ Trouble(w) \/ TokenExpires(w)
  BY <1>1, <1>2, <1>4, WorkerKeeps, JobNextSound DEF GuiInv
<1>5. CASE Completion
  BY <1>1, <1>2, <1>5, CompletionKeeps DEF Beside
<1>6. CASE SyncStart
  BY <1>6, SyncStartJob DEF GuiInv, ShowsWhatWas
<1>7. CASE SyncEnd
  BY <1>7, SyncEndShows
<1>8. CASE Click \/ Return \/ Hide \/ RevealTimeout \/ Elsewhere
  <2>1. Aside
    BY <1>1, <1>8, ClickKeeps, ReturnKeeps, HideKeeps, ElsewhereKeeps
  <2> QED
    BY <1>2, <2>1 DEF Aside, Beside, Syncing
<1> QED
  BY <1>3, <1>4, <1>5, <1>6, <1>7, <1>8 DEF Next

(* What a sync that is applied shows of session and agent was true at some *)
(* time since it began and since the last operation ended: it never undoes *)
(* what an operation has shown (app_controller.cpp:311).                   *)
THEOREM SyncsStayFresh == Spec => SyncFresh
<1>1. GuiInv /\ [Next]_vars => [ShowsWhatWas]_vars
  BY OnlySyncEndShows
<1> QED
  BY <1>1, GuiAlways, PTL DEF Spec, SyncFresh
=============================================================================
