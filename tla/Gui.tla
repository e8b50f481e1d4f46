---------------------------------- MODULE Gui ----------------------------------
(***************************************************************************)
(* The GUI (client/src/gui/app_controller.cpp): a view, at most one        *)
(* operation at a time that dispatch runs on a worker thread, and a sync   *)
(* that runs every four seconds on another one, so that the view follows   *)
(* what CLI processes do to session.json and to the agent.  Workers read   *)
(* and change the shared state in steps; their results are applied later,  *)
(* by the thread of the view.                                              *)
(*                                                                         *)
(* The agent is its key, and the key the account whose vault it opens;     *)
(* record lists are the account they were read for.  An operation that     *)
(* dispatch would drop is an action only if it does something first.       *)
(***************************************************************************)
EXTENDS Naturals

CONSTANTS
  Accounts,
  None,
  MaxClicks,   \* bound on what the user does
  MaxChanges   \* bound on what other processes do, and on failures

ASSUME GuiAssumption ==
  /\ None \notin Accounts
  /\ MaxClicks \in Nat /\ MaxChanges \in Nat

VARIABLES
  session,   \* the account in session.json, or None
  key,       \* the account whose Vault Key the agent has, or None
  vaults,    \* accounts that have a vault
  screen, user, unlocked,  \* screen_, userId_, unlocked_
  shown,     \* the account whose records the model holds, or None
  revealed,  \* a value is shown
  timer,     \* revealTimer_ runs
  adding,    \* addingAccount_
  synced,    \* the sync timer has been started
  job,       \* the operation and the sync under way
  stale,     \* stateGeneration_ has changed since the sync began
  seen,      \* what was true since the sync began and since an operation ended
  clicks, changes

shared == <<session, key, vaults>>
reveal == <<revealed, timer>>
view == <<screen, user, unlocked, shown, reveal, adding, synced>>
bounds == <<clicks, changes>>
vars == <<shared, view, job, stale, seen, bounds>>

Maybe == Accounts \cup {None}
Screens == {"loading", "login", "setup", "unlock", "app"}
Kinds == {"none", "sync", "start", "authenticate", "initialize", "unlock", "lock",
          "logout", "switch", "refresh", "write", "reveal", "import", "passwd", "other"}
Places == {"load", "meta", "status", "list", "post", "fetch", "deliver", "agent", "call",
           "clear", "activate", "lock", "lockStart", "lockMissing", "lockExpired", "done"}
Results == {"none", "ok", "error", "expired", "login", "setup", "locked", "open"}

(* A worker: arg is the account an operation is about, or the one the view *)
(* showed when a sync began; who is the account of the session it has read.*)
Job(kind, at, arg) ==
  [kind |-> kind, at |-> at, arg |-> arg, who |-> None, result |-> "none",
   needs |-> FALSE,   \* needsRecords
   full |-> FALSE,    \* fullStartup
   records |-> FALSE] \* the result has records
NoJob == Job("none", "done", None)

Busy == job["op"] # NoJob
Syncing == job["sync"] # NoJob
Workers == {"op", "sync"}

Init ==
  /\ session \in Maybe /\ key \in {None, session} /\ vaults \in SUBSET Accounts
  /\ key # None => key \in vaults
  /\ screen = "loading" /\ user = None /\ unlocked = FALSE
  /\ shown = None /\ revealed = FALSE /\ timer = FALSE /\ adding = FALSE /\ synced = FALSE
  /\ job = [op |-> Job("start", "load", None), sync |-> NoJob]
  /\ stale = FALSE /\ seen = [session |-> {}, open |-> {}]
  /\ clicks = 0 /\ changes = 0
-----------------------------------------------------------------------------
(* Workers.                                                                *)

At(w, place) == job[w].at = place /\ job[w] # NoJob
Move(w, place) == job' = [job EXCEPT ![w] = [@ EXCEPT !.at = place]]
End(w, result) == job' = [job EXCEPT ![w] = [@ EXCEPT !.at = "done", !.result = result]]

(* startupSnapshot, also as the part of a sync that finds another account. *)
Snapshot(w) == job[w].kind \in {"start", "switch"} \/ job[w].full

AfterLoad(w) ==
  CASE Snapshot(w) -> "meta"
    [] job[w].kind = "sync" -> IF session = job[w].arg THEN "meta" ELSE "lock"
    [] job[w].kind = "initialize" -> "post"
    [] job[w].kind = "unlock" -> "fetch"
    [] job[w].kind \in {"refresh", "write", "reveal"} -> "agent"
    [] OTHER -> "call"

(* load_session; without one the operations throw AuthenticationError.     *)
LoadSession(w) ==
  /\ At(w, "load")
  /\ \/ /\ session = None
        /\ IF Snapshot(w) \/ job[w].kind = "sync" THEN End(w, "login") ELSE Move(w, "clear")
     \/ /\ session # None
        /\ job' = [job EXCEPT ![w] = [@ EXCEPT !.who = session, !.at = AfterLoad(w)]]
  /\ UNCHANGED shared

(* GET /vault; a start locks the agent if start_locked is set.             *)
Metadata(w) ==
  /\ At(w, "meta")
  /\ \/ job[w].who \in vaults /\ ~ Snapshot(w) /\ Move(w, "status")
     \/ job[w].who \in vaults /\ Snapshot(w) /\ (Move(w, "lockStart") \/ Move(w, "status"))
     \/ job[w].who \notin vaults /\ Snapshot(w) /\ End(w, "setup")
     \/ job[w].who \notin vaults /\ ~ Snapshot(w) /\ Move(w, "lockMissing")
  /\ UNCHANGED shared

Status(w) ==
  /\ At(w, "status")
  /\ IF key = None THEN End(w, "locked") ELSE Move(w, "list")
  /\ UNCHANGED shared

(* The agent cannot decrypt records of another account, if there are any.  *)
Decrypts(w) == key # None
Undecrypted(w) == key # job[w].who

(* vault.list and the agent's list; a sync asks the agent only if it needs *)
(* the records or the revision has changed.                                *)
List(w) ==
  /\ At(w, "list")
  /\ \/ /\ Decrypts(w)
        /\ job' = [job EXCEPT ![w] = [@ EXCEPT !.at = "done", !.result = "open", !.records = TRUE]]
     \/ Undecrypted(w) /\ End(w, "error")
     \/ job[w].kind = "sync" /\ ~ Snapshot(w) /\ ~ job[w].needs /\ End(w, "open")
  /\ UNCHANGED shared

(* A lock request, and what the worker goes on with.                       *)
LockAgent(w) ==
  /\ key' = None
  /\ \/ At(w, "lockStart") /\ Move(w, "status")
     \/ At(w, "lockMissing") /\ End(w, "setup")
     \/ At(w, "lockExpired") /\ End(w, IF job[w].kind = "sync" THEN "login" ELSE "expired")
     \/ At(w, "lock") /\ job[w].kind = "logout" /\ Move(w, "clear")
     \/ At(w, "lock") /\ job[w].kind = "switch" /\ Move(w, "activate")
     \/ At(w, "lock") /\ job[w].kind \in {"lock", "authenticate", "passwd"} /\ End(w, "ok")
     \/ /\ At(w, "lock") /\ job[w].kind = "sync"
        /\ job' = [job EXCEPT ![w] = [@ EXCEPT !.at = "load", !.full = TRUE]]
  /\ UNCHANGED <<session, vaults>>

(* clear_session, by logout or by the handler of AuthenticationError.      *)
ClearSession(w) ==
  /\ At(w, "clear")
  /\ session' = None
  /\ IF job[w].kind = "logout" THEN End(w, "ok")
     ELSE job' = [job EXCEPT ![w] = [@ EXCEPT !.at = "lockExpired", !.full = FALSE]]
  /\ UNCHANGED <<key, vaults>>

(* activate_session; the account may have been logged out elsewhere.       *)
Activate(w) ==
  /\ At(w, "activate")
  /\ \/ session' = job[w].arg /\ Move(w, "load")
     \/ End(w, "error") /\ UNCHANGED session
  /\ UNCHANGED <<key, vaults>>

(* Login or register, and save_session; a wrong account password is        *)
(* answered with 401, which ApiClient turns into an AuthenticationError.   *)
Authenticate(w) ==
  /\ At(w, "post") /\ job[w].kind = "authenticate"
  /\ \/ session' = job[w].arg /\ Move(w, "lock")
     \/ Move(w, "clear") /\ UNCHANGED session
  /\ UNCHANGED <<key, vaults>>

(* POST /vault: 409 when the vault exists.                                 *)
PostVault(w) ==
  /\ At(w, "post") /\ job[w].kind = "initialize"
  /\ IF job[w].who \in vaults THEN End(w, "locked") /\ UNCHANGED vaults
     ELSE vaults' = vaults \cup {job[w].who} /\ Move(w, "deliver")
  /\ UNCHANGED <<session, key>>

(* unlock_with_password, with the right password or a wrong one.           *)
FetchKey(w) ==
  /\ At(w, "fetch")
  /\ \/ job[w].who \notin vaults /\ End(w, "setup")
     \/ job[w].who \in vaults /\ (Move(w, "deliver") \/ End(w, "error"))
  /\ UNCHANGED shared

(* ensure_running and the unlock request.                                  *)
Deliver(w) ==
  /\ At(w, "deliver")
  /\ key' = job[w].who
  /\ End(w, "ok")
  /\ UNCHANGED <<session, vaults>>

(* agentOperation.                                                         *)
AgentOperation(w) ==
  /\ At(w, "agent")
  /\ \/ Decrypts(w) /\ End(w, "ok")
     \/ Undecrypted(w) /\ End(w, "error")
  /\ UNCHANGED shared

(* import_file, rotate_password, or calls that change nothing here.        *)
OtherCall(w) ==
  /\ At(w, "call")
  /\ \/ job[w].kind = "passwd" /\ Move(w, "lock")
     \/ job[w].kind # "passwd" /\ End(w, "ok")
     \/ End(w, "error")
  /\ UNCHANGED shared

WorkerStep(w) ==
  /\ \/ LoadSession(w) \/ Metadata(w) \/ Status(w) \/ List(w) \/ LockAgent(w)
     \/ ClearSession(w) \/ Activate(w) \/ Authenticate(w) \/ PostVault(w)
     \/ FetchKey(w) \/ Deliver(w) \/ AgentOperation(w) \/ OtherCall(w)
  /\ UNCHANGED <<view, stale, bounds>>

(* Network or agent fail: a sync or an operation gives up, unless it has   *)
(* just created a vault or ended a session.                                *)
Trouble(w) ==
  /\ \/ job[w].at \notin {"done", "load", "clear", "activate", "call"}
     \/ At(w, "load") /\ Snapshot(w)
  /\ End(w, CASE At(w, "deliver") /\ job[w].kind = "initialize" -> "locked"
              [] At(w, "lockExpired") /\ w = "op" -> "expired"
              [] OTHER -> "error")
  /\ changes < MaxChanges /\ changes' = changes + 1
  /\ UNCHANGED <<shared, view, stale, clicks>>

(* The server answers a call of the worker itself with 401.                *)
TokenExpires(w) ==
  /\ \/ job[w].at \in {"meta", "list", "fetch", "call"} /\ job[w].who # None
     \/ At(w, "post") /\ job[w].kind = "initialize"
     \/ At(w, "agent") /\ job[w].kind = "refresh"
  /\ Move(w, "clear")
  /\ changes < MaxChanges /\ changes' = changes + 1
  /\ UNCHANGED <<shared, view, stale, clicks>>
-----------------------------------------------------------------------------
(* Results, in the thread of the view.                                     *)

Shows(s, u, open, records) ==
  screen' = s /\ user' = u /\ unlocked' = open /\ shown' = records

HideSensitive == revealed' = FALSE /\ timer' = FALSE

(* Mutant: the screen of a locked vault is called otherwise.               *)
ApplyStartupLocked(j) ==
  /\ Shows(IF j.result = "open" THEN "app" ELSE j.result,
           IF j.result = "login" THEN None ELSE j.who,
           j.result = "open",
           IF j.result = "open" THEN j.who ELSE None)
  /\ synced' = TRUE
  /\ UNCHANGED reveal

ApplyStartup(j) ==
  /\ Shows(CASE j.result = "locked" -> "unlock" [] j.result = "open" -> "app" [] OTHER -> j.result,
           IF j.result = "login" THEN None ELSE j.who,
           j.result = "open",
           IF j.result = "open" THEN j.who ELSE None)
  /\ synced' = TRUE
  /\ UNCHANGED reveal

(* dispatch: raises the generation.                                        *)
Dispatch(kind, at, arg) ==
  /\ job' = [job EXCEPT !["op"] = Job(kind, at, arg)]
  /\ stale' = Syncing
Rest ==
  /\ job' = [job EXCEPT !["op"] = NoJob]
  /\ UNCHANGED stale

Completed(kinds) == At("op", "done") /\ job["op"].kind \in kinds
Succeeded(kinds) == Completed(kinds) /\ job["op"].result \notin {"error", "expired"}

FailOp ==
  /\ Completed(Kinds) /\ job["op"].result = "error"
  /\ Rest /\ UNCHANGED view

(* Mutant: the list of records survives the end of the session.            *)
ExpireOpKeeps ==
  /\ Completed(Kinds) /\ job["op"].result = "expired"
  /\ Shows("login", user, FALSE, shown) /\ HideSensitive
  /\ Rest /\ UNCHANGED <<adding, synced>>

ExpireOp ==
  /\ Completed(Kinds) /\ job["op"].result = "expired"
  /\ Shows("login", user, FALSE, None) /\ HideSensitive
  /\ Rest /\ UNCHANGED <<adding, synced>>

StartOp ==
  /\ Succeeded({"start", "switch"})
  /\ ApplyStartup(job["op"])
  /\ adding' = (adding /\ job["op"].kind = "start")
  /\ Rest

AuthenticateOp ==
  /\ Succeeded({"authenticate"})
  /\ adding' = FALSE /\ screen' = "loading"
  /\ Dispatch("start", "load", None)
  /\ UNCHANGED <<user, unlocked, shown, reveal, synced>>

(* initializeVault and unlock: the records are loaded next.                *)
UnlockOp ==
  /\ Succeeded({"initialize", "unlock"}) /\ job["op"].result = "ok"
  /\ Shows("app", user, TRUE, shown)
  /\ Dispatch("refresh", "load", None)
  /\ UNCHANGED <<reveal, adding, synced>>

NotUnlockedOp ==
  /\ Succeeded({"initialize", "unlock"}) /\ job["op"].result # "ok"
  /\ Shows(IF job["op"].result = "setup" THEN "setup" ELSE "unlock", user, FALSE, shown)
  /\ Rest /\ UNCHANGED <<reveal, adding, synced>>

LockOp ==
  /\ Succeeded({"lock"})
  /\ Shows("unlock", user, FALSE, shown)
  /\ Rest /\ UNCHANGED <<reveal, adding, synced>>

LogoutOp ==
  /\ Succeeded({"logout"})
  /\ Shows("login", None, FALSE, shown)
  /\ Rest /\ UNCHANGED <<reveal, adding, synced>>

RefreshOp ==
  /\ Succeeded({"refresh"})
  /\ shown' = job["op"].who
  /\ Rest /\ UNCHANGED <<screen, user, unlocked, reveal, adding, synced>>

(* updateSecret and deleteSecret hide a revealed value, addSecret does not. *)
WriteOp ==
  /\ Succeeded({"write"})
  /\ UNCHANGED reveal \/ HideSensitive
  /\ Dispatch("refresh", "load", None)
  /\ UNCHANGED <<screen, user, unlocked, shown, adding, synced>>

(* Mutant: the timer is started only if the list of secrets is shown.      *)
RevealOpInApp ==
  /\ Succeeded({"reveal"})
  /\ revealed' = TRUE /\ timer' = (screen = "app")
  /\ Rest /\ UNCHANGED <<screen, user, unlocked, shown, adding, synced>>

RevealOp ==
  /\ Succeeded({"reveal"})
  /\ revealed' = TRUE /\ timer' = TRUE
  /\ Rest /\ UNCHANGED <<screen, user, unlocked, shown, adding, synced>>

(* The completion calls lock().                                            *)
ImportOp ==
  /\ Succeeded({"import"})
  /\ shown' = None /\ HideSensitive
  /\ Dispatch("lock", "lock", None)
  /\ UNCHANGED <<screen, user, unlocked, adding, synced>>

PasswdOp ==
  /\ Succeeded({"passwd"})
  /\ Shows("unlock", user, FALSE, shown) /\ HideSensitive
  /\ Rest /\ UNCHANGED <<adding, synced>>

OtherOp ==
  /\ Succeeded({"other"})
  /\ Rest /\ UNCHANGED view

Completion ==
  /\ \/ FailOp \/ ExpireOp \/ StartOp \/ AuthenticateOp \/ UnlockOp \/ NotUnlockedOp \/ LockOp
     \/ LogoutOp \/ RefreshOp \/ WriteOp \/ RevealOp \/ ImportOp \/ PasswdOp \/ OtherOp
  /\ UNCHANGED <<shared, bounds>>
-----------------------------------------------------------------------------
(* The sync.                                                               *)

SyncStart ==
  /\ synced /\ ~ Syncing /\ ~ Busy /\ ~ adding
  /\ job' = [job EXCEPT !["sync"] =
               [Job("sync", "load", user) EXCEPT !.needs = (screen # "app")]]
  /\ stale' = FALSE
  /\ UNCHANGED <<shared, view, bounds>>

(* Nothing of the account stays in the view.                               *)
Clears(s, u) == Shows(s, u, FALSE, None) /\ HideSensitive /\ UNCHANGED synced

SyncApply(j) ==
  CASE j.full -> ApplyStartup(j)
    [] ~ j.full /\ j.result = "login" -> IF user # None THEN Clears("login", None)
                                         ELSE UNCHANGED <<screen, user, unlocked, shown, reveal, synced>>
    [] ~ j.full /\ j.result = "setup" -> Clears("setup", user)
    [] ~ j.full /\ j.result = "locked" -> IF unlocked THEN Clears("unlock", user)
                                          ELSE /\ Shows("unlock", user, FALSE, shown)
                                               /\ UNCHANGED <<reveal, synced>>
    [] ~ j.full /\ j.result = "open" -> /\ Shows("app", user, TRUE, IF j.records THEN j.who ELSE shown)
                                        /\ UNCHANGED <<reveal, synced>>

SyncDone(drops) ==
  /\ At("sync", "done")
  /\ IF drops THEN UNCHANGED view
     ELSE SyncApply(job["sync"]) /\ UNCHANGED adding
  /\ UNCHANGED <<shared, bounds>>

(* Mutant: only errors are dropped.                                        *)
SyncEndAlways ==
  /\ SyncDone(job["sync"].result = "error")
  /\ job' = [job EXCEPT !["sync"] = NoJob]
  /\ stale' = FALSE

(* Mutant: syncRunning_ stays set when the result is dropped.              *)
SyncEndStuck ==
  LET drops == stale \/ job["sync"].result = "error" IN
  /\ SyncDone(drops)
  /\ ~ drops
  /\ job' = [job EXCEPT !["sync"] = NoJob]
  /\ stale' = FALSE

SyncEnd ==
  /\ SyncDone(stale \/ job["sync"].result = "error")
  /\ job' = [job EXCEPT !["sync"] = NoJob]
  /\ stale' = FALSE
-----------------------------------------------------------------------------
(* The user.                                                               *)

Try(kind, at, arg) ==
  IF Busy THEN UNCHANGED <<job, stale>> ELSE Dispatch(kind, at, arg)

(* lock, logout and switchAccount clear the view before they dispatch.     *)
ClearAndTry(kind, arg) ==
  /\ screen = "app"
  /\ shown' = None /\ HideSensitive
  /\ Try(kind, "lock", arg)
  /\ UNCHANGED <<screen, user, unlocked, adding, synced>>

Operate(on, kind, at, arg) ==
  /\ screen = on /\ ~ Busy
  /\ Dispatch(kind, at, arg)
  /\ UNCHANGED view

AddAccount ==
  /\ screen = "app"
  /\ adding' = TRUE /\ screen' = "login" /\ shown' = None /\ HideSensitive
  /\ UNCHANGED <<user, unlocked, synced, job, stale>>

(* cancelAddAccount: start() leaves the screen before dispatch.            *)
CancelAddAccount ==
  /\ adding /\ screen = "login"
  /\ adding' = FALSE /\ screen' = "loading"
  /\ Try("start", "load", None)
  /\ UNCHANGED <<user, unlocked, shown, reveal, synced>>

RevealSecret ==
  /\ screen = "app"
  /\ HideSensitive
  /\ Try("reveal", "load", None)
  /\ UNCHANGED <<screen, user, unlocked, shown, adding, synced>>

Click ==
  /\ \/ \E a \in Accounts : Operate("login", "authenticate", "post", a)
     \/ Operate("setup", "initialize", "load", None)
     \/ Operate("unlock", "unlock", "load", None)
     \/ \E kind \in {"write", "import", "passwd", "other"} : Operate("app", kind, "load", None)
     \/ Operate("app", "other", "call", None)   \* diagnostics and settings need no session
     \/ \E kind \in {"lock", "logout"} : ClearAndTry(kind, None)
     \/ \E a \in Accounts \ {user} : ClearAndTry("switch", a)
     \/ AddAccount \/ RevealSecret
  /\ clicks < MaxClicks /\ clicks' = clicks + 1
  /\ UNCHANGED <<shared, changes>>

(* Not counted: each needs a click or a failure before it.                 *)
Return ==
  /\ Operate("loading", "start", "load", None) \/ CancelAddAccount
  /\ UNCHANGED <<shared, bounds>>

(* The user selects another secret, leaves the page or closes the dialog.  *)
Hide ==
  /\ revealed
  /\ HideSensitive
  /\ UNCHANGED <<shared, screen, user, unlocked, shown, adding, synced, job, stale, bounds>>

RevealTimeout ==
  /\ timer
  /\ HideSensitive
  /\ UNCHANGED <<shared, screen, user, unlocked, shown, adding, synced, job, stale, bounds>>
-----------------------------------------------------------------------------
(* Other processes: the CLI, the watchdog of the agent.                    *)

Elsewhere ==
  /\ \/ /\ session' \in Maybe \ {session}
        /\ UNCHANGED <<key, vaults>>
     \/ /\ key # None /\ key' = None
        /\ UNCHANGED <<session, vaults>>
     \/ /\ session \in vaults /\ key # session /\ key' = session
        /\ UNCHANGED <<session, vaults>>
     \/ /\ session \notin vaults \cup {None} /\ vaults' = vaults \cup {session}
        /\ UNCHANGED <<session, key>>
  /\ changes < MaxChanges /\ changes' = changes + 1
  /\ UNCHANGED <<view, job, stale, clicks>>
-----------------------------------------------------------------------------
(* What holds after a step, for SyncFresh.                                 *)
Watched ==
  LET ended == At("op", "done") /\ job'["op"] # job["op"]
  IN  seen' = IF ~ Syncing' THEN [session |-> {}, open |-> {}]
              ELSE IF ~ Syncing \/ ended
              THEN [session |-> {session'}, open |-> {key' # None}]
              ELSE [session |-> seen.session \cup {session'},
                    open |-> seen.open \cup {key' # None}]

Next ==
  /\ \/ \E w \in Workers : WorkerStep(w) \/ Trouble(w) \/ TokenExpires(w)
     \/ Completion \/ SyncStart \/ SyncEnd \/ Click \/ Return \/ Hide
     \/ RevealTimeout \/ Elsewhere
  /\ Watched

(* Worker threads run, calls of server and agent end (ApiClient sets a     *)
(* timeout, ConnectionEnds of AgentSession), and the event loop delivers   *)
(* results and timers.                                                     *)
Fairness ==
  /\ \A w \in Workers : WF_vars(WorkerStep(w) /\ Watched)
  /\ WF_vars(Completion /\ Watched) /\ WF_vars(SyncStart /\ Watched)
  /\ WF_vars(SyncEnd /\ Watched) /\ WF_vars(RevealTimeout /\ Watched)

Spec == Init /\ [][Next]_vars
FairSpec == Spec /\ Fairness
-----------------------------------------------------------------------------
TypeOK ==
  /\ session \in Maybe /\ key \in Maybe /\ vaults \subseteq Accounts
  /\ screen \in Screens /\ user \in Maybe /\ shown \in Maybe
  /\ {unlocked, revealed, timer, adding, synced, stale} \subseteq BOOLEAN
  /\ \A w \in Workers :
       /\ job[w].kind \in Kinds /\ job[w].at \in Places /\ job[w].result \in Results
       /\ job[w].arg \in Maybe /\ job[w].who \in Maybe
       /\ {job[w].needs, job[w].full, job[w].records} \subseteq BOOLEAN
  /\ seen.session \subseteq Maybe /\ seen.open \subseteq BOOLEAN
  /\ clicks \in 0 .. MaxClicks /\ changes \in 0 .. MaxChanges

(* What a sync changes in the view was true at some time since it began,   *)
(* and since the last operation of the GUI ended: a sync that overlaps an  *)
(* unlock, a logout or a switch never undoes what these have shown         *)
(* (app_controller.cpp:311).                                               *)
ShowsWhatWas ==
  Syncing /\ ~ Syncing' /\ view' # view =>
    /\ user' \in seen.session
    /\ screen' \in {"app", "unlock"} => unlocked' \in seen.open
SyncFresh == [][ShowsWhatWas]_vars

(* When the user is asked to sign in because there is no session any more, *)
(* the list holds no records of the account before, whatever refresh or    *)
(* sync was under way when it ended.                                       *)
RecordsGone == screen = "login" /\ ~ adding => shown = None

(* A revealed value is hidden again, although only its timer sees to it:   *)
(* the screen on which its result arrives may be that of another account,  *)
(* and everything that hides a value also stops the timer, also while the  *)
(* next one is being read (app_controller.cpp:627).                        *)
RevealEnds == revealed ~> ~ revealed

(* The view shows session and agent; the exceptions are a user who is      *)
(* adding an account, a start that has failed and waits for Retry, and an  *)
(* agent with the key of another account.                                  *)
ViewCurrent ==
  \/ adding
  \/ ~ synced
  \/ screen = "loading" /\ session = None /\ user = None
  \/ key \notin {None, session}
  \/ CASE session = None -> screen = "login" /\ user = None /\ ~ unlocked
       [] session \in Accounts \ vaults -> screen = "setup" /\ user = session
       [] session \in vaults -> /\ user = session /\ unlocked = (key # None)
                                /\ screen = IF key = None THEN "unlock" ELSE "app"

(* Once other processes and the user let it, the view follows what they    *)
(* have done, and keeps doing so: no dropped result, failed call, refused  *)
(* operation or expired session stops the sync.                            *)
Converges == <>[]ViewCurrent
=============================================================================
