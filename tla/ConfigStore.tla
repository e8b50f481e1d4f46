------------------------------ MODULE ConfigStore ------------------------------
(***************************************************************************)
(* The files of a user that all CLI and GUI processes share, written by    *)
(* ConfigManager (client/src/config_manager.cpp): session.json, the        *)
(* session in use; accounts.json, the sessions that can be switched to;    *)
(* config.json, the preferences.  There is no lock.  write_json removes    *)
(* <file>.tmp, creates it with O_EXCL, fills it and renames it; the        *)
(* commands read, compute and write in steps that other processes          *)
(* interleave with, and that a kill or a full disk cuts short.  POSIX only.*)
(*                                                                         *)
(* Reads that change nothing (load, list_sessions, require_session) see    *)
(* what path holds; FilesWhole says what that can be.                      *)
(***************************************************************************)
EXTENDS FiniteSets

CONSTANTS
  Procs,     \* CLI and GUI processes
  Accounts,
  Settings,  \* keys of config.json
  None,      \* no file
  Torn       \* a file that was never filled, and has no writer any more

ASSUME ConfigAssumption ==
  /\ None # Torn
  /\ Procs \cap {None, Torn} = {}
  /\ (Accounts \cup Settings) \cap (Procs \cup {None, Torn}) = {}

VARIABLES
  path,     \* file -> its contents: {None}, {Torn}, {p} when process p has
            \*   created it and is about to fill it, or data
  tmp,      \* file -> the contents of <file>.tmp, likewise
  pc,       \* process -> where its command is
  cmd,      \* process -> its command
  mine,     \* process -> the account or the setting the command is about
  target,   \* process -> the file it writes
  draft,    \* process -> what it writes
  crowd,    \* two commands have run at once since all were last idle
  damaged,  \* a command has been cut short while others ran
  kept,     \* accounts that have logged in, and have not begun to log out
  asked,    \* accounts that a logout has been begun for
  gone      \* accounts that have logged out

vars == <<path, tmp, pc, cmd, mine, target, draft, crowd, damaged, kept, asked, gone>>
history == <<crowd, damaged, kept, asked, gone>>

Files == {"session", "accounts", "config"}
Commands == {"login", "logout", "switch", "set", "unset"}
Reading == {"look", "active", "accounts", "config"}
Writing == {"remove", "create", "fill", "rename"}
Places == {"idle", "error", "unlink"} \cup Reading \cup Writing

Idle(p) == pc[p] \in {"idle", "error"}
Data(f) == CASE f = "session" -> {{a} : a \in Accounts}
             [] f = "accounts" -> SUBSET Accounts
             [] f = "config" -> SUBSET Settings
Readable(f) == path[f] \in Data(f) \cup {{None}}
Contents(f) == path[f] \ {None}

Init ==
  /\ path = [f \in Files |-> {None}] /\ tmp = [f \in Files |-> {None}]
  /\ pc = [p \in Procs |-> "idle"] /\ cmd = [p \in Procs |-> "login"]
  /\ mine = [p \in Procs |-> None] /\ target = [p \in Procs |-> "session"]
  /\ draft = [p \in Procs |-> {}]
  /\ crowd = FALSE /\ damaged = FALSE
  /\ kept = {} /\ asked = {} /\ gone = {}
-----------------------------------------------------------------------------
(* Commands.                                                               *)

Go(p, place) == pc' = [pc EXCEPT ![p] = place]

(* A command that runs beside another one is outside what kept, asked and  *)
(* gone record.                                                            *)
Begin(p, c, x, place) ==
  LET alone == \A q \in Procs : Idle(q)
      active == path["session"] \cap Accounts
  IN  /\ Idle(p)
      /\ Go(p, place)
      /\ cmd' = [cmd EXCEPT ![p] = c]
      /\ mine' = [mine EXCEPT ![p] = x]
      /\ crowd' = ~ alone
      /\ kept' = IF ~ alone THEN {} ELSE IF c = "logout" THEN kept \ active ELSE kept
      /\ asked' = IF ~ alone \/ c \in {"login", "switch"} THEN {}
                  ELSE IF c = "logout" THEN asked \cup active ELSE asked
      /\ gone' = IF ~ alone THEN {} ELSE IF c = "login" THEN gone \ {x} ELSE gone
      /\ UNCHANGED <<path, tmp, damaged>>

Write(p, f, data) ==
  /\ Go(p, "remove")
  /\ target' = [target EXCEPT ![p] = f]
  /\ draft' = [draft EXCEPT ![p] = data]

(* The server has answered login or register: save_session.                *)
Login(p, a) ==
  /\ Begin(p, "login", a, "remove")
  /\ target' = [target EXCEPT ![p] = "session"]
  /\ draft' = [draft EXCEPT ![p] = {a}]

(* clear_session.                                                          *)
Logout(p) ==
  /\ Begin(p, "logout", None, "look")
  /\ UNCHANGED <<target, draft>>

(* activate_session.                                                       *)
Switch(p, a) ==
  /\ Begin(p, "switch", a, "accounts")
  /\ UNCHANGED <<target, draft>>

(* set and unset, the value being a valid one.                             *)
Configure(p, c, s) ==
  /\ Begin(p, c, s, "config")
  /\ UNCHANGED <<target, draft>>

(* The command is over, and what it knew is forgotten.                     *)
Leave(p, place) ==
  /\ Go(p, place)
  /\ cmd' = [cmd EXCEPT ![p] = "login"] /\ mine' = [mine EXCEPT ![p] = None]
  /\ target' = [target EXCEPT ![p] = "session"] /\ draft' = [draft EXCEPT ![p] = {}]
  /\ crowd' = (crowd /\ \E q \in Procs \ {p} : ~ Idle(q))

(* It ends well; alone, it has done what it is for.                        *)
Finish(p) ==
  /\ Leave(p, "idle")
  /\ kept' = IF ~ crowd /\ cmd[p] = "login" THEN kept \cup {mine[p]} ELSE kept
  /\ gone' = IF ~ crowd /\ cmd[p] = "logout" THEN gone \cup asked ELSE gone
  /\ UNCHANGED <<damaged, asked>>

(* An exception: "Unable to read configuration file" or "Unable to write   *)
(* user configuration", or that of rename.                                 *)
Fail(p) ==
  /\ Leave(p, "error")
  /\ UNCHANGED <<path, tmp, damaged, kept, asked, gone>>
-----------------------------------------------------------------------------
(* Reads.                                                                  *)

(* read_json asks whether the file exists before it opens it.              *)
LookActive(p) ==
  /\ pc[p] = "look"
  /\ Go(p, IF path["session"] = {None} THEN "unlink" ELSE "active")
  /\ UNCHANGED <<path, tmp, cmd, mine, target, draft, history>>

(* Mutant: the session is deleted before the accounts are rewritten.       *)
ReadActiveDeletes(p) ==
  /\ pc[p] = "active"
  /\ IF path["session"] \in Data("session")
     THEN /\ \E a \in path["session"] : mine' = [mine EXCEPT ![p] = a]
          /\ path' = [path EXCEPT !["session"] = {None}]
          /\ Go(p, "accounts")
          /\ UNCHANGED <<tmp, cmd, target, draft, history>>
     ELSE Fail(p)

ReadActive(p) ==
  /\ pc[p] = "active"
  /\ IF path["session"] \in Data("session")
     THEN /\ \E a \in path["session"] : mine' = [mine EXCEPT ![p] = a]
          /\ Go(p, "accounts")
          /\ UNCHANGED <<path, tmp, cmd, target, draft, history>>
     ELSE Fail(p)

(* Mutant: a login writes its own account only.                            *)
ReadAccountsAlone(p) ==
  /\ pc[p] = "accounts"
  /\ \/ /\ ~ Readable("accounts")
        /\ Fail(p)
     \/ LET known == Contents("accounts") IN
        /\ Readable("accounts")
        /\ \/ cmd[p] = "login" /\ Write(p, "accounts", {mine[p]})
           \/ cmd[p] = "logout" /\ Write(p, "accounts", known \ {mine[p]})
           \/ cmd[p] = "switch" /\ mine[p] \in known /\ Write(p, "session", {mine[p]})
        /\ UNCHANGED <<path, tmp, cmd, mine, history>>

(* Mutant: a switch writes all accounts into the session.                  *)
ReadAccountsWhole(p) ==
  /\ pc[p] = "accounts"
  /\ \/ /\ ~ Readable("accounts")
        /\ Fail(p)
     \/ LET known == Contents("accounts") IN
        /\ Readable("accounts")
        /\ \/ cmd[p] = "login" /\ Write(p, "accounts", known \cup {mine[p]})
           \/ cmd[p] = "logout" /\ Write(p, "accounts", known \ {mine[p]})
           \/ cmd[p] = "switch" /\ mine[p] \in known /\ Write(p, "session", known)
        /\ UNCHANGED <<path, tmp, cmd, mine, history>>

(* "Stored account not found" ends a switch without a change.              *)
ReadAccounts(p) ==
  /\ pc[p] = "accounts"
  /\ \/ /\ ~ Readable("accounts")
        /\ Fail(p)
     \/ LET known == Contents("accounts") IN
        /\ Readable("accounts")
        /\ \/ cmd[p] = "login" /\ Write(p, "accounts", known \cup {mine[p]})
           \/ cmd[p] = "logout" /\ Write(p, "accounts", known \ {mine[p]})
           \/ cmd[p] = "switch" /\ mine[p] \in known /\ Write(p, "session", {mine[p]})
        /\ UNCHANGED <<path, tmp, cmd, mine, history>>
     \/ /\ Readable("accounts") /\ cmd[p] = "switch" /\ mine[p] \notin Contents("accounts")
        /\ Finish(p)
        /\ UNCHANGED <<path, tmp>>

ReadConfig(p) ==
  /\ pc[p] = "config"
  /\ IF Readable("config")
     THEN /\ Write(p, "config", IF cmd[p] = "set" THEN Contents("config") \cup {mine[p]}
                                ELSE Contents("config") \ {mine[p]})
          /\ UNCHANGED <<path, tmp, cmd, mine, history>>
     ELSE Fail(p)
-----------------------------------------------------------------------------
(* write_json.                                                             *)

(* Mutant: a temporary file that is there is left there.                   *)
RemoveTmpNot(p) ==
  /\ pc[p] = "remove"
  /\ Go(p, "create")
  /\ UNCHANGED <<path, tmp, cmd, mine, target, draft, history>>

RemoveTmp(p) ==
  /\ pc[p] = "remove"
  /\ tmp' = [tmp EXCEPT ![target[p]] = {None}]
  /\ Go(p, "create")
  /\ UNCHANGED <<path, cmd, mine, target, draft, history>>

(* Mutant: the file itself is truncated and filled.                        *)
CreateInPlace(p) ==
  /\ pc[p] = "create"
  /\ path' = [path EXCEPT ![target[p]] = {p}]
  /\ tmp' = [tmp EXCEPT ![target[p]] = {p}]
  /\ Go(p, "fill")
  /\ UNCHANGED <<cmd, mine, target, draft, history>>

(* open with O_EXCL.                                                       *)
Create(p) ==
  /\ pc[p] = "create"
  /\ IF tmp[target[p]] = {None}
     THEN /\ tmp' = [tmp EXCEPT ![target[p]] = {p}]
          /\ Go(p, "fill")
          /\ UNCHANGED <<path, cmd, mine, target, draft, history>>
     ELSE Fail(p)

(* Whatever holds what p has opened, changes with it.                      *)
Becomes(p, contents) ==
  /\ path' = [f \in Files |-> IF path[f] = {p} THEN contents ELSE path[f]]
  /\ tmp' = [f \in Files |-> IF tmp[f] = {p} THEN contents ELSE tmp[f]]

(* write and close.                                                        *)
Fill(p) ==
  /\ pc[p] = "fill"
  /\ Becomes(p, draft[p])
  /\ Go(p, "rename")
  /\ UNCHANGED <<cmd, mine, target, draft, history>>

(* replace_file, and what the command does next.                           *)
Rename(p) ==
  LET f == target[p] IN
  /\ pc[p] = "rename"
  /\ IF tmp[f] = {None}
     THEN Fail(p)
     ELSE /\ path' = [path EXCEPT ![f] = tmp[f]]
          /\ tmp' = [tmp EXCEPT ![f] = {None}]
          /\ IF <<cmd[p], f>> \in {<<"logout", "accounts">>, <<"login", "session">>}
             THEN /\ Go(p, IF cmd[p] = "logout" THEN "unlink" ELSE "accounts")
                  /\ UNCHANGED <<cmd, mine, target, draft, history>>
             ELSE Finish(p)

(* The end of clear_session.                                               *)
Unlink(p) ==
  /\ pc[p] = "unlink"
  /\ path' = [path EXCEPT !["session"] = {None}]
  /\ Finish(p)
  /\ UNCHANGED tmp
-----------------------------------------------------------------------------
(* The process is killed, or its write meets a full disk.                  *)
CutShort(p) ==
  /\ ~ Idle(p)
  /\ Becomes(p, {Torn})
  /\ Leave(p, "idle")
  /\ damaged' = (damaged \/ crowd)
  /\ UNCHANGED <<kept, asked, gone>>
-----------------------------------------------------------------------------
Step(p) ==
  \/ LookActive(p) \/ ReadActive(p) \/ ReadAccounts(p) \/ ReadConfig(p)
  \/ RemoveTmp(p) \/ Create(p) \/ Fill(p) \/ Rename(p) \/ Unlink(p)

Next ==
  \E p \in Procs :
    \/ \E a \in Accounts : Login(p, a) \/ Switch(p, a)
    \/ Logout(p)
    \/ \E s \in Settings : Configure(p, "set", s) \/ Configure(p, "unset", s)
    \/ Step(p) \/ CutShort(p)

Spec == Init /\ [][Next]_vars
-----------------------------------------------------------------------------
TypeOK ==
  /\ \A f \in Files : {path[f], tmp[f]} \subseteq
                        {{x} : x \in Procs \cup {None, Torn}} \cup Data(f)
  /\ pc \in [Procs -> Places] /\ cmd \in [Procs -> Commands]
  /\ mine \in [Procs -> Accounts \cup Settings \cup {None}]
  /\ target \in [Procs -> Files]
  /\ \A p \in Procs : pc[p] \in Writing => draft[p] \in Data(target[p])
  /\ {crowd, damaged} \subseteq BOOLEAN
  /\ kept \subseteq Accounts /\ asked \subseteq Accounts /\ gone \subseteq Accounts

(* A reader never meets half a file: session.json, accounts.json and       *)
(* config.json are whole whatever is killed at whatever step, unless two   *)
(* commands write at once (one can then rename what the other has not      *)
(* filled yet: they share the name of the temporary file), and they are    *)
(* broken for good only if one of these is cut short as well.              *)
FilesWhole ==
  ~ damaged => \A f \in Files : /\ Torn \notin path[f]
                                /\ path[f] \cap Procs # {} => crowd

(* What a killed command leaves behind does not stop the next one: no      *)
(* command that runs alone ends in an error, although the file is created  *)
(* with O_EXCL (config_manager.cpp:69, 131).                               *)
FailureExcused ==
  \A p \in Procs : ~ Idle(p) /\ pc'[p] = "error" => crowd \/ damaged
FailsOnlyInCrowd == [][FailureExcused]_vars

(* An account that has logged in can be switched to until it logs out,     *)
(* whatever other accounts and cut-short commands have done since.         *)
AccountsKept == kept # {} => Readable("accounts") /\ kept \subseteq Contents("accounts")

(* After nox logout nothing of the account is left in the two files, also  *)
(* when the logout that ended well was preceded by one that was cut short  *)
(* between the two: accounts.json is rewritten before session.json, which  *)
(* says what to remove, is deleted (config_manager.cpp:235-247).           *)
LogoutSticks ==
  gone # {} => /\ path["session"] \cap gone = {}
               /\ Readable("accounts") /\ Contents("accounts") \cap gone = {}
=============================================================================
