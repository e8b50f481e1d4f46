-------------------------- MODULE ConfigStore_proofs --------------------------
(***************************************************************************)
(* For any number of processes, accounts and settings: the files keep      *)
(* their types, a reader never meets half a file, accounts that have       *)
(* logged in are kept, a logout leaves nothing behind, and a command that  *)
(* runs alone does not fail.                                               *)
(*                                                                         *)
(* The argument is about who is at work.  A file that is open has its      *)
(* writer, and two writers are a crowd (StoreInv); while there has been no *)
(* crowd the one command at work can be followed step by step (AloneInv).  *)
(***************************************************************************)
EXTENDS ConfigStore, TLAPS

(* What a login or a configuration is about, what commands write, and that *)
(* there are no other files.                                               *)
MineSound ==
  /\ DOMAIN path = Files /\ DOMAIN tmp = Files
  /\ draft \in [Procs -> SUBSET (Accounts \cup Settings)]
  /\ \A p \in Procs :
    /\ ~ Idle(p) /\ cmd[p] = "login" => mine[p] \in Accounts
    /\ pc[p] = "config" => mine[p] \in Settings

(* A file that is open for writing has its writer, wherever it has been    *)
(* moved to.                                                               *)
WriterFilling ==
  \A f \in Files, p \in Procs :
    path[f] = {p} \/ tmp[f] = {p} => pc[p] = "fill" /\ target[p] = f

(* Two commands under way are a crowd.                                     *)
CrowdSound == \A p, q \in Procs : p # q /\ ~ Idle(p) /\ ~ Idle(q) => crowd

(* Nobody is about to rename what a cut-short command has left, unless     *)
(* that command was cut short beside another one.                          *)
TmpWhole ==
  ~ damaged => \A p \in Procs : pc[p] \in {"fill", "rename"} => tmp[target[p]] # {Torn}

StoreInv == TypeOK /\ MineSound /\ WriterFilling /\ CrowdSound /\ TmpWhole /\ FilesWhole

Contained(f) == {{x} : x \in Procs \cup {None, Torn}} \cup Data(f)

(* Data is neither a missing file nor a torn or half-written one.          *)
LEMMA DataWhole ==
  ASSUME NEW f \in Files, NEW d \in Data(f)
  PROVE  Torn \notin d /\ None \notin d /\ d \cap Procs = {}
<1>1. d \subseteq Accounts \cup Settings
  BY DEF Data, Files
<1> QED
  BY <1>1, ConfigAssumption DEF ConfigAssumption

LEMMA InitInv == Init => StoreInv
<1> SUFFICES ASSUME Init PROVE StoreInv
  OBVIOUS
<1> USE DEF Init
<1>1. TypeOK
  BY DEF TypeOK, Places, Commands, Files, Writing
<1>2. MineSound /\ CrowdSound /\ TmpWhole
  BY DEF MineSound, CrowdSound, TmpWhole, Idle
<1>3. WriterFilling /\ FilesWhole
  BY ConfigAssumption DEF ConfigAssumption, WriterFilling, FilesWhole
<1> QED
  BY <1>1, <1>2, <1>3 DEF StoreInv

(* A process other than p that is at work.                                 *)
Others(p) == \E q \in Procs \ {p} : ~ Idle(q)

(* Steps that touch no file: a command begins, reads, or ends.             *)
LEMMA Quiet ==
  ASSUME StoreInv, TypeOK', MineSound', NEW p \in Procs, NEW place \in Places,
         pc[p] # "fill", place \notin {"fill", "rename"},
         path' = path, tmp' = tmp, damaged' = damaged,
         pc' = [pc EXCEPT ![p] = place],
         \A q \in Procs \ {p} : target'[q] = target[q],
         \/ ~ Idle(p) /\ (crowd' <=> crowd)
         \/ crowd' <=> Others(p)
         \/ place \in {"idle", "error"} /\ (crowd' <=> crowd /\ Others(p))
  PROVE  StoreInv'
<1>1. pc \in [Procs -> Places]
  BY DEF StoreInv, TypeOK
<1>2. \A q \in Procs \ {p} : pc'[q] = pc[q] /\ target'[q] = target[q]
  BY <1>1
<1>3. pc'[p] = place
  BY <1>1
<1>4. WriterFilling'
  BY <1>2, <1>3 DEF StoreInv, WriterFilling
<1>5. CrowdSound'
  <2>1. ASSUME NEW q \in Procs, NEW r \in Procs, q # r, ~ Idle(q)', ~ Idle(r)'
        PROVE  crowd'
    <3>1. PICK s \in {q, r} : s # p
      BY <2>1
    <3>2. ~ Idle(s)
      BY <1>2, <2>1, <3>1 DEF Idle
    <3>3. Others(p)
      BY <3>1, <3>2 DEF Others
    <3>4. ASSUME ~ Idle(p) PROVE crowd
      BY <3>1, <3>2, <3>4 DEF StoreInv, CrowdSound
    <3>5. CASE place \in {"idle", "error"}
      <4>1. q # p /\ r # p
        BY <1>3, <2>1, <3>5 DEF Idle
      <4>2. crowd
        BY <1>2, <2>1, <4>1 DEF StoreInv, CrowdSound, Idle
      <4> QED
        BY <3>3, <4>2
    <3> QED
      BY <3>3, <3>4, <3>5
  <2> QED
    BY <2>1 DEF CrowdSound
<1>6. TmpWhole'
  BY <1>2, <1>3 DEF StoreInv, TmpWhole
<1>7. ASSUME ~ damaged', NEW f \in Files
      PROVE  Torn \notin path'[f] /\ (path'[f] \cap Procs # {} => crowd')
  <2>1. Torn \notin path[f] /\ (path[f] \cap Procs # {} => crowd)
    BY <1>7 DEF StoreInv, FilesWhole
  <2>2. ASSUME path[f] \cap Procs # {} PROVE crowd'
    <3>1. path[f] \in Contained(f)
      BY DEF StoreInv, TypeOK, Contained
    <3>2. PICK q \in Procs : path[f] = {q}
      BY <2>2, <3>1, DataWhole, ConfigAssumption DEF Contained, ConfigAssumption
    <3>3. pc[q] = "fill"
      BY <3>2 DEF StoreInv, WriterFilling
    <3>4. Others(p)
      BY <3>3 DEF Others, Idle
    <3> QED
      BY <2>1, <2>2, <3>4
  <2> QED
    BY <2>1, <2>2
<1>8. FilesWhole'
  BY <1>7 DEF FilesWhole
<1> QED
  BY <1>4, <1>5, <1>6, <1>8 DEF StoreInv

(* Types, in parts.                                                        *)
FilesTyped ==
  /\ DOMAIN path = Files /\ DOMAIN tmp = Files
  /\ \A f \in Files : path[f] \in Contained(f) /\ tmp[f] \in Contained(f)
LocalTyped ==
  /\ pc \in [Procs -> Places] /\ cmd \in [Procs -> Commands]
  /\ mine \in [Procs -> Accounts \cup Settings \cup {None}]
  /\ target \in [Procs -> Files]
  /\ draft \in [Procs -> SUBSET (Accounts \cup Settings)]
HistoryTyped ==
  /\ crowd \in BOOLEAN /\ damaged \in BOOLEAN
  /\ kept \subseteq Accounts /\ asked \subseteq Accounts /\ gone \subseteq Accounts

(* A step changes the variables of its process only.                       *)
OnlyOf(p) ==
  \A q \in Procs \ {p} : /\ pc'[q] = pc[q] /\ cmd'[q] = cmd[q] /\ mine'[q] = mine[q]
                         /\ target'[q] = target[q] /\ draft'[q] = draft[q]

LEMMA TypedParts == StoreInv => FilesTyped /\ LocalTyped /\ HistoryTyped
BY DEF StoreInv, TypeOK, MineSound, FilesTyped, LocalTyped, HistoryTyped, Contained

LEMMA TypesStep ==
  ASSUME StoreInv, NEW p \in Procs, FilesTyped', LocalTyped', HistoryTyped', OnlyOf(p),
         pc'[p] \in Writing => draft'[p] \in Data(target'[p]),
         ~ Idle(p)' /\ cmd'[p] = "login" => mine'[p] \in Accounts,
         pc'[p] = "config" => mine'[p] \in Settings
  PROVE  TypeOK' /\ MineSound'
<1>1. \A q \in Procs : pc'[q] \in Writing => draft'[q] \in Data(target'[q])
  BY DEF StoreInv, TypeOK, OnlyOf
<1>2. \A f \in Files : {path'[f], tmp'[f]} \subseteq Contained(f)'
  BY DEF FilesTyped
<1>3. TypeOK'
  BY <1>1, <1>2 DEF TypeOK, LocalTyped, HistoryTyped, Contained
<1>4. MineSound'
  BY DEF StoreInv, MineSound, FilesTyped, LocalTyped, OnlyOf, Idle
<1> QED
  BY <1>3, <1>4

(* A command begins.                                                       *)
LEMMA BeginInv ==
  ASSUME StoreInv, NEW p \in Procs, NEW c \in Commands,
         NEW x \in Accounts \cup Settings \cup {None},
         NEW place \in {"remove", "look", "accounts", "config"},
         Begin(p, c, x, place),
         c = "login" => x \in Accounts, place = "config" => x \in Settings,
         target' \in [Procs -> Files], draft' \in [Procs -> SUBSET (Accounts \cup Settings)],
         \A q \in Procs \ {p} : target'[q] = target[q] /\ draft'[q] = draft[q],
         place = "remove" => draft'[p] \in Data(target'[p])
  PROVE  StoreInv'
<1>1. /\ Idle(p) /\ path' = path /\ tmp' = tmp /\ damaged' = damaged
      /\ pc' = [pc EXCEPT ![p] = place]
      /\ cmd' = [cmd EXCEPT ![p] = c] /\ mine' = [mine EXCEPT ![p] = x]
  BY DEF Begin, Go
<1>2. FilesTyped /\ LocalTyped /\ HistoryTyped
  BY TypedParts
<1>3. place \in Places
  BY DEF Places, Reading, Writing
<1>4. crowd' \in BOOLEAN /\ (crowd' <=> Others(p))
  BY <1>1 DEF Begin, Others
<1>5. HistoryTyped'
  <2>1. kept' \subseteq Accounts /\ asked' \subseteq Accounts /\ gone' \subseteq Accounts
    BY <1>2 DEF Begin, HistoryTyped
  <2> QED
    BY <1>1, <1>2, <1>4, <2>1 DEF HistoryTyped
<1>6. LocalTyped' /\ OnlyOf(p)
  BY <1>1, <1>2, <1>3 DEF LocalTyped, OnlyOf
<1>7. FilesTyped'
  BY <1>1, <1>2 DEF FilesTyped, Contained
<1>8. pc'[p] = place /\ cmd'[p] = c /\ mine'[p] = x
  BY <1>1, <1>2 DEF LocalTyped
<1>9. pc'[p] \in Writing => draft'[p] \in Data(target'[p])
  BY <1>8 DEF Writing
<1>10. TypeOK' /\ MineSound'
  BY <1>5, <1>6, <1>7, <1>8, <1>9, TypesStep
<1>11. pc[p] # "fill" /\ place \notin {"fill", "rename"}
  BY <1>1 DEF Idle
<1> QED
  BY <1>1, <1>3, <1>4, <1>10, <1>11, Quiet

(* A command ends, well or in an error, at a step that touches no file.    *)
LEMMA LeaveTyped ==
  ASSUME StoreInv, NEW p \in Procs, NEW place \in {"idle", "error"}, Leave(p, place),
         FilesTyped', damaged' \in BOOLEAN,
         kept' \subseteq Accounts, asked' \subseteq Accounts, gone' \subseteq Accounts
  PROVE  /\ TypeOK' /\ MineSound' /\ OnlyOf(p) /\ pc'[p] = place
         /\ crowd' <=> crowd /\ Others(p)
<1>1. /\ pc' = [pc EXCEPT ![p] = place] /\ cmd' = [cmd EXCEPT ![p] = "login"]
      /\ mine' = [mine EXCEPT ![p] = None] /\ target' = [target EXCEPT ![p] = "session"]
      /\ draft' = [draft EXCEPT ![p] = {}]
  BY DEF Leave, Go
<1>2. LocalTyped /\ HistoryTyped
  BY TypedParts
<1>3. crowd' \in BOOLEAN /\ (crowd' <=> crowd /\ Others(p))
  BY <1>2 DEF Leave, Others, HistoryTyped
<1>4. LocalTyped' /\ OnlyOf(p) /\ pc'[p] = place
  BY <1>1, <1>2 DEF LocalTyped, OnlyOf, Places, Commands, Files
<1>5. HistoryTyped'
  BY <1>3 DEF HistoryTyped
<1> QED
  BY <1>3, <1>4, <1>5, TypesStep DEF Writing, Idle

LEMMA LeaveInv ==
  ASSUME StoreInv, NEW p \in Procs, NEW place \in {"idle", "error"}, Leave(p, place),
         pc[p] # "fill", path' = path, tmp' = tmp, damaged' = damaged,
         kept' \subseteq Accounts, asked' \subseteq Accounts, gone' \subseteq Accounts
  PROVE  StoreInv'
<1>1. FilesTyped /\ HistoryTyped
  BY TypedParts
<1>2. FilesTyped' /\ damaged' \in BOOLEAN
  BY <1>1 DEF FilesTyped, HistoryTyped, Contained
<1>3. /\ TypeOK' /\ MineSound' /\ OnlyOf(p)
      /\ crowd' <=> crowd /\ Others(p)
  BY <1>2, LeaveTyped
<1>4. pc' = [pc EXCEPT ![p] = place] /\ place \in Places /\ place \notin {"fill", "rename"}
  BY DEF Leave, Go, Places
<1> QED
  BY <1>3, <1>4, Quiet DEF OnlyOf

(* A command that reads goes on.                                           *)
LEMMA ReadInv ==
  ASSUME StoreInv, NEW p \in Procs, pc[p] \in Reading,
         NEW place \in {"active", "accounts", "unlink", "remove"},
         Go(p, place), UNCHANGED <<path, tmp, cmd, history>>,
         mine' \in [Procs -> Accounts \cup Settings \cup {None}],
         target' \in [Procs -> Files], draft' \in [Procs -> SUBSET (Accounts \cup Settings)],
         \A q \in Procs \ {p} : mine'[q] = mine[q] /\ target'[q] = target[q] /\ draft'[q] = draft[q],
         mine'[p] = mine[p] \/ mine'[p] \in Accounts,
         place = "remove" => draft'[p] \in Data(target'[p])
  PROVE  StoreInv'
<1>1. pc' = [pc EXCEPT ![p] = place] /\ ~ Idle(p) /\ pc[p] # "fill"
  BY DEF Go, Idle, Reading
<1>2. FilesTyped /\ LocalTyped /\ HistoryTyped
  BY TypedParts
<1>3. place \in Places /\ place \notin {"fill", "rename"}
  BY DEF Places, Reading, Writing
<1>4. LocalTyped' /\ OnlyOf(p) /\ pc'[p] = place
  BY <1>1, <1>2, <1>3 DEF LocalTyped, OnlyOf
<1>5. FilesTyped' /\ HistoryTyped'
  BY <1>2 DEF FilesTyped, HistoryTyped, Contained, history
<1>6. cmd'[p] = "login" => mine'[p] \in Accounts
  BY <1>1 DEF StoreInv, MineSound
<1>7. TypeOK' /\ MineSound'
  BY <1>4, <1>5, <1>6, TypesStep DEF Writing
<1> QED
  BY <1>1, <1>3, <1>4, <1>7, Quiet DEF OnlyOf, history

(* The actions that touch no file.                                         *)
LEMMA QuietSteps ==
  ASSUME StoreInv, NEW p \in Procs,
         \/ \E a \in Accounts : Login(p, a) \/ Switch(p, a)
         \/ Logout(p)
         \/ \E s \in Settings : Configure(p, "set", s) \/ Configure(p, "unset", s)
         \/ LookActive(p) \/ ReadActive(p) \/ ReadAccounts(p) \/ ReadConfig(p)
  PROVE  StoreInv'
<1>1. FilesTyped /\ LocalTyped /\ HistoryTyped
  BY TypedParts
<1>2. ASSUME Fail(p), pc[p] # "fill" PROVE StoreInv'
  BY <1>1, <1>2, LeaveInv DEF Fail, HistoryTyped
<1>3. ASSUME NEW a \in Accounts, Login(p, a) PROVE StoreInv'
  <2>1. /\ target' = [target EXCEPT ![p] = "session"] /\ draft' = [draft EXCEPT ![p] = {a}]
        /\ Begin(p, "login", a, "remove")
    BY <1>3 DEF Login
  <2>2. /\ target' \in [Procs -> Files] /\ draft' \in [Procs -> SUBSET (Accounts \cup Settings)]
        /\ \A q \in Procs \ {p} : target'[q] = target[q] /\ draft'[q] = draft[q]
        /\ draft'[p] \in Data(target'[p])
    BY <1>1, <2>1 DEF LocalTyped, Files, Data
  <2> QED
    BY <2>1, <2>2, BeginInv DEF Commands
<1>4. ASSUME NEW a \in Accounts, Switch(p, a) PROVE StoreInv'
  BY <1>1, <1>4, BeginInv DEF Switch, Commands, LocalTyped
<1>5. ASSUME Logout(p) PROVE StoreInv'
  BY <1>1, <1>5, BeginInv DEF Logout, Commands, LocalTyped
<1>6. ASSUME NEW s \in Settings, NEW c \in {"set", "unset"}, Configure(p, c, s) PROVE StoreInv'
  BY <1>1, <1>6, BeginInv DEF Configure, Commands, LocalTyped
<1>7. ASSUME LookActive(p) PROVE StoreInv'
  <2>1. PICK place \in {"active", "unlink"} : Go(p, place)
    BY <1>7 DEF LookActive
  <2> QED
    BY <1>1, <1>7, <2>1, ReadInv DEF LookActive, Reading, LocalTyped
<1>8. ASSUME ReadActive(p) PROVE StoreInv'
  <2>1. CASE path["session"] \notin Data("session")
    BY <1>2, <1>8, <2>1 DEF ReadActive
  <2>2. CASE path["session"] \in Data("session")
    <3>1. PICK a \in path["session"] : mine' = [mine EXCEPT ![p] = a]
      BY <1>8, <2>2 DEF ReadActive
    <3>2. a \in Accounts
      BY <2>2, <3>1 DEF Data
    <3>3. /\ mine' \in [Procs -> Accounts \cup Settings \cup {None}] /\ mine'[p] = a
          /\ \A q \in Procs \ {p} : mine'[q] = mine[q]
      BY <1>1, <3>1, <3>2 DEF LocalTyped
    <3>4. Go(p, "accounts") /\ UNCHANGED <<path, tmp, cmd, history, target, draft>>
      BY <1>8, <2>2 DEF ReadActive
    <3> QED
      BY <1>1, <1>8, <3>2, <3>3, <3>4, ReadInv DEF ReadActive, Reading, LocalTyped
  <2> QED
    BY <2>1, <2>2
(* A read that is followed by a write.                                     *)
<1>9. ASSUME pc[p] \in Reading, NEW f \in Files, NEW d \in Data(f), Write(p, f, d),
             UNCHANGED <<path, tmp, cmd, mine, history>>
      PROVE  StoreInv'
  <2>1. d \subseteq Accounts \cup Settings
    BY DEF Data, Files
  <2>2. target' = [target EXCEPT ![p] = f] /\ draft' = [draft EXCEPT ![p] = d] /\ Go(p, "remove")
    BY <1>9 DEF Write
  <2>3. /\ target' \in [Procs -> Files] /\ draft' \in [Procs -> SUBSET (Accounts \cup Settings)]
        /\ \A q \in Procs \ {p} : target'[q] = target[q] /\ draft'[q] = draft[q]
        /\ target'[p] = f /\ draft'[p] = d
    BY <1>1, <2>1, <2>2 DEF LocalTyped
  <2> QED
    BY <1>1, <1>9, <2>2, <2>3, ReadInv DEF LocalTyped
<1>10. ASSUME ReadAccounts(p) PROVE StoreInv'
  <2>1. pc[p] = "accounts" /\ pc[p] \in Reading /\ "accounts" \in Files /\ "session" \in Files /\ ~ Idle(p)
    BY <1>10 DEF ReadAccounts, Reading, Files, Idle
  <2>2. ASSUME Readable("accounts") PROVE Contents("accounts") \subseteq Accounts
    BY <2>2 DEF Readable, Contents, Data
  <2>3. CASE ~ Readable("accounts") /\ Fail(p)
    BY <1>2, <2>1, <2>3
  <2>4. CASE /\ Readable("accounts") /\ UNCHANGED <<path, tmp, cmd, mine, history>>
             /\ cmd[p] = "login" /\ Write(p, "accounts", Contents("accounts") \cup {mine[p]})
    <3>1. mine[p] \in Accounts
      BY <2>1, <2>4 DEF StoreInv, MineSound
    <3>2. Contents("accounts") \cup {mine[p]} \in Data("accounts")
      BY <2>2, <2>4, <3>1 DEF Data
    <3> QED
      BY <1>9, <2>1, <2>4, <3>2
  <2>5. CASE /\ Readable("accounts") /\ UNCHANGED <<path, tmp, cmd, mine, history>>
             /\ Write(p, "accounts", Contents("accounts") \ {mine[p]})
    <3>1. Contents("accounts") \ {mine[p]} \in Data("accounts")
      BY <2>2, <2>5 DEF Data
    <3> QED
      BY <1>9, <2>1, <2>5, <3>1
  <2>6. CASE /\ Readable("accounts") /\ UNCHANGED <<path, tmp, cmd, mine, history>>
             /\ mine[p] \in Contents("accounts") /\ Write(p, "session", {mine[p]})
    <3>1. {mine[p]} \in Data("session")
      BY <2>2, <2>6 DEF Data
    <3> QED
      BY <1>9, <2>1, <2>6, <3>1
  <2>7. CASE cmd[p] = "switch" /\ Finish(p) /\ UNCHANGED <<path, tmp>>
    <3>1. kept' \subseteq Accounts /\ asked' \subseteq Accounts /\ gone' \subseteq Accounts /\ damaged' = damaged
      BY <1>1, <2>7 DEF Finish, HistoryTyped
    <3> QED
      BY <2>1, <2>7, <3>1, LeaveInv DEF Finish
  <2> QED
    BY <1>10, <2>3, <2>4, <2>5, <2>6, <2>7 DEF ReadAccounts
<1>11. ASSUME ReadConfig(p) PROVE StoreInv'
  <2>1. pc[p] = "config" /\ pc[p] \in Reading /\ "config" \in Files
    BY <1>11 DEF ReadConfig, Reading, Files
  <2>2. CASE ~ Readable("config")
    BY <1>2, <1>11, <2>1, <2>2 DEF ReadConfig
  <2>3. CASE Readable("config")
    <3>1. Contents("config") \subseteq Settings /\ mine[p] \in Settings
      BY <2>1, <2>3 DEF Readable, Contents, Data, StoreInv, MineSound
    <3>2. PICK d \in Data("config") : Write(p, "config", d)
      BY <1>11, <2>3, <3>1 DEF ReadConfig, Data
    <3>3. UNCHANGED <<path, tmp, cmd, mine, history>>
      BY <1>11, <2>3 DEF ReadConfig
    <3> QED
      BY <1>9, <2>1, <3>2, <3>3
  <2> QED
    BY <2>2, <2>3
<1> QED
  BY <1>3, <1>4, <1>5, <1>6, <1>7, <1>8, <1>10, <1>11

LEMMA CrowdKept ==
  ASSUME StoreInv, NEW p \in Procs, OnlyOf(p), ~ Idle(p),
         \/ crowd' <=> crowd
         \/ Idle(p)' /\ (crowd' <=> crowd /\ Others(p))
  PROVE  CrowdSound'
<1>1. ASSUME NEW q \in Procs, NEW r \in Procs, q # r, ~ Idle(q)', ~ Idle(r)'
      PROVE  crowd'
  <2>1. PICK s \in {q, r} : s # p
    BY <1>1
  <2>2. ~ Idle(s)
    BY <1>1, <2>1 DEF Idle, OnlyOf
  <2>3. Others(p) /\ crowd
    BY <2>1, <2>2 DEF Others, StoreInv, CrowdSound
  <2> QED
    BY <2>3
<1> QED
  BY <1>1 DEF CrowdSound

(* What a process at work meets half-written was created by another one.   *)
LEMMA HalfWritten ==
  ASSUME StoreInv, NEW p \in Procs, pc[p] # "fill", ~ Idle(p),
         NEW f \in Files, NEW contents \in {path[f], tmp[f]}, contents \cap Procs # {}
  PROVE  Others(p) /\ crowd
<1>1. contents \in Contained(f)
  BY TypedParts DEF FilesTyped
<1>2. PICK q \in Procs : contents = {q}
  BY <1>1, DataWhole, ConfigAssumption DEF Contained, ConfigAssumption
<1>3. pc[q] = "fill"
  BY <1>2 DEF StoreInv, WriterFilling
<1> QED
  BY <1>3 DEF Others, Idle, StoreInv, CrowdSound

(* A command under way goes on.                                            *)
LEMMA MoveTyped ==
  ASSUME StoreInv, NEW p \in Procs, ~ Idle(p),
         NEW place \in {"create", "fill", "rename", "unlink", "accounts"}, Go(p, place),
         pc[p] \in Writing, UNCHANGED <<cmd, mine, target, draft, history>>, FilesTyped'
  PROVE  /\ TypeOK' /\ MineSound' /\ CrowdSound' /\ OnlyOf(p) /\ pc'[p] = place
<1>1. pc' = [pc EXCEPT ![p] = place]
  BY DEF Go
<1>2. LocalTyped /\ HistoryTyped
  BY TypedParts
<1>3. place \in Places
  BY DEF Places, Reading, Writing
<1>4. LocalTyped' /\ HistoryTyped' /\ OnlyOf(p) /\ pc'[p] = place
  BY <1>1, <1>2, <1>3 DEF LocalTyped, HistoryTyped, OnlyOf, history
<1>5. draft'[p] \in Data(target'[p])
  BY DEF StoreInv, TypeOK
<1>6. cmd'[p] = "login" => mine'[p] \in Accounts
  BY DEF StoreInv, MineSound
<1>7. TypeOK' /\ MineSound'
  BY <1>4, <1>5, <1>6, TypesStep
<1>8. CrowdSound'
  BY <1>4, CrowdKept DEF history
<1> QED
  BY <1>4, <1>7, <1>8

(* A command under way ends.                                               *)
LEMMA EndTyped ==
  ASSUME StoreInv, NEW p \in Procs, ~ Idle(p), Finish(p), FilesTyped'
  PROVE  /\ TypeOK' /\ MineSound' /\ CrowdSound' /\ OnlyOf(p) /\ pc'[p] = "idle"
         /\ damaged' = damaged /\ (crowd' <=> crowd /\ Others(p))
<1>1. HistoryTyped
  BY TypedParts
<1>2. /\ kept' \subseteq Accounts /\ asked' \subseteq Accounts /\ gone' \subseteq Accounts
      /\ damaged' = damaged /\ damaged' \in BOOLEAN
  <2>1. cmd[p] = "login" => mine[p] \in Accounts
    BY DEF StoreInv, MineSound
  <2> QED
    BY <1>1, <2>1 DEF Finish, HistoryTyped
<1>3. Leave(p, "idle")
  BY DEF Finish
<1>4. /\ TypeOK' /\ MineSound' /\ OnlyOf(p) /\ pc'[p] = "idle"
      /\ (crowd' <=> crowd /\ Others(p))
  BY <1>2, <1>3, LeaveTyped
<1>5. CrowdSound'
  BY <1>4, CrowdKept DEF Idle
<1> QED
  BY <1>2, <1>4, <1>5

LEMMA RemoveTmpInv == ASSUME StoreInv, NEW p \in Procs, RemoveTmp(p) PROVE StoreInv'
<1>1. FilesTyped /\ LocalTyped
  BY TypedParts
<1>2. /\ pc[p] = "remove" /\ Go(p, "create") /\ tmp' = [tmp EXCEPT ![target[p]] = {None}]
      /\ UNCHANGED <<path, cmd, mine, target, draft, history>>
  BY DEF RemoveTmp
<1>3. \A f \in Files : tmp'[f] \in {tmp[f], {None}}
  BY <1>2
<1>4. FilesTyped'
  BY <1>1, <1>2, <1>3 DEF FilesTyped, Contained
<1>5. TypeOK' /\ MineSound' /\ CrowdSound' /\ OnlyOf(p) /\ pc'[p] = "create"
  BY <1>2, <1>4, MoveTyped DEF Idle, Writing
<1>6. WriterFilling'
  BY <1>2, <1>3, <1>5, ConfigAssumption DEF StoreInv, WriterFilling, OnlyOf, ConfigAssumption
<1>7. TmpWhole'
  <2>1. \A q \in Procs : target[q] \in Files /\ target'[q] = target[q]
    BY <1>1, <1>2 DEF LocalTyped
  <2>2. {None} # {Torn}
    BY ConfigAssumption DEF ConfigAssumption
  <2> QED
    BY <1>2, <1>3, <1>5, <2>1, <2>2 DEF StoreInv, TmpWhole, OnlyOf, history
<1>8. FilesWhole'
  BY <1>2 DEF StoreInv, FilesWhole, history
<1> QED
  BY <1>5, <1>6, <1>7, <1>8 DEF StoreInv

LEMMA CreateInv == ASSUME StoreInv, NEW p \in Procs, Create(p) PROVE StoreInv'
<1>1. FilesTyped /\ LocalTyped /\ HistoryTyped
  BY TypedParts
<1>2. CASE tmp[target[p]] # {None}
  BY <1>1, <1>2, LeaveInv DEF Create, Fail, HistoryTyped
<1>3. CASE tmp[target[p]] = {None}
  <2>1. /\ pc[p] = "create" /\ Go(p, "fill") /\ tmp' = [tmp EXCEPT ![target[p]] = {p}]
        /\ UNCHANGED <<path, cmd, mine, target, draft, history>>
    BY <1>3 DEF Create
  <2>2. \A f \in Files : tmp'[f] = tmp[f] \/ (f = target[p] /\ tmp'[f] = {p})
    BY <1>1, <2>1 DEF FilesTyped
  <2>3. FilesTyped'
    <3>1. DOMAIN path' = Files /\ DOMAIN tmp' = Files
      BY <1>1, <2>1 DEF FilesTyped
    <3>2. \A f \in Files : path'[f] \in Contained(f) /\ tmp'[f] \in Contained(f)
      BY <1>1, <2>1, <2>2 DEF FilesTyped, Contained
    <3> QED
      BY <3>1, <3>2 DEF FilesTyped, Contained
  <2>4. TypeOK' /\ MineSound' /\ CrowdSound' /\ OnlyOf(p) /\ pc'[p] = "fill"
    BY <2>1, <2>3, MoveTyped DEF Idle, Writing
  <2>5. WriterFilling'
    <3>1. ASSUME NEW f \in Files, NEW q \in Procs, path'[f] = {q} \/ tmp'[f] = {q}
          PROVE  pc'[q] = "fill" /\ target'[q] = f
      <4>1. CASE path[f] = {q} \/ tmp[f] = {q}
        BY <2>1, <2>4, <4>1 DEF StoreInv, WriterFilling, OnlyOf
      <4>2. CASE f = target[p] /\ q = p
        BY <2>1, <2>4, <4>2
      <4> QED
        BY <2>1, <2>2, <3>1, <4>1, <4>2
    <3> QED
      BY <3>1 DEF WriterFilling
  <2>6. TmpWhole'
    <3>1. {p} # {Torn}
      BY ConfigAssumption DEF ConfigAssumption
    <3>2. tmp'[target[p]] = {p}
      BY <1>1, <2>1 DEF FilesTyped, LocalTyped
    <3>3. \A q \in Procs : target[q] \in Files /\ target'[q] = target[q]
      BY <1>1, <2>1 DEF LocalTyped
    <3> QED
      BY <2>1, <2>2, <2>4, <3>1, <3>2, <3>3 DEF StoreInv, TmpWhole, OnlyOf, history
  <2>7. FilesWhole'
    BY <2>1 DEF StoreInv, FilesWhole, history
  <2> QED
    BY <2>4, <2>5, <2>6, <2>7 DEF StoreInv
<1> QED
  BY <1>2, <1>3

(* A fill or a cut gives what p has open its new contents.                 *)
LEMMA BecomesFacts ==
  ASSUME StoreInv, NEW p \in Procs, NEW contents, Becomes(p, contents),
         \A f \in Files : path[f] = {p} \/ tmp[f] = {p} => contents \in Contained(f)
  PROVE  /\ FilesTyped'
         /\ \A f \in Files : /\ path'[f] = IF path[f] = {p} THEN contents ELSE path[f]
                            /\ tmp'[f] = IF tmp[f] = {p} THEN contents ELSE tmp[f]
<1>1. FilesTyped
  BY TypedParts
<1>2. DOMAIN path' = Files /\ DOMAIN tmp' = Files
  BY DEF Becomes
<1>3. \A f \in Files : /\ path'[f] = IF path[f] = {p} THEN contents ELSE path[f]
                      /\ tmp'[f] = IF tmp[f] = {p} THEN contents ELSE tmp[f]
  BY DEF Becomes
<1>4. \A f \in Files : path'[f] \in Contained(f) /\ tmp'[f] \in Contained(f)
  BY <1>1, <1>3 DEF FilesTyped
<1> QED
  BY <1>2, <1>3, <1>4 DEF FilesTyped, Contained

LEMMA FillInv == ASSUME StoreInv, NEW p \in Procs, Fill(p) PROVE StoreInv'
<1>1. LocalTyped
  BY TypedParts
<1>2. /\ pc[p] = "fill" /\ Becomes(p, draft[p]) /\ Go(p, "rename")
      /\ UNCHANGED <<cmd, mine, target, draft, history>>
  BY DEF Fill
<1>3. target[p] \in Files /\ draft[p] \in Data(target[p])
  BY <1>1, <1>2 DEF LocalTyped, StoreInv, TypeOK, Writing
<1>4. \A f \in Files : path[f] = {p} \/ tmp[f] = {p} => f = target[p]
  BY DEF StoreInv, WriterFilling
<1>5. Torn \notin draft[p] /\ draft[p] \cap Procs = {}
  BY <1>3, DataWhole
<1>6. /\ FilesTyped'
      /\ \A f \in Files : /\ path'[f] = IF path[f] = {p} THEN draft[p] ELSE path[f]
                         /\ tmp'[f] = IF tmp[f] = {p} THEN draft[p] ELSE tmp[f]
  <2>1. \A f \in Files : path[f] = {p} \/ tmp[f] = {p} => draft[p] \in Contained(f)
    BY <1>3, <1>4 DEF Contained
  <2> QED
    BY <1>2, <2>1, BecomesFacts
<1>7. TypeOK' /\ MineSound' /\ CrowdSound' /\ OnlyOf(p) /\ pc'[p] = "rename"
  BY <1>2, <1>6, MoveTyped DEF Idle, Writing
<1>8. WriterFilling'
  <2>1. ASSUME NEW f \in Files, NEW q \in Procs, path'[f] = {q} \/ tmp'[f] = {q}
        PROVE  pc'[q] = "fill" /\ target'[q] = f
    <3>1. (path[f] = {q} \/ tmp[f] = {q}) /\ q # p
      BY <1>5, <1>6, <2>1
    <3> QED
      BY <1>7, <3>1 DEF StoreInv, WriterFilling, OnlyOf
  <2> QED
    BY <2>1 DEF WriterFilling
<1>9. TmpWhole'
  <2>1. ASSUME ~ damaged', NEW q \in Procs, pc'[q] \in {"fill", "rename"}
        PROVE  tmp'[target'[q]] # {Torn}
    <3>1. pc[q] \in {"fill", "rename"} /\ target'[q] = target[q] /\ target[q] \in Files /\ ~ damaged
      BY <1>1, <1>2, <1>7, <2>1 DEF OnlyOf, LocalTyped, history
    <3>2. tmp[target[q]] # {Torn}
      BY <3>1 DEF StoreInv, TmpWhole
    <3> QED
      BY <1>5, <1>6, <3>1, <3>2
  <2> QED
    BY <2>1 DEF TmpWhole
<1>10. FilesWhole'
  BY <1>2, <1>5, <1>6 DEF StoreInv, FilesWhole, history
<1> QED
  BY <1>7, <1>8, <1>9, <1>10 DEF StoreInv

LEMMA CutShortInv == ASSUME StoreInv, NEW p \in Procs, CutShort(p) PROVE StoreInv'
<1>1. LocalTyped /\ HistoryTyped
  BY TypedParts
<1>2. /\ ~ Idle(p) /\ Becomes(p, {Torn}) /\ Leave(p, "idle")
      /\ damaged' = (damaged \/ crowd) /\ UNCHANGED <<kept, asked, gone>>
  BY DEF CutShort
<1>3. /\ FilesTyped'
      /\ \A f \in Files : /\ path'[f] = IF path[f] = {p} THEN {Torn} ELSE path[f]
                         /\ tmp'[f] = IF tmp[f] = {p} THEN {Torn} ELSE tmp[f]
  <2>1. \A f \in Files : {Torn} \in Contained(f)
    BY DEF Contained
  <2> QED
    BY <1>2, <2>1, BecomesFacts
<1>4. /\ TypeOK' /\ MineSound' /\ OnlyOf(p) /\ pc'[p] = "idle"
      /\ crowd' <=> crowd /\ Others(p)
  BY <1>1, <1>2, <1>3, LeaveTyped DEF HistoryTyped
<1>5. CrowdSound'
  BY <1>2, <1>4, CrowdKept DEF Idle
<1>6. WriterFilling'
  <2>1. ASSUME NEW f \in Files, NEW q \in Procs, path'[f] = {q} \/ tmp'[f] = {q}
        PROVE  pc'[q] = "fill" /\ target'[q] = f
    <3>1. (path[f] = {q} \/ tmp[f] = {q}) /\ q # p
      BY <1>3, <2>1, ConfigAssumption DEF ConfigAssumption
    <3> QED
      BY <1>4, <3>1 DEF StoreInv, WriterFilling, OnlyOf
  <2> QED
    BY <2>1 DEF WriterFilling
<1>7. TmpWhole'
  <2>1. ASSUME ~ damaged', NEW q \in Procs, pc'[q] \in {"fill", "rename"} PROVE FALSE
    <3>1. q # p /\ ~ Idle(q)
      BY <1>4, <2>1 DEF OnlyOf, Idle
    <3> QED
      BY <1>2, <2>1, <3>1 DEF StoreInv, CrowdSound
  <2> QED
    BY <2>1 DEF TmpWhole
<1>8. FilesWhole'
  <2>1. ASSUME ~ damaged', NEW f \in Files
        PROVE  Torn \notin path'[f] /\ path'[f] \cap Procs = {}
    <3>1. ~ crowd /\ Torn \notin path[f] /\ path[f] \cap Procs = {}
      BY <1>2, <2>1 DEF StoreInv, FilesWhole
    <3> QED
      BY <1>3, <3>1
  <2> QED
    BY <2>1 DEF FilesWhole
<1> QED
  BY <1>4, <1>5, <1>6, <1>7, <1>8 DEF StoreInv

(* A rename moves what <file>.tmp holds, whoever wrote it.                 *)
LEMMA RenameInv == ASSUME StoreInv, NEW p \in Procs, Rename(p) PROVE StoreInv'
<1> DEFINE f == target[p]
<1>1. FilesTyped /\ LocalTyped /\ HistoryTyped
  BY TypedParts
<1>2. pc[p] = "rename" /\ ~ Idle(p) /\ f \in Files
  BY <1>1 DEF Rename, Idle, LocalTyped
<1>3. CASE tmp[f] = {None}
  BY <1>1, <1>2, <1>3, LeaveInv DEF Rename, Fail, HistoryTyped
<1>4. CASE tmp[f] # {None}
  <2>1. path' = [path EXCEPT ![f] = tmp[f]] /\ tmp' = [tmp EXCEPT ![f] = {None}]
    BY <1>4 DEF Rename
  <2>2. /\ DOMAIN path' = Files /\ DOMAIN tmp' = Files
        /\ path'[f] = tmp[f] /\ tmp'[f] = {None}
        /\ \A g \in Files \ {f} : path'[g] = path[g] /\ tmp'[g] = tmp[g]
    BY <1>1, <1>2, <2>1 DEF FilesTyped
  <2>3. FilesTyped'
    <3>1. \A g \in Files : path'[g] \in Contained(g) /\ tmp'[g] \in Contained(g)
      BY <1>1, <2>2 DEF FilesTyped, Contained
    <3> QED
      BY <2>2, <3>1 DEF FilesTyped, Contained
  <2>4. /\ TypeOK' /\ MineSound' /\ CrowdSound' /\ OnlyOf(p) /\ pc'[p] \notin {"fill", "rename"}
        /\ damaged' = damaged /\ (crowd /\ Others(p) => crowd')
    <3>1. CASE Finish(p)
      BY <1>2, <2>3, <3>1, EndTyped
    <3>2. CASE /\ \E place \in {"unlink", "accounts"} : Go(p, place)
               /\ UNCHANGED <<cmd, mine, target, draft, history>>
      BY <1>2, <2>3, <3>2, MoveTyped DEF Writing, history
    <3> QED
      BY <1>4, <3>1, <3>2 DEF Rename
  <2>5. WriterFilling'
    <3>1. ASSUME NEW g \in Files, NEW q \in Procs, path'[g] = {q} \/ tmp'[g] = {q}
          PROVE  pc'[q] = "fill" /\ target'[q] = g
      <4>1. {None} # {q}
        BY ConfigAssumption DEF ConfigAssumption
      <4>2. path[g] = {q} \/ tmp[g] = {q}
        BY <2>2, <3>1, <4>1
      <4>3. pc[q] = "fill" /\ target[q] = g
        BY <4>2 DEF StoreInv, WriterFilling
      <4> QED
        BY <1>2, <2>4, <4>3 DEF OnlyOf
    <3> QED
      BY <3>1 DEF WriterFilling
  <2>6. TmpWhole'
    <3>1. ASSUME ~ damaged', NEW q \in Procs, pc'[q] \in {"fill", "rename"}
          PROVE  tmp'[target'[q]] # {Torn}
      <4>1. q # p /\ pc[q] \in {"fill", "rename"} /\ target'[q] = target[q] /\ target[q] \in Files
        BY <1>1, <2>4, <3>1 DEF OnlyOf, LocalTyped
      <4>2. tmp[target[q]] # {Torn}
        BY <2>4, <3>1, <4>1 DEF StoreInv, TmpWhole
      <4>3. {None} # {Torn}
        BY ConfigAssumption DEF ConfigAssumption
      <4> QED
        BY <2>2, <4>1, <4>2, <4>3
    <3> QED
      BY <3>1 DEF TmpWhole
  <2>7. FilesWhole'
    <3>1. ASSUME ~ damaged', NEW g \in Files
          PROVE  Torn \notin path'[g] /\ (path'[g] \cap Procs # {} => crowd')
      <4>1. tmp[f] # {Torn} /\ Torn \notin path[g]
        BY <1>2, <2>4, <3>1 DEF StoreInv, TmpWhole, FilesWhole
      <4>2. Torn \notin tmp[f]
        <5>1. tmp[f] \in Contained(f)
          BY <1>1, <1>2 DEF FilesTyped
        <5> QED
          BY <1>2, <4>1, <5>1, DataWhole DEF Contained
      <4>3. path'[g] \in {path[g], tmp[f]} /\ (path'[g] = tmp[f] => path'[g] \in {tmp[g], path[g]})
        BY <1>2, <2>2
      <4>4. path'[g] \cap Procs # {} => Others(p) /\ crowd
        BY <1>2, <4>3, HalfWritten, <2>2
      <4> QED
        BY <2>4, <4>1, <4>2, <4>3, <4>4
    <3> QED
      BY <3>1 DEF FilesWhole
  <2> QED
    BY <2>4, <2>5, <2>6, <2>7 DEF StoreInv
<1> QED
  BY <1>3, <1>4

LEMMA UnlinkInv == ASSUME StoreInv, NEW p \in Procs, Unlink(p) PROVE StoreInv'
<1>1. FilesTyped /\ LocalTyped
  BY TypedParts
<1>2. /\ pc[p] = "unlink" /\ ~ Idle(p) /\ Finish(p)
      /\ path' = [path EXCEPT !["session"] = {None}] /\ tmp' = tmp
  BY DEF Unlink, Idle
<1>3. DOMAIN path' = Files /\ \A f \in Files : path'[f] \in {path[f], {None}}
  BY <1>1, <1>2 DEF FilesTyped
<1>4. FilesTyped'
  BY <1>1, <1>2, <1>3 DEF FilesTyped, Contained
<1>5. /\ TypeOK' /\ MineSound' /\ CrowdSound' /\ OnlyOf(p) /\ pc'[p] = "idle"
      /\ damaged' = damaged /\ (crowd' <=> crowd /\ Others(p))
  BY <1>2, <1>4, EndTyped
<1>6. WriterFilling'
  <2>1. ASSUME NEW f \in Files, NEW q \in Procs, path'[f] = {q} \/ tmp'[f] = {q}
        PROVE  pc'[q] = "fill" /\ target'[q] = f
    <3>1. path[f] = {q} \/ tmp[f] = {q}
      BY <1>2, <1>3, <2>1, ConfigAssumption DEF ConfigAssumption
    <3>2. pc[q] = "fill" /\ target[q] = f
      BY <3>1 DEF StoreInv, WriterFilling
    <3> QED
      BY <1>2, <1>5, <3>2 DEF OnlyOf
  <2> QED
    BY <2>1 DEF WriterFilling
<1>7. TmpWhole'
  BY <1>2, <1>5 DEF StoreInv, TmpWhole, OnlyOf
<1>8. FilesWhole'
  <2>1. ASSUME ~ damaged', NEW f \in Files
        PROVE  Torn \notin path'[f] /\ (path'[f] \cap Procs # {} => crowd')
    <3>1. Torn \notin path[f]
      BY <1>5, <2>1 DEF StoreInv, FilesWhole
    <3>2. Torn \notin {None} /\ {None} \cap Procs = {}
      BY ConfigAssumption DEF ConfigAssumption
    <3>3. path[f] \cap Procs # {} => Others(p) /\ crowd
      BY <1>2, HalfWritten
    <3> QED
      BY <1>3, <1>5, <3>1, <3>2, <3>3
  <2> QED
    BY <2>1 DEF FilesWhole
<1> QED
  BY <1>5, <1>6, <1>7, <1>8 DEF StoreInv

LEMMA StepInv == StoreInv /\ [Next]_vars => StoreInv'
<1> SUFFICES ASSUME StoreInv, [Next]_vars PROVE StoreInv'
  OBVIOUS
<1>1. CASE UNCHANGED vars
  <2>1. TypeOK' /\ MineSound'
    BY <1>1 DEF StoreInv, vars, TypeOK, MineSound, Data, Idle
  <2>2. WriterFilling' /\ CrowdSound' /\ TmpWhole' /\ FilesWhole'
    BY <1>1 DEF StoreInv, vars, WriterFilling, CrowdSound, TmpWhole, FilesWhole, Idle
  <2> QED
    BY <2>1, <2>2 DEF StoreInv
<1>2. CASE Next
  <2>1. PICK p \in Procs :
          \/ \E a \in Accounts : Login(p, a) \/ Switch(p, a)
          \/ Logout(p)
          \/ \E s \in Settings : Configure(p, "set", s) \/ Configure(p, "unset", s)
          \/ Step(p) \/ CutShort(p)
    BY <1>2 DEF Next
  <2> QED
    BY <2>1, QuietSteps, RemoveTmpInv, CreateInv, FillInv, RenameInv, UnlinkInv, CutShortInv DEF Step
<1> QED
  BY <1>1, <1>2

(* Every file holds what its readers expect, or what a write under way or  *)
(* cut short has left of it, for any number of processes.                  *)
THEOREM TypeCorrect == Spec => []TypeOK
<1>1. StoreInv => TypeOK
  BY DEF StoreInv
<1> QED
  BY <1>1, InitInv, StepInv, PTL DEF Spec

(* Whatever is killed at whatever step of write_json, no reader meets half *)
(* a file, unless two commands write at once: for any number of processes. *)
THEOREM FilesStayWhole == Spec => []FilesWhole
<1>1. StoreInv => FilesWhole
  BY DEF StoreInv
<1> QED
  BY <1>1, InitInv, StepInv, PTL DEF Spec

-----------------------------------------------------------------------------
(* Accounts.  A command that runs alone finds the files as the command     *)
(* before it left them, and nobody touches them meanwhile; what it has     *)
(* read, created and filled is therefore still so at its next step.  What  *)
(* is recorded of the accounts is forgotten in a crowd, so only such       *)
(* commands have to be looked at.                                          *)

(* What a command that runs alone has made sure of.                        *)
Clear == Readable("accounts") /\ Contents("accounts") \cap asked = {}

WriteAlone(p) ==
  /\ pc[p] = "create" => tmp[target[p]] = {None}
  /\ pc[p] = "fill" => tmp[target[p]] = {p}
  /\ pc[p] = "rename" => tmp[target[p]] = draft[p]

LoginAlone(p) ==
  /\ asked = {} /\ mine[p] \notin gone
  /\ pc[p] \in Writing \cup {"accounts"}
  /\ pc[p] \in Writing =>
       \/ target[p] = "session" /\ draft[p] = {mine[p]}
       \/ /\ target[p] = "accounts" /\ Readable("accounts")
          /\ draft[p] = Contents("accounts") \cup {mine[p]}

LogoutAlone(p) ==
  /\ path["session"] \cap kept = {}
  /\ pc[p] \in Writing \cup {"look", "active", "accounts", "unlink"}
  /\ pc[p] = "active" => path["session"] # {None}
  /\ pc[p] \in Writing \cup {"accounts"} =>
       path["session"] = {mine[p]} /\ mine[p] \in Accounts
  /\ pc[p] \in Writing =>
       /\ target[p] = "accounts" /\ Readable("accounts")
       /\ draft[p] = Contents("accounts") \ {mine[p]}
  /\ pc[p] = "unlink" => asked = {} \/ Clear

SwitchAlone(p) ==
  /\ asked = {}
  /\ pc[p] \in Writing \cup {"accounts"}
  /\ pc[p] \in Writing =>
       /\ target[p] = "session" /\ draft[p] = {mine[p]}
       /\ Readable("accounts") /\ mine[p] \in Contents("accounts")

SettingAlone(p) ==
  /\ pc[p] \in Writing \cup {"config"}
  /\ pc[p] \in Writing => target[p] = "config"

AloneSound ==
  \A p \in Procs : ~ crowd /\ ~ Idle(p) =>
    /\ WriteAlone(p)
    /\ cmd[p] = "login" => LoginAlone(p)
    /\ cmd[p] = "logout" => LogoutAlone(p)
    /\ cmd[p] = "switch" => SwitchAlone(p)
    /\ cmd[p] \in {"set", "unset"} => SettingAlone(p)

(* What is recorded of the accounts.                                       *)
CrowdForgets == crowd => kept = {} /\ asked = {} /\ gone = {}
HalfInCrowd == \A f \in Files, p \in Procs : path[f] = {p} => crowd
AskedSound ==
  \A a \in asked : a \in path["session"]
                     \/ (Readable("accounts") /\ a \notin Contents("accounts"))

CrowdBusy == crowd => \E q \in Procs : ~ Idle(q)

Records == AskedSound /\ AccountsKept /\ LogoutSticks

AloneInv ==
  StoreInv /\ AloneSound /\ CrowdForgets /\ CrowdBusy /\ HalfInCrowd /\ Records

Moves(p) ==
  \/ \E a \in Accounts : Login(p, a) \/ Switch(p, a)
  \/ Logout(p)
  \/ \E s \in Settings : Configure(p, "set", s) \/ Configure(p, "unset", s)
  \/ Step(p) \/ CutShort(p)

(* A step begins a command, ends one, or takes it one place further.       *)
Begins(p) ==
  \E c, x, place : Begin(p, c, x, place) /\ place \notin {"idle", "error"}
Ends(p) ==
  /\ ~ Idle(p)
  /\ Finish(p) \/ \E place \in {"idle", "error"} :
                    Leave(p, place) /\ UNCHANGED <<kept, asked, gone>>
GoesOn(p) ==
  /\ ~ Idle(p) /\ UNCHANGED history
  /\ \E place \in Reading \cup Writing \cup {"unlink"} : Go(p, place)

LEMMA Shape ==
  ASSUME NEW p \in Procs, Moves(p)
  PROVE  Begins(p) \/ Ends(p) \/ GoesOn(p)
<1>1. ASSUME NEW a \in Accounts, Login(p, a) \/ Switch(p, a)
      PROVE  Begins(p)
  BY <1>1 DEF Login, Switch, Begins
<1>2. CASE Logout(p)
  BY <1>2 DEF Logout, Begins
<1>3. ASSUME NEW s \in Settings, Configure(p, "set", s) \/ Configure(p, "unset", s)
      PROVE  Begins(p)
  BY <1>3 DEF Configure, Begins
<1>4. ASSUME Fail(p), ~ Idle(p) PROVE Ends(p)
  BY <1>4 DEF Fail, Ends
<1>5. CASE LookActive(p)
  BY <1>5 DEF LookActive, GoesOn, Idle, Reading
<1>6. CASE ReadActive(p)
  <2>1. ~ Idle(p)
    BY <1>6 DEF ReadActive, Idle
  <2> QED
    BY <1>4, <1>6, <2>1 DEF ReadActive, GoesOn, Reading
<1>7. CASE ReadAccounts(p)
  <2>1. ~ Idle(p)
    BY <1>7 DEF ReadAccounts, Idle
  <2>2. CASE Fail(p) \/ Finish(p)
    BY <1>4, <2>1, <2>2 DEF Ends
  <2>3. CASE UNCHANGED history /\ \E f, d : Write(p, f, d)
    BY <2>1, <2>3 DEF GoesOn, Write, Writing
  <2> QED
    BY <1>7, <2>2, <2>3 DEF ReadAccounts
<1>8. CASE ReadConfig(p)
  <2>1. ~ Idle(p)
    BY <1>8 DEF ReadConfig, Idle
  <2> QED
    BY <1>4, <1>8, <2>1 DEF ReadConfig, GoesOn, Write, Writing
<1>9. CASE RemoveTmp(p) \/ Fill(p)
  BY <1>9 DEF RemoveTmp, Fill, GoesOn, Idle, Writing
<1>10. CASE Create(p)
  <2>1. ~ Idle(p)
    BY <1>10 DEF Create, Idle
  <2> QED
    BY <1>4, <1>10, <2>1 DEF Create, GoesOn, Writing
<1>11. CASE Rename(p)
  <2>1. ~ Idle(p)
    BY <1>11 DEF Rename, Idle
  <2>2. CASE Fail(p) \/ Finish(p)
    BY <1>4, <2>1, <2>2 DEF Ends
  <2>3. CASE UNCHANGED history /\ \E place \in {"unlink", "accounts"} : Go(p, place)
    BY <2>1, <2>3 DEF GoesOn, Reading
  <2> QED
    BY <1>11, <2>2, <2>3 DEF Rename
<1>12. CASE Unlink(p)
  BY <1>12 DEF Unlink, Ends, Idle
<1>13. CASE CutShort(p)
  BY <1>13 DEF CutShort, Ends
<1> QED
  BY <1>1, <1>2, <1>3, <1>5, <1>6, <1>7, <1>8, <1>9, <1>10, <1>11, <1>12, <1>13 DEF Moves, Step

LEMMA ShapeFacts ==
  ASSUME StoreInv, NEW p \in Procs, Begins(p) \/ Ends(p) \/ GoesOn(p)
  PROVE  /\ \A q \in Procs \ {p} : pc'[q] = pc[q]
         /\ Begins(p) => Idle(p) /\ ~ Idle(p)'
         /\ Ends(p) => ~ Idle(p) /\ Idle(p)'
         /\ GoesOn(p) => ~ Idle(p) /\ ~ Idle(p)'
<1>1. pc \in [Procs -> Places]
  BY DEF StoreInv, TypeOK
<1>2. PICK place : pc' = [pc EXCEPT ![p] = place]
  BY DEF Begins, Ends, GoesOn, Begin, Finish, Leave, Go
<1>3. \A q \in Procs \ {p} : pc'[q] = pc[q]
  BY <1>1, <1>2
<1>4. Begins(p) => Idle(p) /\ ~ Idle(p)'
  BY <1>1 DEF Begins, Begin, Go, Idle
<1>5. Ends(p) => ~ Idle(p) /\ Idle(p)'
  BY <1>1 DEF Ends, Finish, Leave, Go, Idle
<1>6. GoesOn(p) => ~ Idle(p) /\ ~ Idle(p)'
  BY <1>1 DEF GoesOn, Go, Idle, Reading, Writing
<1> QED
  BY <1>3, <1>4, <1>5, <1>6

(* Only a creation opens a file.                                           *)
LEMMA FillsAfterCreate ==
  ASSUME StoreInv, NEW p \in Procs, Moves(p), pc'[p] = "fill"
  PROVE  GoesOn(p) /\ path' = path
<1>1. pc \in [Procs -> Places]
  BY DEF StoreInv, TypeOK
<1>2. ASSUME NEW place, Go(p, place)
      PROVE  place = "fill"
  BY <1>1, <1>2 DEF Go
<1>3. Create(p)
  <2>1. ~ Fail(p) /\ ~ Finish(p)
    BY <1>2 DEF Fail, Finish, Leave
  <2>2. /\ \A c, x : \A place \in {"remove", "look", "accounts", "config"} : ~ Begin(p, c, x, place)
        /\ \A f, d : ~ Write(p, f, d)
    BY <1>2 DEF Begin, Write
  <2>3. /\ \A a \in Accounts : ~ Login(p, a) /\ ~ Switch(p, a)
        /\ ~ Logout(p)
        /\ \A c, s : ~ Configure(p, c, s)
    BY <2>2 DEF Login, Switch, Logout, Configure
  <2>4. ~ LookActive(p) /\ ~ ReadActive(p) /\ ~ ReadAccounts(p) /\ ~ ReadConfig(p)
    BY <1>2, <2>1, <2>2 DEF LookActive, ReadActive, ReadAccounts, ReadConfig
  <2>5. ~ RemoveTmp(p) /\ ~ Fill(p) /\ ~ Rename(p) /\ ~ Unlink(p) /\ ~ CutShort(p)
    BY <1>2, <2>1 DEF RemoveTmp, Fill, Rename, Unlink, CutShort, Leave
  <2> QED
    BY <2>3, <2>4, <2>5 DEF Moves, Step
<1>4. ~ Fail(p)
  BY <1>2 DEF Fail, Leave
<1> QED
  BY <1>3, <1>4 DEF Create, GoesOn, Idle, Writing

(* In a crowd nothing is on record, and the last command to end leaves     *)
(* nobody at work.                                                         *)
LEMMA CrowdStep ==
  ASSUME AloneInv, StoreInv', NEW p \in Procs, Moves(p)
  PROVE  /\ CrowdForgets' /\ CrowdBusy' /\ HalfInCrowd'
         /\ crowd \/ crowd' => AloneSound' /\ Records'
<1> USE DEF AloneInv
<1>1. Begins(p) \/ Ends(p) \/ GoesOn(p)
  BY Shape
<1>2. /\ \A q \in Procs \ {p} : pc'[q] = pc[q]
      /\ Begins(p) => Idle(p) /\ ~ Idle(p)'
      /\ Ends(p) => ~ Idle(p) /\ Idle(p)'
      /\ GoesOn(p) => ~ Idle(p) /\ ~ Idle(p)'
  BY <1>1, ShapeFacts
<1>3. /\ Begins(p) => (crowd' <=> Others(p))
      /\ Ends(p) => (crowd' <=> crowd /\ Others(p))
      /\ GoesOn(p) => (crowd' <=> crowd)
  <2>1. Begins(p) => (crowd' <=> Others(p))
    BY <1>2 DEF Begins, Begin, Others
  <2>2. crowd \in BOOLEAN /\ crowd' \in BOOLEAN
    BY DEF StoreInv, TypeOK
  <2>3. Ends(p) => (crowd' <=> crowd /\ Others(p))
    BY <2>2 DEF Ends, Finish, Leave, Others
  <2> QED
    BY <2>1, <2>3 DEF GoesOn, history
<1>4. (\E q \in Procs \ {p} : ~ Idle(q)') <=> Others(p)
  BY <1>2 DEF Others, Idle
<1>5. /\ Begins(p) /\ crowd' => kept' = {} /\ asked' = {} /\ gone' = {}
      /\ ~ Begins(p) /\ crowd => kept' = {} /\ asked' = {} /\ gone' = {}
  <2>1. ASSUME Begins(p), crowd'
        PROVE  kept' = {} /\ asked' = {} /\ gone' = {}
    BY <2>1 DEF Begins, Begin
  <2>2. ASSUME Ends(p) \/ GoesOn(p), crowd
        PROVE  kept' = {} /\ asked' = {} /\ gone' = {}
    <3>1. kept = {} /\ asked = {} /\ gone = {}
      BY <2>2 DEF CrowdForgets
    <3> QED
      BY <2>2, <3>1 DEF Ends, GoesOn, Finish, history
  <2> QED
    BY <1>1, <2>1, <2>2
<1>6. CrowdForgets'
  BY <1>1, <1>3, <1>5 DEF CrowdForgets
<1>7. CrowdBusy'
  BY <1>1, <1>2, <1>3, <1>4 DEF CrowdBusy
<1>8. HalfInCrowd'
  <2> SUFFICES ASSUME NEW f \in Files, NEW q \in Procs, path'[f] = {q}
               PROVE  crowd'
    BY DEF HalfInCrowd
  <2>1. pc'[q] = "fill" /\ ~ Idle(q)'
    BY DEF StoreInv, WriterFilling, Idle
  <2>2. CASE q = p
    <3>1. GoesOn(p) /\ path' = path
      BY <2>1, <2>2, FillsAfterCreate
    <3> QED
      BY <1>3, <3>1 DEF HalfInCrowd
  <2>3. CASE q # p
    <3>1. Others(p) /\ ~ Idle(q)
      BY <1>2, <2>1, <2>3 DEF Others, Idle
    <3>2. ~ Idle(p) => crowd
      BY <2>3, <3>1 DEF StoreInv, CrowdSound
    <3> QED
      BY <1>1, <1>2, <1>3, <3>1, <3>2
  <2> QED
    BY <2>2, <2>3
<1>9. ASSUME crowd' PROVE AloneSound' /\ Records'
  <2>1. kept' = {} /\ asked' = {} /\ gone' = {}
    BY <1>6, <1>9 DEF CrowdForgets
  <2>2. Records'
    BY <2>1 DEF Records, AskedSound, AccountsKept, LogoutSticks
  <2> QED
    BY <1>9, <2>2 DEF AloneSound
<1>10. ASSUME crowd, ~ crowd' PROVE AloneSound' /\ Records'
  <2>1. ~ Begins(p)
    BY <1>2, <1>3, <1>10 DEF CrowdBusy, Others
  <2>2. Ends(p) /\ ~ Others(p)
    BY <1>1, <1>3, <1>10, <2>1
  <2>3. \A q \in Procs : Idle(q)'
    BY <1>2, <1>4, <2>2
  <2>4. kept' = {} /\ asked' = {} /\ gone' = {}
    BY <1>5, <1>10, <2>1
  <2>5. Records'
    BY <2>4 DEF Records, AskedSound, AccountsKept, LogoutSticks
  <2> QED
    BY <2>3, <2>5 DEF AloneSound
<1> QED
  BY <1>6, <1>7, <1>8, <1>9, <1>10

(* It remains to look at a process p that is alone before and after.       *)
LEMMA AlonePart ==
  ASSUME AloneInv, NEW p \in Procs, Moves(p), ~ crowd, ~ crowd',
         ~ Idle(p)' => /\ WriteAlone(p)'
                       /\ cmd'[p] = "login" => LoginAlone(p)'
                       /\ cmd'[p] = "logout" => LogoutAlone(p)'
                       /\ cmd'[p] = "switch" => SwitchAlone(p)'
                       /\ cmd'[p] \in {"set", "unset"} => SettingAlone(p)'
  PROVE  AloneSound'
<1>1. Begins(p) \/ Ends(p) \/ GoesOn(p)
  BY Shape
<1>2. /\ \A q \in Procs \ {p} : pc'[q] = pc[q]
      /\ Begins(p) => Idle(p)
      /\ Ends(p) \/ GoesOn(p) => ~ Idle(p)
  BY <1>1, ShapeFacts DEF AloneInv
<1>3. ASSUME NEW q \in Procs, q # p, ~ Idle(q)'
      PROVE  FALSE
  <2>1. ~ Idle(q)
    BY <1>2, <1>3 DEF Idle
  <2>2. CASE Begins(p)
    BY <2>1, <2>2 DEF Begins, Begin
  <2>3. CASE Ends(p) \/ GoesOn(p)
    BY <1>2, <1>3, <2>1, <2>3 DEF AloneInv, StoreInv, CrowdSound
  <2> QED
    BY <1>1, <2>2, <2>3
<1> QED
  BY <1>3 DEF AloneSound

LEMMA QuietRecords ==
  ASSUME Records, path'["session"] = path["session"], path'["accounts"] = path["accounts"],
         kept' \subseteq kept, gone' \subseteq gone,
         asked' \subseteq asked \cup path["session"]
  PROVE  Records'
<1>1. /\ Readable("accounts")' <=> Readable("accounts")
      /\ Contents("accounts")' = Contents("accounts")
  BY DEF Readable, Contents, Data
<1> QED
  BY <1>1 DEF Records, AskedSound, AccountsKept, LogoutSticks

LEMMA AloneBegin ==
  ASSUME AloneInv, NEW p \in Procs, ~ crowd, ~ crowd',
         \/ \E a \in Accounts : Login(p, a) \/ Switch(p, a)
         \/ Logout(p)
         \/ \E s \in Settings : Configure(p, "set", s) \/ Configure(p, "unset", s)
  PROVE  AloneSound' /\ Records'
<1>1. LocalTyped /\ HistoryTyped
  BY TypedParts DEF AloneInv
<1>2. Moves(p)
  BY DEF Moves
<1>3. ASSUME NEW c, NEW x, NEW place, Begin(p, c, x, place)
      PROVE  /\ pc'[p] = place /\ cmd'[p] = c /\ mine'[p] = x
             /\ UNCHANGED <<path, tmp>> /\ kept' \subseteq kept /\ gone' \subseteq gone
             /\ c \in {"login", "switch"} => asked' = {}
             /\ c = "login" => x \notin gone'
             /\ c = "logout" => path["session"] \cap kept' = {}
             /\ Records'
  <2>1. ~ \E q \in Procs : ~ Idle(q)
    BY <1>3 DEF Begin
  <2>2. /\ pc'[p] = place /\ cmd'[p] = c /\ mine'[p] = x /\ UNCHANGED <<path, tmp>>
    BY <1>1, <1>3 DEF Begin, Go, LocalTyped
  <2>3. /\ kept' = IF c = "logout" THEN kept \ (path["session"] \cap Accounts) ELSE kept
        /\ asked' = IF c \in {"login", "switch"} THEN {}
                    ELSE IF c = "logout" THEN asked \cup (path["session"] \cap Accounts)
                    ELSE asked
        /\ gone' = IF c = "login" THEN gone \ {x} ELSE gone
    BY <1>3, <2>1 DEF Begin
  <2>4. c = "logout" => path["session"] \cap kept' = {}
    BY <1>1, <2>3 DEF HistoryTyped
  <2>5. Records'
    BY <2>2, <2>3, QuietRecords DEF AloneInv
  <2> QED
    BY <2>2, <2>3, <2>4, <2>5
<1>4. ASSUME NEW a \in Accounts, Login(p, a)
      PROVE  AloneSound' /\ Records'
  <2>1. target'[p] = "session" /\ draft'[p] = {a} /\ Begin(p, "login", a, "remove")
    BY <1>1, <1>4 DEF Login, LocalTyped
  <2>2. WriteAlone(p)' /\ LoginAlone(p)'
    BY <1>3, <2>1 DEF WriteAlone, LoginAlone, Writing
  <2> QED
    BY <1>2, <1>3, <2>1, <2>2, AlonePart
<1>5. ASSUME NEW a \in Accounts, Switch(p, a)
      PROVE  AloneSound' /\ Records'
  <2>1. Begin(p, "switch", a, "accounts")
    BY <1>5 DEF Switch
  <2>2. WriteAlone(p)' /\ SwitchAlone(p)'
    BY <1>3, <2>1 DEF WriteAlone, SwitchAlone, Writing
  <2> QED
    BY <1>2, <1>3, <2>1, <2>2, AlonePart
<1>6. ASSUME Logout(p)
      PROVE  AloneSound' /\ Records'
  <2>1. Begin(p, "logout", None, "look")
    BY <1>6 DEF Logout
  <2>2. WriteAlone(p)' /\ LogoutAlone(p)'
    BY <1>3, <2>1 DEF WriteAlone, LogoutAlone, Writing
  <2> QED
    BY <1>2, <1>3, <2>1, <2>2, AlonePart
<1>7. ASSUME NEW s \in Settings, NEW c \in {"set", "unset"}, Configure(p, c, s)
      PROVE  AloneSound' /\ Records'
  <2>1. Begin(p, c, s, "config")
    BY <1>7 DEF Configure
  <2>2. WriteAlone(p)' /\ SettingAlone(p)'
    BY <1>3, <2>1 DEF WriteAlone, SettingAlone, Writing
  <2> QED
    BY <1>2, <1>3, <2>1, <2>2, AlonePart
<1> QED
  BY <1>4, <1>5, <1>6, <1>7

(* A command that ends without a result leaves everything as it was.       *)
LEMMA AloneEnd ==
  ASSUME AloneInv, NEW p \in Procs, Moves(p), ~ crowd, ~ crowd', Fail(p) \/ CutShort(p)
  PROVE  AloneSound' /\ Records'
<1>1. Idle(p)'
  BY DEF AloneInv, StoreInv, TypeOK, Fail, CutShort, Leave, Go, Idle
<1>2. AloneSound'
  BY <1>1, AlonePart
<1>3. path'["session"] = path["session"] /\ path'["accounts"] = path["accounts"]
  <2>1. CASE Fail(p)
    BY <2>1 DEF Fail
  <2>2. CASE CutShort(p)
    <3>1. \A f \in Files : path[f] # {p}
      BY DEF AloneInv, HalfInCrowd
    <3> QED
      BY <2>2, <3>1 DEF CutShort, Becomes, Files
  <2> QED
    BY <2>1, <2>2
<1>4. UNCHANGED <<kept, asked, gone>>
  BY DEF Fail, CutShort
<1>5. Records'
  BY <1>3, <1>4, QuietRecords DEF AloneInv
<1> QED
  BY <1>2, <1>5

(* What p has made sure of.                                                *)
LEMMA AloneFacts ==
  ASSUME AloneInv, NEW p \in Procs, ~ crowd, ~ Idle(p)
  PROVE  /\ WriteAlone(p)
         /\ cmd[p] = "login" => LoginAlone(p)
         /\ cmd[p] = "logout" => LogoutAlone(p)
         /\ cmd[p] = "switch" => SwitchAlone(p)
         /\ cmd[p] \in {"set", "unset"} => SettingAlone(p)
         /\ cmd[p] \in Commands
BY DEF AloneInv, AloneSound, StoreInv, TypeOK

LEMMA AloneRead ==
  ASSUME AloneInv, NEW p \in Procs, ~ crowd, ~ crowd',
         LookActive(p) \/ ReadActive(p) \/ ReadAccounts(p) \/ ReadConfig(p)
  PROVE  AloneSound' /\ Records'
<1>1. LocalTyped /\ HistoryTyped /\ Moves(p) /\ ~ Idle(p)
  BY TypedParts DEF AloneInv, Moves, Step, LookActive, ReadActive, ReadAccounts, ReadConfig, Idle
<1>2. CASE Fail(p)
  BY <1>1, <1>2, AloneEnd
<1>3. ASSUME UNCHANGED <<path, history>>
      PROVE  Records'
  BY <1>3, QuietRecords DEF AloneInv, history
<1>4. CASE LookActive(p)
  <2>1. /\ pc[p] = "look" /\ UNCHANGED <<path, tmp, cmd, mine, target, draft, history>>
        /\ pc'[p] = IF path["session"] = {None} THEN "unlink" ELSE "active"
    BY <1>1, <1>4 DEF LookActive, Go, LocalTyped
  <2>2. cmd[p] = "logout" /\ LogoutAlone(p)
    BY <1>1, <2>1, AloneFacts DEF LoginAlone, SwitchAlone, SettingAlone, Writing, Commands
  <2>3. path["session"] = {None} => asked = {} \/ Clear
    BY <1>1, ConfigAssumption DEF AloneInv, Records, AskedSound, Clear, HistoryTyped,
       ConfigAssumption
  <2>4. LogoutAlone(p)' /\ WriteAlone(p)'
    BY <2>1, <2>2, <2>3 DEF LogoutAlone, WriteAlone, Clear, Readable, Contents, Data, Writing,
       history
  <2> QED
    BY <1>1, <1>3, <2>1, <2>2, <2>4, AlonePart
<1>5. CASE ReadActive(p) /\ ~ Fail(p)
  <2>1. PICK a \in path["session"] : mine' = [mine EXCEPT ![p] = a]
    BY <1>5 DEF ReadActive
  <2>2. /\ pc[p] = "active" /\ UNCHANGED <<path, tmp, cmd, target, draft, history>>
        /\ pc'[p] = "accounts" /\ mine'[p] = a /\ path["session"] \in Data("session")
    BY <1>1, <1>5, <2>1 DEF ReadActive, Go, LocalTyped
  <2>3. cmd[p] = "logout" /\ LogoutAlone(p)
    BY <1>1, <2>2, AloneFacts DEF LoginAlone, SwitchAlone, SettingAlone, Writing, Commands
  <2>4. path["session"] = {a} /\ a \in Accounts
    BY <2>1, <2>2 DEF Data
  <2>5. LogoutAlone(p)' /\ WriteAlone(p)'
    BY <2>2, <2>3, <2>4 DEF LogoutAlone, WriteAlone, Writing, history
  <2> QED
    BY <1>1, <1>3, <2>2, <2>3, <2>5, AlonePart
<1>6. CASE ReadConfig(p) /\ ~ Fail(p)
  <2>1. /\ pc[p] = "config" /\ UNCHANGED <<path, tmp, cmd, mine, history>>
        /\ pc'[p] = "remove" /\ target'[p] = "config"
    BY <1>1, <1>6 DEF ReadConfig, Write, Go, LocalTyped
  <2>2. cmd[p] \in {"set", "unset"}
    BY <1>1, <2>1, AloneFacts DEF LoginAlone, SwitchAlone, LogoutAlone, Writing, Commands
  <2>3. SettingAlone(p)' /\ WriteAlone(p)'
    BY <2>1 DEF SettingAlone, WriteAlone, Writing
  <2> QED
    BY <1>1, <1>3, <2>1, <2>2, <2>3, AlonePart
<1>7. CASE ReadAccounts(p) /\ ~ Fail(p)
  <2>1. pc[p] = "accounts"
    BY <1>7 DEF ReadAccounts
  <2>2. CASE Finish(p) /\ cmd[p] = "switch" /\ UNCHANGED path
    <3>1. UNCHANGED <<kept, asked, gone>> /\ Idle(p)'
      BY <1>1, <2>2 DEF Finish, Leave, Go, Idle, LocalTyped
    <3>2. Records'
      BY <2>2, <3>1, QuietRecords DEF AloneInv
    <3> QED
      BY <1>1, <3>1, <3>2, AlonePart
  <2>3. ASSUME NEW f, NEW data, Write(p, f, data), UNCHANGED <<path, tmp, cmd, mine, history>>
        PROVE  pc'[p] = "remove" /\ target'[p] = f /\ draft'[p] = data /\ WriteAlone(p)'
    BY <1>1, <2>3 DEF Write, Go, LocalTyped, WriteAlone
  <2>4. CASE /\ Readable("accounts") /\ cmd[p] = "login"
             /\ Write(p, "accounts", Contents("accounts") \cup {mine[p]})
             /\ UNCHANGED <<path, tmp, cmd, mine, history>>
    <3>1. LoginAlone(p)
      BY <1>1, <2>4, AloneFacts
    <3>2. LoginAlone(p)'
      BY <2>3, <2>4, <3>1 DEF LoginAlone, Readable, Contents, Data, Writing, history
    <3> QED
      BY <1>1, <1>3, <2>3, <2>4, <3>2, AlonePart
  <2>5. CASE /\ Readable("accounts") /\ cmd[p] = "logout"
             /\ Write(p, "accounts", Contents("accounts") \ {mine[p]})
             /\ UNCHANGED <<path, tmp, cmd, mine, history>>
    <3>1. LogoutAlone(p)
      BY <1>1, <2>5, AloneFacts
    <3>2. LogoutAlone(p)'
      BY <2>1, <2>3, <2>5, <3>1 DEF LogoutAlone, Readable, Contents, Data, Writing, history
    <3> QED
      BY <1>1, <1>3, <2>3, <2>5, <3>2, AlonePart
  <2>6. CASE /\ Readable("accounts") /\ cmd[p] = "switch" /\ mine[p] \in Contents("accounts")
             /\ Write(p, "session", {mine[p]})
             /\ UNCHANGED <<path, tmp, cmd, mine, history>>
    <3>1. SwitchAlone(p)
      BY <1>1, <2>6, AloneFacts
    <3>2. SwitchAlone(p)'
      BY <2>3, <2>6, <3>1 DEF SwitchAlone, Readable, Contents, Data, Writing, history
    <3> QED
      BY <1>1, <1>3, <2>3, <2>6, <3>2, AlonePart
  <2> QED
    BY <1>7, <2>2, <2>4, <2>5, <2>6 DEF ReadAccounts
<1> QED
  BY <1>2, <1>4, <1>5, <1>6, <1>7

(* A write that goes on keeps what the command has read.                   *)
LEMMA AloneWrites ==
  ASSUME AloneInv, NEW p \in Procs, ~ crowd, ~ crowd',
         RemoveTmp(p) \/ Create(p) \/ Fill(p)
  PROVE  AloneSound' /\ Records'
<1>1. /\ LocalTyped /\ FilesTyped /\ Moves(p) /\ pc[p] \in Writing /\ ~ Idle(p)
  BY TypedParts DEF AloneInv, Moves, Step, RemoveTmp, Create, Fill, Idle, Writing
<1>2. CASE Fail(p)
  BY <1>1, <1>2, AloneEnd
<1>3. ASSUME path'["session"] = path["session"], path'["accounts"] = path["accounts"],
             UNCHANGED <<cmd, mine, target, draft, history>>, pc'[p] \in Writing,
             WriteAlone(p)'
      PROVE  AloneSound' /\ Records'
  <2>1. Records'
    BY <1>3, QuietRecords DEF AloneInv, history
  <2>2. /\ Readable("accounts")' <=> Readable("accounts")
        /\ Contents("accounts")' = Contents("accounts")
    BY <1>3 DEF Readable, Contents, Data
  <2>3. pc'[p] \notin {"unlink", "active"}
    BY <1>3 DEF Writing
  <2>4. cmd[p] = "login" => LoginAlone(p)'
    BY <1>1, <1>3, <2>2, AloneFacts DEF LoginAlone, history
  <2>5. cmd[p] = "logout" => LogoutAlone(p)'
    BY <1>1, <1>3, <2>2, <2>3, AloneFacts DEF LogoutAlone, history
  <2>6. cmd[p] = "switch" => SwitchAlone(p)'
    BY <1>1, <1>3, <2>2, AloneFacts DEF SwitchAlone, history
  <2>7. cmd[p] \in {"set", "unset"} => SettingAlone(p)'
    BY <1>1, <1>3, AloneFacts DEF SettingAlone
  <2> QED
    BY <1>1, <1>3, <2>1, <2>4, <2>5, <2>6, <2>7, AlonePart
<1>4. target[p] \in Files
  BY <1>1 DEF LocalTyped
<1>5. CASE RemoveTmp(p)
  <2>1. /\ UNCHANGED <<path, cmd, mine, target, draft, history>> /\ pc'[p] = "create"
        /\ tmp'[target[p]] = {None}
    BY <1>1, <1>4, <1>5 DEF RemoveTmp, Go, LocalTyped, FilesTyped
  <2> QED
    BY <1>3, <2>1 DEF WriteAlone, Writing
<1>6. CASE Create(p) /\ ~ Fail(p)
  <2>1. /\ UNCHANGED <<path, cmd, mine, target, draft, history>> /\ pc'[p] = "fill"
        /\ tmp'[target[p]] = {p}
    BY <1>1, <1>4, <1>6 DEF Create, Go, LocalTyped, FilesTyped
  <2> QED
    BY <1>3, <2>1 DEF WriteAlone, Writing
<1>7. CASE Fill(p)
  <2>1. /\ UNCHANGED <<cmd, mine, target, draft, history>> /\ pc'[p] = "rename"
        /\ Becomes(p, draft[p]) /\ pc[p] = "fill"
    BY <1>1, <1>7 DEF Fill, Go, LocalTyped
  <2>2. tmp[target[p]] = {p}
    BY <1>1, <2>1, AloneFacts DEF WriteAlone
  <2>3. \A f \in Files : path[f] # {p}
    BY DEF AloneInv, HalfInCrowd
  <2>4. /\ tmp'[target[p]] = draft[p]
        /\ path'["session"] = path["session"] /\ path'["accounts"] = path["accounts"]
    BY <1>4, <2>1, <2>2, <2>3 DEF Becomes, Files
  <2> QED
    BY <1>3, <2>1, <2>4 DEF WriteAlone, Writing
<1> QED
  BY <1>2, <1>5, <1>6, <1>7

LEMMA AloneRename ==
  ASSUME AloneInv, NEW p \in Procs, ~ crowd, ~ crowd', Rename(p)
  PROVE  AloneSound' /\ Records'
<1> DEFINE f == target[p]
<1>1. /\ LocalTyped /\ FilesTyped /\ HistoryTyped /\ Moves(p) /\ pc[p] = "rename" /\ ~ Idle(p)
      /\ pc[p] \in Writing
  BY TypedParts DEF AloneInv, Moves, Step, Rename, Idle, Writing
<1>2. CASE Fail(p)
  BY <1>1, <1>2, AloneEnd
<1>3. f \in Files /\ tmp[f] = draft[p] /\ draft[p] \in Data(f)
  BY <1>1, AloneFacts DEF LocalTyped, WriteAlone, AloneInv, StoreInv, TypeOK
<1>4. ASSUME ~ Fail(p)
      PROVE  /\ path'[f] = draft[p] /\ \A g \in Files \ {f} : path'[g] = path[g]
             /\ cmd[p] = "logout" /\ f = "accounts" =>
                  pc'[p] = "unlink" /\ UNCHANGED <<cmd, mine, target, draft, history>>
             /\ cmd[p] = "login" /\ f = "session" =>
                  pc'[p] = "accounts" /\ UNCHANGED <<cmd, mine, target, draft, history>>
             /\ \/ cmd[p] = "logout" /\ f = "accounts"
                \/ cmd[p] = "login" /\ f = "session"
                \/ Finish(p) /\ Idle(p)'
  <2>1. path' = [path EXCEPT ![f] = tmp[f]]
    BY <1>4 DEF Rename
  <2>2. path'[f] = draft[p] /\ \A g \in Files \ {f} : path'[g] = path[g]
    BY <1>1, <1>3, <2>1 DEF FilesTyped
  <2>3. CASE <<cmd[p], f>> \in {<<"logout", "accounts">>, <<"login", "session">>}
    <3>1. /\ UNCHANGED <<cmd, mine, target, draft, history>>
          /\ pc'[p] = IF cmd[p] = "logout" THEN "unlink" ELSE "accounts"
      BY <1>1, <1>4, <2>3 DEF Rename, Go, LocalTyped
    <3> QED
      BY <2>2, <2>3, <3>1
  <2>4. CASE <<cmd[p], f>> \notin {<<"logout", "accounts">>, <<"login", "session">>}
    <3>1. Finish(p)
      BY <1>4, <2>4 DEF Rename
    <3>2. Idle(p)'
      BY <1>1, <3>1 DEF Finish, Leave, Go, Idle, LocalTyped
    <3> QED
      BY <2>2, <2>4, <3>1, <3>2
  <2> QED
    BY <2>3, <2>4
<1>5. "session" \in Files /\ "accounts" \in Files /\ "config" \in Files
  BY DEF Files
<1>6. CASE cmd[p] = "login" /\ f = "session" /\ ~ Fail(p)
  <2>1. LoginAlone(p) /\ draft[p] = {mine[p]}
    BY <1>1, <1>6, AloneFacts DEF LoginAlone
  <2>2. /\ path'["session"] = {mine[p]} /\ path'["accounts"] = path["accounts"]
        /\ UNCHANGED <<cmd, mine, target, draft, history>> /\ pc'[p] = "accounts"
    BY <1>4, <1>5, <1>6, <2>1
  <2>3. /\ Readable("accounts")' <=> Readable("accounts")
        /\ Contents("accounts")' = Contents("accounts")
    BY <2>2 DEF Readable, Contents, Data
  <2>4. WriteAlone(p)' /\ LoginAlone(p)'
    BY <2>1, <2>2 DEF WriteAlone, LoginAlone, Writing, history
  <2>5. Records'
    BY <2>1, <2>2, <2>3 DEF AloneInv, Records, AskedSound, AccountsKept, LogoutSticks,
       LoginAlone, history
  <2> QED
    BY <1>1, <1>6, <2>2, <2>4, <2>5, AlonePart
<1>7. CASE cmd[p] = "login" /\ f = "accounts" /\ ~ Fail(p)
  <2>1. /\ LoginAlone(p) /\ Readable("accounts")
        /\ draft[p] = Contents("accounts") \cup {mine[p]} /\ mine[p] \in Accounts
    BY <1>1, <1>7, AloneFacts DEF LoginAlone, AloneInv, StoreInv, MineSound
  <2>2. /\ path'["accounts"] = draft[p] /\ path'["session"] = path["session"]
        /\ Finish(p) /\ Idle(p)'
    BY <1>4, <1>5, <1>7
  <2>3. /\ Readable("accounts")' /\ Contents("accounts")' = draft[p]
    BY <1>3, <1>7, <2>2, DataWhole, <1>5 DEF Readable, Contents, Data
  <2>4. kept' = kept \cup {mine[p]} /\ asked' = {} /\ gone' = gone
    BY <1>7, <2>1, <2>2 DEF Finish, LoginAlone
  <2>5. Records'
    BY <2>1, <2>2, <2>3, <2>4 DEF AloneInv, Records, AskedSound, AccountsKept, LogoutSticks,
       LoginAlone
  <2> QED
    BY <1>1, <2>2, <2>5, AlonePart
<1>8. CASE cmd[p] = "logout" /\ ~ Fail(p)
  <2>1. /\ LogoutAlone(p) /\ f = "accounts" /\ Readable("accounts")
        /\ draft[p] = Contents("accounts") \ {mine[p]}
        /\ path["session"] = {mine[p]} /\ mine[p] \notin kept
    BY <1>1, <1>8, AloneFacts DEF LogoutAlone
  <2>2. /\ path'["accounts"] = draft[p] /\ path'["session"] = path["session"]
        /\ UNCHANGED <<cmd, mine, target, draft, history>> /\ pc'[p] = "unlink"
    BY <1>4, <1>5, <1>8, <2>1
  <2>3. /\ Readable("accounts")' /\ Contents("accounts")' = draft[p]
    BY <1>3, <2>1, <2>2, DataWhole, <1>5 DEF Readable, Contents, Data
  <2>4. Records'
    BY <2>1, <2>2, <2>3 DEF AloneInv, Records, AskedSound, AccountsKept, LogoutSticks, history
  <2>5. draft[p] \cap asked = {}
    BY <2>1 DEF AloneInv, Records, AskedSound
  <2>6. WriteAlone(p)' /\ LogoutAlone(p)'
    BY <2>1, <2>2, <2>3, <2>5 DEF WriteAlone, LogoutAlone, Clear, Writing, history
  <2> QED
    BY <1>1, <1>8, <2>2, <2>4, <2>6, AlonePart
<1>9. CASE cmd[p] = "switch" /\ ~ Fail(p)
  <2>1. /\ SwitchAlone(p) /\ f = "session" /\ draft[p] = {mine[p]}
        /\ Readable("accounts") /\ mine[p] \in Contents("accounts")
    BY <1>1, <1>9, AloneFacts DEF SwitchAlone
  <2>2. /\ path'["session"] = {mine[p]} /\ path'["accounts"] = path["accounts"]
        /\ Finish(p) /\ Idle(p)'
    BY <1>4, <1>5, <1>9, <2>1
  <2>3. UNCHANGED <<kept, asked, gone>>
    BY <1>9, <2>2 DEF Finish
  <2>4. /\ Readable("accounts")' <=> Readable("accounts")
        /\ Contents("accounts")' = Contents("accounts")
    BY <2>2 DEF Readable, Contents, Data
  <2>5. Records'
    BY <2>1, <2>2, <2>3, <2>4 DEF AloneInv, Records, AskedSound, AccountsKept, LogoutSticks,
       SwitchAlone
  <2> QED
    BY <1>1, <2>2, <2>5, AlonePart
<1>10. CASE cmd[p] \in {"set", "unset"} /\ ~ Fail(p)
  <2>1. f = "config"
    BY <1>1, <1>10, AloneFacts DEF SettingAlone
  <2>2. /\ path'["session"] = path["session"] /\ path'["accounts"] = path["accounts"]
        /\ Finish(p) /\ Idle(p)'
    BY <1>4, <1>5, <1>10, <2>1
  <2>3. UNCHANGED <<kept, asked, gone>>
    BY <1>10, <2>2 DEF Finish
  <2> QED
    BY <1>1, <2>2, <2>3, AlonePart, QuietRecords DEF AloneInv
<1> QED
  BY <1>1, <1>2, <1>6, <1>7, <1>8, <1>9, <1>10, AloneFacts DEF Commands, LoginAlone

LEMMA AloneUnlink ==
  ASSUME AloneInv, NEW p \in Procs, ~ crowd, ~ crowd', Unlink(p)
  PROVE  AloneSound' /\ Records'
<1>1. /\ LocalTyped /\ FilesTyped /\ HistoryTyped /\ Moves(p) /\ pc[p] = "unlink" /\ ~ Idle(p)
  BY TypedParts DEF AloneInv, Moves, Step, Unlink, Idle
<1>2. cmd[p] = "logout" /\ LogoutAlone(p)
  BY <1>1, AloneFacts DEF LoginAlone, SwitchAlone, SettingAlone, Writing, Commands
<1>3. asked = {} \/ Clear
  BY <1>1, <1>2 DEF LogoutAlone
<1>4. /\ path'["session"] = {None} /\ path'["accounts"] = path["accounts"] /\ Idle(p)'
      /\ kept' = kept /\ asked' = asked /\ gone' = gone \cup asked
  <2>1. Finish(p) /\ path' = [path EXCEPT !["session"] = {None}]
    BY DEF Unlink
  <2>2. kept' = kept /\ asked' = asked /\ gone' = gone \cup asked
    BY <1>2, <2>1 DEF Finish
  <2>3. Idle(p)'
    BY <1>1, <2>1 DEF Finish, Leave, Go, Idle, LocalTyped
  <2> QED
    BY <1>1, <2>1, <2>2, <2>3 DEF FilesTyped, Files
<1>5. /\ Readable("accounts")' <=> Readable("accounts")
      /\ Contents("accounts")' = Contents("accounts")
  BY <1>4 DEF Readable, Contents, Data
<1>6. None \notin gone'
  BY <1>1, <1>4, ConfigAssumption DEF HistoryTyped, ConfigAssumption
<1>7. Records'
  BY <1>3, <1>4, <1>5, <1>6 DEF AloneInv, Records, AskedSound, AccountsKept, LogoutSticks, Clear
<1> QED
  BY <1>1, <1>4, <1>7, AlonePart

LEMMA AloneInit == Init => AloneInv
<1> SUFFICES ASSUME Init PROVE AloneInv
  OBVIOUS
<1>1. kept = {} /\ asked = {} /\ gone = {} /\ ~ crowd /\ \A p \in Procs : Idle(p)
  BY DEF Init, Idle
<1>2. HalfInCrowd
  BY ConfigAssumption DEF Init, HalfInCrowd, ConfigAssumption
<1> QED
  BY <1>1, <1>2, InitInv DEF AloneInv, AloneSound, CrowdForgets, CrowdBusy, Records,
     AskedSound, AccountsKept, LogoutSticks

LEMMA AloneStep == AloneInv /\ [Next]_vars => AloneInv'
<1> SUFFICES ASSUME AloneInv, [Next]_vars PROVE AloneInv'
  OBVIOUS
<1>1. StoreInv'
  BY StepInv DEF AloneInv
<1>2. CASE UNCHANGED vars
  <2>1. /\ Readable("accounts")' <=> Readable("accounts")
        /\ Contents("accounts")' = Contents("accounts")
    BY <1>2 DEF Readable, Contents, Data, vars
  <2>2. CrowdForgets' /\ CrowdBusy' /\ HalfInCrowd' /\ Records'
    BY <1>2, <2>1 DEF AloneInv, CrowdForgets, CrowdBusy, HalfInCrowd, Records, AskedSound,
       AccountsKept, LogoutSticks, Idle, vars
  <2>3. AloneSound'
    BY <1>2, <2>1 DEF AloneInv, AloneSound, WriteAlone, LoginAlone, LogoutAlone, SwitchAlone,
       SettingAlone, Clear, Idle, vars
  <2> QED
    BY <1>1, <2>2, <2>3 DEF AloneInv
<1>3. CASE Next
  <2>1. PICK p \in Procs : Moves(p)
    BY <1>3 DEF Next, Moves
  <2>2. /\ CrowdForgets' /\ CrowdBusy' /\ HalfInCrowd'
        /\ crowd \/ crowd' => AloneSound' /\ Records'
    BY <1>1, <2>1, CrowdStep
  <2>3. ASSUME ~ crowd, ~ crowd' PROVE AloneSound' /\ Records'
    BY <2>1, <2>3, AloneBegin, AloneRead, AloneWrites, AloneRename, AloneUnlink, AloneEnd
       DEF Moves, Step
  <2> QED
    BY <1>1, <2>2, <2>3 DEF AloneInv
<1> QED
  BY <1>2, <1>3

(* An account that has logged in stays among the stored ones until it logs *)
(* out, whatever is cut short where, for any number of processes.          *)
THEOREM AccountsStayKept == Spec => []AccountsKept
<1>1. AloneInv => AccountsKept
  BY DEF AloneInv, Records
<1> QED
  BY <1>1, AloneInit, AloneStep, PTL DEF Spec

(* Nothing of an account is left in the files once its logout has ended,   *)
(* also where an earlier logout was cut short between the two files.       *)
THEOREM LogoutStaysDone == Spec => []LogoutSticks
<1>1. AloneInv => LogoutSticks
  BY DEF AloneInv, Records
<1> QED
  BY <1>1, AloneInit, AloneStep, PTL DEF Spec

(* Outside a crowd, and when none was cut short, every file is readable.   *)
LEMMA AllReadable ==
  ASSUME AloneInv, ~ crowd, ~ damaged, NEW f \in Files
  PROVE  Readable(f)
<1>1. path[f] \in Contained(f) /\ Torn \notin path[f] /\ path[f] \cap Procs = {}
  BY TypedParts DEF AloneInv, FilesTyped, StoreInv, FilesWhole
<1> QED
  BY <1>1 DEF Contained, Readable

(* A command alone does not meet the errors of its steps.                  *)
LEMMA NoFailAlone ==
  ASSUME AloneInv, ~ crowd, ~ damaged, NEW p \in Procs, ~ Idle(p), Moves(p),
         pc'[p] = "error"
  PROVE  FALSE
<1>1. LocalTyped /\ pc \in [Procs -> Places] /\ target[p] \in Files
  BY TypedParts DEF AloneInv, LocalTyped
<1>2. \A place : Go(p, place) => place = "error"
  BY <1>1 DEF Go
<1>3. "session" \in Files /\ "accounts" \in Files /\ "config" \in Files
  BY DEF Files
<1>4. ~ Finish(p) /\ \A f, d : ~ Write(p, f, d)
  BY <1>2 DEF Finish, Leave, Write
<1>5. ~ \E c, x, place : Begin(p, c, x, place)
  BY DEF Begin
<1>6. CASE LookActive(p)
  BY <1>2, <1>6 DEF LookActive
<1>7. CASE ReadActive(p)
  <2>1. pc[p] = "active" /\ path["session"] \notin Data("session")
    BY <1>2, <1>7 DEF ReadActive
  <2>2. cmd[p] = "logout" /\ LogoutAlone(p)
    BY <2>1, AloneFacts DEF LoginAlone, SwitchAlone, SettingAlone, Writing, Commands
  <2> QED
    BY <1>3, <2>1, <2>2, AllReadable DEF LogoutAlone, Readable
<1>8. CASE ReadAccounts(p)
  BY <1>3, <1>4, <1>8, AllReadable DEF ReadAccounts
<1>9. CASE ReadConfig(p)
  BY <1>3, <1>4, <1>9, AllReadable DEF ReadConfig
<1>10. CASE RemoveTmp(p) \/ Fill(p)
  BY <1>2, <1>10 DEF RemoveTmp, Fill
<1>11. CASE Create(p)
  <2>1. tmp[target[p]] = {None}
    BY <1>11, AloneFacts DEF WriteAlone, Create
  <2> QED
    BY <1>2, <1>11, <2>1 DEF Create
<1>12. CASE Rename(p)
  <2>1. tmp[target[p]] = draft[p] /\ draft[p] \in Data(target[p])
    BY <1>12, AloneFacts DEF WriteAlone, Rename, AloneInv, StoreInv, TypeOK, Writing
  <2>2. tmp[target[p]] # {None}
    BY <1>1, <2>1, DataWhole
  <2>3. \E place \in {"unlink", "accounts"} : Go(p, place)
    BY <1>4, <1>12, <2>2 DEF Rename
  <2> QED
    BY <1>2, <2>3
<1>13. CASE Unlink(p)
  BY <1>4, <1>13 DEF Unlink
<1>14. CASE CutShort(p)
  BY <1>2, <1>14 DEF CutShort, Leave
<1> QED
  BY <1>5, <1>6, <1>7, <1>8, <1>9, <1>10, <1>11, <1>12, <1>13, <1>14
     DEF Moves, Step, Login, Logout, Switch, Configure

(* No command that runs alone ends in an error, whatever earlier ones left *)
(* behind when they were cut short, for any number of processes.           *)
THEOREM FailuresExcused == Spec => FailsOnlyInCrowd
<1>1. AloneInv /\ [Next]_vars => [FailureExcused]_vars
  <2> SUFFICES ASSUME AloneInv, [Next]_vars, NEW p \in Procs, ~ Idle(p), pc'[p] = "error",
                      ~ crowd, ~ damaged
               PROVE  FALSE
    BY DEF FailureExcused
  <2>1. CASE UNCHANGED vars
    BY <2>1 DEF Idle, vars
  <2>2. CASE Next
    <3>1. PICK q \in Procs : Moves(q)
      BY <2>2 DEF Next, Moves
    <3>2. CASE q = p
      BY <3>1, <3>2, NoFailAlone
    <3>3. CASE q # p
      <4>1. pc'[p] = pc[p]
        BY <3>1, <3>3, Shape, ShapeFacts DEF AloneInv
      <4> QED
        BY <4>1 DEF Idle
    <3> QED
      BY <3>2, <3>3
  <2> QED
    BY <2>1, <2>2
<1> QED
  BY <1>1, AloneInit, AloneStep, PTL DEF Spec, FailsOnlyInCrowd
=============================================================================
