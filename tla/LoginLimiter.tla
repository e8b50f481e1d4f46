----------------------------- MODULE LoginLimiter -----------------------------
(***************************************************************************)
(* Accounts and the limit on failed logins: register and login             *)
(* (server/app/api/auth.py) over the table of users, and the               *)
(* LoginRateLimiter (server/app/core/middleware.py), a table in memory     *)
(* that the worker threads of one server process share.                    *)
(*                                                                         *)
(* is_limited, add_failure and clear take the lock one at a time, and a    *)
(* login calls them with a look into the database and a slow verification  *)
(* of the password in between.  is_limited reads the clock before it takes *)
(* the lock, add_failure reads it inside.  Times are ages: how long ago    *)
(* the clock was read, up to AgeCap, beyond which they all count the same. *)
(***************************************************************************)
EXTENDS Naturals, FiniteSets, SequencesExt

CONSTANTS
  Threads,   \* worker threads, one request each
  Keys,      \* pairs of client address and email
  Emails,
  EmailOf,   \* the email of a key
  Attempts,  \* login_rate_limit_attempts
  Window,    \* login_rate_limit_window_seconds
  MaxKeys,   \* entries at which add_failure evicts, 10000 in the code
  MaxLag     \* bound: how long a thread may wait for the lock

ASSUME LimiterAssumption ==
  /\ IsFiniteSet(Threads) /\ IsFiniteSet(Keys)
  /\ EmailOf \in [Keys -> Emails]
  /\ Attempts \in Nat \ {0} /\ Window \in Nat \ {0}
  /\ MaxKeys \in Nat \ {0} /\ MaxLag \in Nat

VARIABLES
  users,    \* emails that have an account
  table,    \* the keys that have an entry, in order of insertion
  entries,  \* key -> ages of its failures, in the order of the deque
  pc,       \* thread -> where its login is
  key,      \* thread -> the key of its login
  lag       \* thread -> age of the time it has read for is_limited

vars == <<users, table, entries, pc, key, lag>>

AgeCap == Window + MaxLag
Places == {"idle", "asking", "checked", "wrong", "right", "cleared"}

(* Threads that the limit has let through and that may still add a failure. *)
Admitted(k) == {t \in Threads : pc[t] \in {"checked", "wrong"} /\ key[t] = k}

Init ==
  /\ users = {} /\ table = <<>>
  /\ entries = [k \in Keys |-> <<>>]
  /\ pc = [t \in Threads |-> "idle"]
  /\ key \in {[t \in Threads |-> k] : k \in Keys}
  /\ lag = [t \in Threads |-> 0]
-----------------------------------------------------------------------------
(* register: the unique constraint decides between two of them.            *)
Register(e) ==
  /\ e \notin users
  /\ users' = users \cup {e}
  /\ UNCHANGED <<table, entries, pc, key, lag>>
-----------------------------------------------------------------------------
(* login.                                                                  *)

Go(t, place) == pc' = [pc EXCEPT ![t] = place]

(* The request arrives; is_limited reads the clock.                        *)
Login(t, k) ==
  /\ pc[t] = "idle"
  /\ Go(t, "asking")
  /\ key' = [key EXCEPT ![t] = k]
  /\ lag' = [lag EXCEPT ![t] = 0]
  /\ UNCHANGED <<users, table, entries>>

(* The deque without the leading entries that have left the window, seen   *)
(* from a time that was read l ago.                                        *)
Prune(q, l) ==
  LET old == {i \in DOMAIN q : \A j \in 1 .. i : q[j] >= Window + l}
  IN  SubSeq(q, Cardinality(old) + 1, Len(q))

(* A defaultdict: to look a key up is to insert it.                        *)
Inserted(k) == IF Contains(table, k) THEN table ELSE Append(table, k)

(* Mutant: one failure more than the limit is let through.                 *)
IsLimitedLate(t) ==
  LET k == key[t]
      q == Prune(entries[k], lag[t])
  IN  /\ pc[t] = "asking"
      /\ entries' = [entries EXCEPT ![k] = q]
      /\ table' = Inserted(k)
      /\ Go(t, IF Len(q) > Attempts THEN "idle" ELSE "checked")
      /\ lag' = [lag EXCEPT ![t] = 0]
      /\ UNCHANGED <<users, key>>

(* Mutant: a refused attempt counts as one more failure.                   *)
IsLimitedCounts(t) ==
  LET k == key[t]
      q == Prune(entries[k], lag[t])
  IN  /\ pc[t] = "asking"
      /\ entries' = [entries EXCEPT ![k] =
                       IF Len(q) >= Attempts THEN Append(Tail(q), 0) ELSE q]
      /\ table' = Inserted(k)
      /\ Go(t, IF Len(q) >= Attempts THEN "idle" ELSE "checked")
      /\ lag' = [lag EXCEPT ![t] = 0]
      /\ UNCHANGED <<users, key>>

(* is_limited, under the lock; a limited login is answered 429.            *)
IsLimited(t) ==
  LET k == key[t]
      q == Prune(entries[k], lag[t])
  IN  /\ pc[t] = "asking"
      /\ entries' = [entries EXCEPT ![k] = q]
      /\ table' = Inserted(k)
      /\ Go(t, IF Len(q) >= Attempts THEN "idle" ELSE "checked")
      /\ lag' = [lag EXCEPT ![t] = 0]
      /\ UNCHANGED <<users, key>>

(* get_user_by_email and verify_password.                                  *)
Verify(t) ==
  /\ pc[t] = "checked"
  /\ \/ Go(t, "wrong")
     \/ EmailOf[key[t]] \in users /\ Go(t, "right")
  /\ UNCHANGED <<users, table, entries, key, lag>>

(* What add_failure evicts before it inserts k.                            *)
Evicts(k) == ~ Contains(table, k) /\ Len(table) >= MaxKeys

(* Mutant: the clock is read before the lock is taken.                     *)
AddFailureOldTime(t) ==
  LET k == key[t] IN
  /\ pc[t] = "wrong"
  /\ \E age \in 0 .. MaxLag :
       IF Evicts(k)
       THEN /\ table' = Append(Tail(table), k)
            /\ entries' = [entries EXCEPT ![Head(table)] = <<>>, ![k] = <<age>>]
       ELSE /\ table' = Inserted(k)
            /\ entries' = [entries EXCEPT ![k] = Append(@, age)]
  /\ Go(t, "idle")
  /\ UNCHANGED <<users, key, lag>>

(* Mutant: the eviction forgets the oldest key and not its failures, which *)
(* then count again when the key returns.                                  *)
AddFailureKeepsEvicted(t) ==
  LET k == key[t] IN
  /\ pc[t] = "wrong"
  /\ table' = IF Evicts(k) THEN Append(Tail(table), k) ELSE Inserted(k)
  /\ entries' = [entries EXCEPT ![k] = Append(@, 0)]
  /\ Go(t, "idle")
  /\ UNCHANGED <<users, key, lag>>

(* add_failure, under the lock, and the answer 401.                        *)
AddFailure(t) ==
  LET k == key[t] IN
  /\ pc[t] = "wrong"
  /\ IF Evicts(k)
     THEN /\ table' = Append(Tail(table), k)
          /\ entries' = [entries EXCEPT ![Head(table)] = <<>>, ![k] = <<0>>]
     ELSE /\ table' = Inserted(k)
          /\ entries' = [entries EXCEPT ![k] = Append(@, 0)]
  /\ Go(t, "idle")
  /\ UNCHANGED <<users, key, lag>>

(* The dictionary without the entry of k, if it has one.                   *)
Popped(k) ==
  IF Contains(table, k) THEN RemoveAt(table, CHOOSE i \in DOMAIN table : table[i] = k)
                        ELSE table

(* clear, under the lock.                                                  *)
Clear(t) ==
  /\ pc[t] = "right"
  /\ table' = Popped(key[t])
  /\ entries' = [entries EXCEPT ![key[t]] = <<>>]
  /\ Go(t, "cleared")
  /\ UNCHANGED <<users, key, lag>>

(* The audit event is committed and the token issued, or the commit fails. *)
Answer(t) ==
  /\ pc[t] = "cleared"
  /\ Go(t, "idle")
  /\ UNCHANGED <<users, table, entries, key, lag>>
-----------------------------------------------------------------------------
(* The database is gone: the request ends with a 500 at its next query.    *)
DatabaseFails(t) ==
  /\ pc[t] = "checked"
  /\ Go(t, "idle")
  /\ UNCHANGED <<users, table, entries, key, lag>>

(* The server process is started again: __init__.                          *)
Restart ==
  /\ table' = <<>>
  /\ entries' = [k \in Keys |-> <<>>]
  /\ pc' = [t \in Threads |-> "idle"]
  /\ lag' = [t \in Threads |-> 0]
  /\ UNCHANGED <<users, key>>

Older(n) == IF n < AgeCap THEN n + 1 ELSE n

Tick ==
  /\ \A t \in Threads : pc[t] = "asking" => lag[t] < MaxLag
  /\ entries' = [k \in Keys |-> [i \in DOMAIN entries[k] |-> Older(entries[k][i])]]
  /\ lag' = [t \in Threads |-> IF pc[t] = "asking" THEN lag[t] + 1 ELSE lag[t]]
  /\ UNCHANGED <<users, table, pc, key>>
-----------------------------------------------------------------------------
Step(t) ==
  \/ IsLimited(t) \/ Verify(t) \/ AddFailure(t) \/ Clear(t) \/ Answer(t)

Next ==
  \/ \E e \in Emails : Register(e)
  \/ \E t \in Threads : Step(t) \/ DatabaseFails(t)
  \/ \E t \in Threads, k \in Keys : Login(t, k)
  \/ Restart
  \/ Tick

(* Requests end and time passes.                                           *)
Fairness == SF_vars(Tick) /\ \A t \in Threads : WF_vars(Step(t))

Spec == Init /\ [][Next]_vars
FairSpec == Spec /\ Fairness
-----------------------------------------------------------------------------
TypeOK ==
  /\ users \in SUBSET Emails
  /\ table \in Seq(Keys) /\ IsInjective(table)
  /\ entries \in [Keys -> Seq(0 .. AgeCap)]
  /\ \A k \in Keys : entries[k] # <<>> => Contains(table, k)
  /\ pc \in [Threads -> Places]
  /\ key \in [Threads -> Keys]
  /\ lag \in [Threads -> 0 .. MaxLag]

(* Logins of one key that run at once can pass the limit only by as many   *)
(* as there are threads: is_limited counts what add_failure adds much      *)
(* later (auth.py:43, 47), and no order of the two, no pruning and no      *)
(* clear in between admits more failures than that.                        *)
OvershootBounded ==
  \A k \in Keys :
    Len(entries[k]) + Cardinality(Admitted(k)) <= Attempts - 1 + Cardinality(Threads)

Recent(k, l) == {i \in DOMAIN entries[k] : entries[k][i] < Window + l}

(* A login is refused only for Attempts failures that lay in the window    *)
(* when the request read its clock: is_limited looks only at the front of  *)
(* the deque (middleware.py:90), which is right only if the deque is in    *)
(* order of time, whatever the order in which threads got the lock.        *)
RefusedInWindow ==
  \A t \in Threads :
    pc[t] = "asking" /\ pc'[t] = "idle"
      => \/ Cardinality(Recent(key[t], lag[t])) >= Attempts
         \/ pc' = [u \in Threads |-> "idle"] /\ table' = <<>>
NoStaleRefusal == [][RefusedInWindow]_vars

Limited(k) == Cardinality(Recent(k, 0)) >= Attempts

(* A key that has been limited is admitted again, however often its client *)
(* goes on trying: refused attempts do not prolong the limit.              *)
LimitLifts == \A k \in Keys : Limited(k) ~> ~ Limited(k)
=============================================================================
