-------------------------- MODULE ReviewQueueProofs --------------------------
(***************************************************************************)
(* What the lock of the review queue guarantees, for any number of         *)
(* processes, ids and calls: types always; that no line is lost and that   *)
(* the cap is kept, as long as no two processes can find the same lock     *)
(* stale (AtMostOneRemains).  Without that the run review_takeover shows   *)
(* a line that is lost.                                                    *)
(***************************************************************************)
EXTENDS ReviewQueue, FiniteSetTheorems, TLAPS

(* Whoever dies, at most one process is left to take over its lock; in     *)
(* particular when nobody dies.                                            *)
AtMostOneRemains == \A d \in Mortals: \A a, b \in Clients \ {d}: a = b

Working == {"locking", "taking", "locked", "admitted", "copied", "unlocking"}
Critical == {"locked", "admitted", "copied", "unlocking"}

(* TypeOK is not inductive: a process at work has been called.             *)
Called == \A c \in Clients: pc[c] \in Working => call[c] \in Calls /\ calls[c] \in 1..MaxCalls
TypeInv == TypeOK /\ Called

(* The lock is stale only when its owner is dead, and whoever is about to  *)
(* unlink it is alone; whoever is in the block owns the lock.              *)
OwnersAreCritical == \A c \in Clients: pc[c] \in Critical => lock # NoLock /\ lock.owner = c
StaleLocksAreOfTheDead == lock # NoLock /\ lock.stale => pc[lock.owner] = "dead"
OnlyMortalsDie == \A c \in Clients: pc[c] = "dead" => c \in Mortals
TakersAreAlone ==
    \A c, d \in Clients: pc[c] = "taking" /\ d # c => pc[d] = "dead"
(* The copy a process is about to replace the file with is up to date.     *)
CopiesAreFresh == \A c \in Clients: pc[c] = "copied" => copy[c] = Append(file, RecordOf(c))
Locked == OwnersAreCritical /\ StaleLocksAreOfTheDead /\ OnlyMortalsDie /\ TakersAreAlone
Excluded == Locked /\ CopiesAreFresh

(* What was admitted fits.                                                 *)
AdmittedFit ==
    \A c \in Clients: pc[c] \in {"admitted", "copied"} /\ call[c].op = "hold" =>
        EntryCount(file) + 1 <= Cap
QueueInv == TypeInv /\ Excluded
CapInv == QueueInv /\ CapIsKept /\ AdmittedFit

------------------------------------------------------------------------------
(* The line a call adds is a line of the file's type, of the call's kind.  *)
LEMMA RecordIsTyped ==
    ASSUME NEW c \in Clients, call[c] \in Calls, calls[c] \in 1..MaxCalls
    PROVE  /\ RecordOf(c) \in Records
           /\ call[c].op \in {"hold", "resolve"}
           /\ call[c].op = "resolve" => RecordOf(c).kind = "resolution"
<1> DEFINE by == <<c, calls[c]>>
<1>0. by \in Clients \X (1..MaxCalls)
  OBVIOUS
<1>1. CASE call[c] \in Holds
  <2>1. /\ call[c].op = "hold" /\ call[c].id \in Ids /\ call[c].type \in Types
    BY <1>1 DEF Holds
  <2>2. RecordOf(c) = [kind |-> "entry", id |-> call[c].id, type |-> call[c].type, by |-> by]
    BY <2>1 DEF RecordOf
  <2> QED
    BY <1>0, <2>1, <2>2 DEF Records, Entries
<1>2. CASE call[c] \in Resolves
  <2>1. /\ call[c].op = "resolve" /\ call[c].id \in Ids /\ call[c].choice \in Choices
    BY <1>2 DEF Resolves
  <2>2. RecordOf(c) = [kind |-> "resolution", id |-> call[c].id, choice |-> call[c].choice, by |-> by]
    BY <2>1 DEF RecordOf
  <2> QED
    BY <1>0, <2>1, <2>2 DEF Records, Resolutions
<1> QED
  BY <1>1, <1>2 DEF Calls

(* The open entries of a queue are finitely many.                          *)
LEMMA OpenEntriesAreFinite ==
    ASSUME NEW s \in Seq(Records)
    PROVE  /\ IsFiniteSet(OpenEntries(s)) /\ EntryCount(s) \in Nat
           /\ OpenEntries(s) \subseteq 1..Len(s)
<1>1. OpenEntries(s) \subseteq 1..Len(s)
  BY DEF OpenEntries, EntriesOf
<1>2. IsFiniteSet(1..Len(s))
  BY FS_Interval, Len(s) \in Nat
<1>3. IsFiniteSet(OpenEntries(s))
  BY <1>1, <1>2, FS_Subset
<1> QED
  BY <1>1, <1>3, FS_CardinalityType DEF EntryCount

(* A further line opens at most one entry, and none when it is a resolution.*)
LEMMA OneMoreLine ==
    ASSUME NEW s \in Seq(Records), NEW r \in Records
    PROVE  /\ EntryCount(Append(s, r)) <= EntryCount(s) + 1
           /\ r.kind = "resolution" => EntryCount(Append(s, r)) <= EntryCount(s)
<1> DEFINE t == Append(s, r)
           n == Len(s) + 1
<1>1. /\ t \in Seq(Records) /\ Len(t) = n /\ n \in Nat /\ t[n] = r
      /\ \A k \in 1..Len(s): t[k] = s[k]
  OBVIOUS
<1> HIDE DEF t
<1>2. ASSUME NEW i \in OpenEntries(t), i \in 1..Len(s)
      PROVE  i \in OpenEntries(s)
  <2>1. s[i].kind = "entry"
    BY <1>1, <1>2 DEF OpenEntries, EntriesOf
  <2>2. ASSUME NEW j \in 1..Len(s), ClosedBy(s, i, j)
        PROVE  FALSE
    <3>1. j \in 1..Len(t)
      BY <1>1
    <3>2. /\ t[j] = s[j] /\ t[i] = s[i]
          /\ \A k \in (i + 1)..(j - 1): t[k] = s[k]
      BY <1>1, <1>2
    <3>3. ClosedBy(t, i, j)
      BY <2>2, <3>2 DEF ClosedBy
    <3> QED
      BY <1>2, <3>1, <3>3 DEF OpenEntries
  <2> QED
    BY <1>2, <2>1, <2>2 DEF OpenEntries, EntriesOf
<1>3. OpenEntries(t) \subseteq OpenEntries(s) \cup {n}
  <2> SUFFICES ASSUME NEW i \in OpenEntries(t), i # n PROVE i \in OpenEntries(s)
    OBVIOUS
  <2>1. i \in 1..Len(s)
    BY <1>1 DEF OpenEntries, EntriesOf
  <2> QED
    BY <1>2, <2>1
<1>4. ASSUME r.kind = "resolution" PROVE OpenEntries(t) \subseteq OpenEntries(s)
  <2>1. n \notin OpenEntries(t)
    BY <1>1, <1>4 DEF OpenEntries, EntriesOf
  <2> QED
    BY <1>3, <2>1
<1>5. /\ IsFiniteSet(OpenEntries(s)) /\ n \notin OpenEntries(s)
  <2>1. n \notin 1..Len(s)
    OBVIOUS
  <2> QED
    BY <2>1, OpenEntriesAreFinite
<1>6. /\ IsFiniteSet(OpenEntries(s) \cup {n})
      /\ Cardinality(OpenEntries(s) \cup {n}) = EntryCount(s) + 1
  BY <1>5, FS_AddElement DEF EntryCount
<1>7. EntryCount(t) <= EntryCount(s) + 1
  BY <1>3, <1>6, FS_Subset DEF EntryCount
<1>8. ASSUME r.kind = "resolution" PROVE EntryCount(t) <= EntryCount(s)
  BY <1>4, <1>5, <1>8, FS_Subset DEF EntryCount
<1> QED
  BY <1>7, <1>8 DEF t

------------------------------------------------------------------------------
(* A step of the queue is one step of one process, or a lock that ages.    *)
LEMMA TypesAreInvariant == TypeInv /\ [Next]_vars => TypeInv'
<1> SUFFICES ASSUME TypeInv, [Next]_vars PROVE TypeInv'
  OBVIOUS
<1> USE QueueAssumption DEF TypeInv, TypeOK, Called, Working, Places
<1>1. ASSUME NEW c \in Clients, NEW r \in Holds, Hold(c, r) PROVE TypeInv'
  <2>1. r \in Calls
    BY DEF Calls
  <2>2. /\ calls' \in [Clients -> 0..MaxCalls] /\ calls'[c] \in 1..MaxCalls
        /\ \A d \in Clients \ {c}: calls'[d] = calls[d]
    BY <1>1 DEF Hold
  <2>3. \/ pc' = [pc EXCEPT ![c] = "locking"] /\ call' = [call EXCEPT ![c] = r]
        \/ UNCHANGED <<pc, call>> /\ pc[c] = "idle"
    BY <1>1 DEF Hold, GoTo, Refuse
  <2>4. UNCHANGED <<file, lock, copy>>
    BY <1>1 DEF Hold
  <2>5. pc' \in [Clients -> Places]
    BY <2>3
  <2>6. call' \in [Clients -> Calls \cup {NoCall}]
    BY <2>1, <2>3
  <2>7. ASSUME NEW d \in Clients, pc'[d] \in Working PROVE call'[d] \in Calls /\ calls'[d] \in 1..MaxCalls
    BY <2>1, <2>2, <2>3, <2>7
  <2> QED
    BY <2>2, <2>4, <2>5, <2>6, <2>7
<1>2. ASSUME NEW c \in Clients, NEW r \in Resolves, Resolve(c, r) PROVE TypeInv'
  <2>1. r \in Calls
    BY DEF Calls
  <2>2. /\ calls' \in [Clients -> 0..MaxCalls] /\ calls'[c] \in 1..MaxCalls
        /\ \A d \in Clients \ {c}: calls'[d] = calls[d]
    BY <1>2 DEF Resolve
  <2>3. \/ pc' = [pc EXCEPT ![c] = "locking"] /\ call' = [call EXCEPT ![c] = r]
        \/ UNCHANGED <<pc, call>> /\ pc[c] = "idle"
    BY <1>2 DEF Resolve, GoTo, Refuse
  <2>4. UNCHANGED <<file, lock, copy>>
    BY <1>2 DEF Resolve
  <2>5. pc' \in [Clients -> Places]
    BY <2>3
  <2>6. call' \in [Clients -> Calls \cup {NoCall}]
    BY <2>1, <2>3
  <2>7. ASSUME NEW d \in Clients, pc'[d] \in Working PROVE call'[d] \in Calls /\ calls'[d] \in 1..MaxCalls
    BY <2>1, <2>2, <2>3, <2>7
  <2> QED
    BY <2>2, <2>4, <2>5, <2>6, <2>7
<1>3. ASSUME NEW c \in Clients, CreateLock(c) \/ FindStale(c) \/ UnlinkStale(c) PROVE TypeInv'
  <2>1. [owner |-> c, stale |-> FALSE] \in [owner: Clients, stale: BOOLEAN]
    OBVIOUS
  <2>2. lock' \in [owner: Clients, stale: BOOLEAN] \cup {NoLock}
    BY <1>3, <2>1, Zenon DEF CreateLock, FindStale, UnlinkStale
  <2>3. /\ pc[c] \in Working /\ UNCHANGED <<file, call, calls, copy>>
        /\ \E place \in Working: pc' = [pc EXCEPT ![c] = place]
    BY <1>3 DEF CreateLock, FindStale, UnlinkStale, GoTo
  <2> QED
    BY <2>2, <2>3
<1>4. ASSUME NEW c \in Clients, GiveUp(c) \/ Unlock(c) PROVE TypeInv'
  BY <1>4 DEF GiveUp, Unlock, Return, GoTo
<1>5. ASSUME NEW c \in Clients, Admit(c) PROVE TypeInv'
  BY <1>5 DEF Admit, GoTo
<1>6. ASSUME NEW c \in Clients, CopyLines(c) PROVE TypeInv'
  <2>1. RecordOf(c) \in Records
    BY <1>6, RecordIsTyped DEF CopyLines
  <2>2. Append(file, RecordOf(c)) \in Seq(Records)
    BY <2>1
  <2> QED
    BY <1>6, <2>2 DEF CopyLines, GoTo
<1>7. ASSUME NEW c \in Clients, ReplaceFile(c) PROVE TypeInv'
  BY <1>7 DEF ReplaceFile, GoTo
<1>8. ASSUME NEW c \in Clients, WriteFails(c) PROVE TypeInv'
  BY <1>8 DEF WriteFails, GoTo
<1>9. ASSUME NEW c \in Clients, Die(c) PROVE TypeInv'
  BY <1>9 DEF Die, GoTo
<1>10. CASE LockGetsStale
  BY <1>10 DEF LockGetsStale
<1>11. CASE UNCHANGED vars
  BY <1>11 DEF vars
<1> QED
  BY <1>1, <1>2, <1>3, <1>4, <1>5, <1>6, <1>7, <1>8, <1>9, <1>10, <1>11 DEF Next, Serve

(* A process in the block keeps out every other.                           *)
LEMMA LockExcludes ==
    ASSUME AtMostOneRemains
    PROVE  TypeInv /\ Locked /\ [Next]_vars => Locked'
<1> SUFFICES ASSUME TypeInv, Locked, [Next]_vars PROVE Locked'
  OBVIOUS
<1> USE QueueAssumption DEF TypeInv, TypeOK, Locked, OwnersAreCritical,
        StaleLocksAreOfTheDead, OnlyMortalsDie, TakersAreAlone, Critical
<1>1. ASSUME NEW c \in Clients, NEW r \in Holds \cup Resolves, Hold(c, r) \/ Resolve(c, r)
      PROVE  Locked'
  <2>1. /\ pc[c] = "idle" /\ lock' = lock
        /\ pc' = [pc EXCEPT ![c] = "locking"] \/ pc' = pc
    BY <1>1 DEF Hold, Resolve, GoTo, Refuse
  <2> QED
    BY <2>1
<1>2. ASSUME NEW c \in Clients, CreateLock(c) PROVE Locked'
  <2>1. \A d \in Clients: pc[d] \notin Critical
    BY <1>2 DEF CreateLock
  <2>2. [owner |-> c, stale |-> FALSE] \in [owner: Clients, stale: BOOLEAN]
    OBVIOUS
  <2>3. lock' # NoLock /\ lock'.owner = c /\ ~lock'.stale
    BY <1>2, <2>2 DEF CreateLock
  <2>4. pc' = [pc EXCEPT ![c] = "locked"] /\ pc[c] = "locking"
    BY <1>2 DEF CreateLock, GoTo
  <2> QED
    BY <2>1, <2>3, <2>4
<1>3. ASSUME NEW c \in Clients, FindStale(c) PROVE Locked'
  <2>1. /\ lock.owner \in Mortals /\ pc[lock.owner] = "dead" /\ lock.owner # c
    BY <1>3 DEF FindStale
  <2>2. \A d \in Clients: d # c => pc[d] = "dead"
    BY <2>1 DEF AtMostOneRemains
  <2> QED
    BY <1>3, <2>2 DEF FindStale, GoTo
<1>4. ASSUME NEW c \in Clients, UnlinkStale(c) PROVE Locked'
  BY <1>4 DEF UnlinkStale, GoTo
<1>5. ASSUME NEW c \in Clients, GiveUp(c) PROVE Locked'
  BY <1>5 DEF GiveUp, Return, GoTo
<1>6. ASSUME NEW c \in Clients, Unlock(c) PROVE Locked'
  <2>1. \A d \in Clients: pc[d] \in Critical => d = c
    BY <1>6 DEF Unlock
  <2> QED
    BY <1>6, <2>1 DEF Unlock, Return, GoTo
<1>7. ASSUME NEW c \in Clients, Admit(c) \/ CopyLines(c) \/ ReplaceFile(c) \/ WriteFails(c)
      PROVE  Locked'
  <2>1. PICK place \in Critical:
          pc[c] \in Critical /\ lock' = lock /\ pc' = [pc EXCEPT ![c] = place]
    BY <1>7 DEF Admit, CopyLines, ReplaceFile, WriteFails, GoTo
  <2> QED
    BY <2>1
<1>8. ASSUME NEW c \in Clients, Die(c) PROVE Locked'
  <2>1. c \in Mortals /\ lock' = lock /\ pc' = [pc EXCEPT ![c] = "dead"]
    BY <1>8 DEF Die, GoTo
  <2> QED
    BY <2>1
<1>9. CASE LockGetsStale
  BY <1>9 DEF LockGetsStale
<1>10. CASE UNCHANGED vars
  BY <1>10 DEF vars
<1> QED
  BY <1>1, <1>2, <1>3, <1>4, <1>5, <1>6, <1>7, <1>8, <1>9, <1>10 DEF Next, Serve

(* Nobody else changes the file between a copy and the replacement.        *)
LEMMA CopiesStayFresh == TypeInv /\ Excluded /\ [Next]_vars => CopiesAreFresh'
<1> SUFFICES ASSUME TypeInv, Excluded, [Next]_vars, NEW d \in Clients, pc'[d] = "copied"
             PROVE  (copy[d] = Append(file, RecordOf(d)))'
  BY DEF CopiesAreFresh
<1> USE DEF TypeInv, TypeOK
<1>1. CASE pc[d] = "copied" /\ UNCHANGED <<file, call[d], calls[d], copy[d]>>
  BY <1>1 DEF Excluded, CopiesAreFresh, RecordOf
<1>2. CASE CopyLines(d)
  BY <1>2 DEF CopyLines, RecordOf
<1>3. \A c \in Clients: pc[d] = "copied" /\ pc[c] \in Critical => c = d
  BY DEF Excluded, Locked, OwnersAreCritical, Critical
<1>4. ASSUME NEW c \in Clients, NEW r \in Holds \cup Resolves, Hold(c, r) \/ Resolve(c, r)
      PROVE  pc[d] = "copied" /\ UNCHANGED <<file, call[d], calls[d], copy[d]>>
  BY <1>4 DEF Hold, Resolve, GoTo, Refuse
<1>5. ASSUME NEW c \in Clients,
             CreateLock(c) \/ FindStale(c) \/ UnlinkStale(c) \/ GiveUp(c) \/ Admit(c) \/ Unlock(c)
      PROVE  pc[d] = "copied" /\ UNCHANGED <<file, call[d], calls[d], copy[d]>>
  BY <1>5 DEF CreateLock, FindStale, UnlinkStale, GiveUp, Admit, Unlock, Return, GoTo
<1>6. ASSUME NEW c \in Clients, c # d, CopyLines(c) \/ WriteFails(c) \/ Die(c)
      PROVE  pc[d] = "copied" /\ UNCHANGED <<file, call[d], calls[d], copy[d]>>
  BY <1>6 DEF CopyLines, WriteFails, Die, GoTo
<1>7. ASSUME NEW c \in Clients, c # d, ReplaceFile(c) PROVE FALSE
  BY <1>3, <1>7 DEF ReplaceFile, GoTo, Critical
<1>8. ~(ReplaceFile(d) \/ WriteFails(d) \/ Die(d))
  BY DEF ReplaceFile, WriteFails, Die, GoTo
<1>9. CASE LockGetsStale \/ UNCHANGED vars
  BY <1>1, <1>9 DEF LockGetsStale, vars
<1> QED
  BY <1>1, <1>2, <1>4, <1>5, <1>6, <1>7, <1>8, <1>9 DEF Next, Serve

LEMMA QueueInvHolds ==
    ASSUME AtMostOneRemains
    PROVE  Spec => []QueueInv
<1>1. Init => QueueInv
  BY QueueAssumption DEF Init, QueueInv, TypeInv, TypeOK, Called, Working, Places, Excluded,
     Locked, OwnersAreCritical, StaleLocksAreOfTheDead, OnlyMortalsDie, TakersAreAlone, CopiesAreFresh,
     Critical
<1>2. QueueInv /\ [Next]_vars => QueueInv'
  BY TypesAreInvariant, LockExcludes, CopiesStayFresh DEF QueueInv, Excluded
<1> QED
  BY <1>1, <1>2, PTL DEF Spec

------------------------------------------------------------------------------
(* Types of the file, the lock and the calls, for any number of processes  *)
(* that die at any point.                                                  *)
THEOREM QueueTypeCorrect == Spec => []TypeOK
<1>1. Init => TypeInv
  BY QueueAssumption DEF Init, TypeInv, TypeOK, Called, Working, Places
<1>2. TypeInv => TypeOK
  BY DEF TypeInv
<1> QED
  BY <1>1, <1>2, TypesAreInvariant, PTL DEF Spec

(* Nothing is deleted (_write_record, append, cmd_resolve): every          *)
(* replacement of the file keeps its lines and adds one, as long as no two *)
(* processes can take over the same lock.                                  *)
THEOREM NoLineIsLost ==
    ASSUME AtMostOneRemains
    PROVE  Spec => QueueIsAppendOnly
<1> DEFINE Grows == /\ Len(file') = Len(file) + 1
                    /\ \A i \in 1..Len(file): file'[i] = file[i]
<1>1. QueueInv /\ [Next]_vars => [Grows]_file
  <2> SUFFICES ASSUME QueueInv, [Next]_vars, file' # file PROVE Grows
    OBVIOUS
  <2>1. PICK c \in Clients: ReplaceFile(c)
    BY DEF Next, Serve, Hold, Resolve, CreateLock, FindStale, UnlinkStale, GiveUp, Admit,
       CopyLines, Unlock, WriteFails, Die, LockGetsStale, vars
  <2>2. file' = Append(file, RecordOf(c)) /\ file \in Seq(Records)
    BY <2>1 DEF ReplaceFile, QueueInv, Excluded, CopiesAreFresh, TypeInv, TypeOK
  <2>3. RecordOf(c) \in Records
    BY <2>1, RecordIsTyped DEF ReplaceFile, QueueInv, TypeInv, Called, Working
  <2> QED
    BY <2>2, <2>3
<1> QED
  BY <1>1, QueueInvHolds, PTL DEF Spec, QueueIsAppendOnly

------------------------------------------------------------------------------
LEMMA CapIsInvariant ==
    ASSUME AtMostOneRemains
    PROVE  CapInv /\ QueueInv' /\ [Next]_vars => CapInv'
<1> SUFFICES ASSUME CapInv, QueueInv', [Next]_vars PROVE CapInv'
  OBVIOUS
<1> USE QueueAssumption DEF CapInv, CapIsKept, AdmittedFit
<1>1. ASSUME NEW c \in Clients, ReplaceFile(c) PROVE CapInv'
  <2>1. /\ file' = Append(file, RecordOf(c)) /\ file \in Seq(Records) /\ pc[c] = "copied"
    BY <1>1 DEF ReplaceFile, QueueInv, Excluded, CopiesAreFresh, TypeInv, TypeOK
  <2>2. call[c] \in Calls /\ calls[c] \in 1..MaxCalls
    BY <2>1 DEF QueueInv, TypeInv, Called, Working
  <2>3. /\ EntryCount(file) \in Nat /\ EntryCount(file)' \in Nat
        /\ EntryCount(file)' <= EntryCount(file) + 1
        /\ call[c].op = "resolve" => EntryCount(file)' <= EntryCount(file)
        /\ call[c].op \in {"hold", "resolve"}
    BY <2>1, <2>2, RecordIsTyped, OneMoreLine, OpenEntriesAreFinite, file' \in Seq(Records)
  <2>4. CapIsKept'
    BY <2>1, <2>3
  <2>5. \A d \in Clients: pc'[d] \notin {"admitted", "copied"}
    <3>1. \A d \in Clients: pc[d] \in Critical => d = c
      BY <2>1 DEF QueueInv, Excluded, Locked, OwnersAreCritical, Critical
    <3> QED
      BY <1>1, <3>1 DEF ReplaceFile, GoTo, Critical, QueueInv, TypeInv, TypeOK
  <2> QED
    BY <2>4, <2>5
<1>2. ASSUME NEW c \in Clients, Admit(c) PROVE CapInv'
  <2>1. call[c].op \in {"hold", "resolve"}
    BY <1>2, RecordIsTyped DEF Admit, QueueInv, TypeInv, Called, Working
  <2> QED
    BY <1>2, <2>1 DEF Admit, GoTo, QueueInv, TypeInv, TypeOK
<1>3. ASSUME NEW c \in Clients, NEW r \in Holds \cup Resolves, Hold(c, r) \/ Resolve(c, r)
      PROVE  CapInv'
  BY <1>3 DEF Hold, Resolve, GoTo, Refuse, QueueInv, TypeInv, TypeOK
<1>4. ASSUME NEW c \in Clients,
             CreateLock(c) \/ FindStale(c) \/ UnlinkStale(c) \/ GiveUp(c) \/ CopyLines(c)
               \/ Unlock(c) \/ WriteFails(c) \/ Die(c)
      PROVE  CapInv'
  <2> USE DEF GoTo, QueueInv, TypeInv, TypeOK
  <2>1. CASE CreateLock(c) \/ FindStale(c) \/ UnlinkStale(c)
    BY <2>1 DEF CreateLock, FindStale, UnlinkStale
  <2>2. CASE GiveUp(c) \/ CopyLines(c)
    BY <2>2 DEF GiveUp, CopyLines, Return
  <2>3. CASE Unlock(c) \/ WriteFails(c) \/ Die(c)
    BY <2>3 DEF Unlock, WriteFails, Die, Return
  <2> QED
    BY <1>4, <2>1, <2>2, <2>3
<1>5. CASE LockGetsStale \/ UNCHANGED vars
  BY <1>5 DEF LockGetsStale, vars
<1> QED
  BY <1>1, <1>2, <1>3, <1>4, <1>5 DEF Next, Serve

(* append, entry_count: the queue never holds more unresolved entries than *)
(* the cap, although a hold is counted in one step and written in a later  *)
(* one: the lock keeps the count true in between.                          *)
THEOREM CapStaysKept ==
    ASSUME AtMostOneRemains
    PROVE  Spec => []CapIsKept
<1>1. Init /\ QueueInv => CapInv
  <2> SUFFICES ASSUME Init, QueueInv PROVE CapInv
    OBVIOUS
  <2>1. OpenEntries(file) = {}
    BY DEF Init, OpenEntries, EntriesOf
  <2>2. EntryCount(file) = 0
    BY <2>1, FS_EmptySet DEF EntryCount
  <2> QED
    BY <2>2, QueueAssumption DEF Init, CapInv, CapIsKept, AdmittedFit
<1>2. CapInv => CapIsKept
  BY DEF CapInv
<1> QED
  BY <1>1, <1>2, CapIsInvariant, QueueInvHolds, PTL DEF Spec
------------------------------------------------------------------------------
(* Whatever a takeover does                                                *)

(* A lock file is that of a process in the block or of a dead one.         *)
LocksHaveOwners ==
    lock # NoLock => \/ pc[lock.owner] \in Critical /\ ~lock.stale
                     \/ pc[lock.owner] = "dead"

(* _queue_lock leaves no lock behind: one that is there is that of a       *)
(* process still in the block, and not stale, or of one that died there,   *)
(* whoever has taken over whose lock before.  So a process that waits for  *)
(* the lock waits for one that goes on or for a lock that gets stale.      *)
THEOREM NoLockIsLeftBehind == Spec => []LocksHaveOwners
<1>1. Init => TypeInv /\ LocksHaveOwners
  BY QueueAssumption DEF Init, TypeInv, TypeOK, Called, Working, Places, LocksHaveOwners
<1>2. TypeInv /\ LocksHaveOwners /\ [Next]_vars => (TypeInv /\ LocksHaveOwners)'
  <2> SUFFICES ASSUME TypeInv, LocksHaveOwners, [Next]_vars
               PROVE  LocksHaveOwners'
    BY TypesAreInvariant
  <2>0. /\ pc \in [Clients -> Places]
        /\ lock \in [owner: Clients, stale: BOOLEAN] \cup {NoLock}
    BY DEF TypeInv, TypeOK
  <2> USE DEF LocksHaveOwners, GoTo
  <2>1. ASSUME NEW c \in Clients, NEW r \in Holds \cup Resolves, Hold(c, r) \/ Resolve(c, r)
        PROVE  LocksHaveOwners'
    BY <2>0, <2>1 DEF Hold, Resolve, Refuse, Critical
  <2>2. ASSUME NEW c \in Clients, CreateLock(c) PROVE LocksHaveOwners'
    BY <2>0, <2>2, QueueAssumption DEF CreateLock, Critical
  <2>3. ASSUME NEW c \in Clients, UnlinkStale(c) \/ Unlock(c) PROVE LocksHaveOwners'
    BY <2>3 DEF UnlinkStale, Unlock
  <2>4. ASSUME NEW c \in Clients, FindStale(c) \/ GiveUp(c) PROVE LocksHaveOwners'
    BY <2>0, <2>4 DEF FindStale, GiveUp, Return, Critical
  <2>5. ASSUME NEW c \in Clients, Admit(c) \/ CopyLines(c) \/ ReplaceFile(c) \/ WriteFails(c)
        PROVE  LocksHaveOwners'
    BY <2>0, <2>5 DEF Admit, CopyLines, ReplaceFile, WriteFails, Critical
  <2>6. ASSUME NEW c \in Clients, Die(c) PROVE LocksHaveOwners'
    BY <2>0, <2>6 DEF Die
  <2>7. CASE LockGetsStale
    <3>1. lock' = [lock EXCEPT !.stale = TRUE] /\ lock # NoLock /\ pc' = pc /\ pc[lock.owner] = "dead"
      BY <2>7 DEF LockGetsStale
    <3>2. lock'.owner = lock.owner
      BY <2>0, <3>1
    <3> QED
      BY <3>1, <3>2
  <2>8. CASE UNCHANGED vars
    BY <2>8 DEF vars
  <2> QED
    BY <2>1, <2>2, <2>3, <2>4, <2>5, <2>6, <2>7, <2>8 DEF Next, Serve
<1> QED
  BY <1>1, <1>2, PTL DEF Spec

(* No two lines are of one call.                                           *)
Once(s) == \A i, j \in 1..Len(s): s[i].by = s[j].by => i = j
CallsAreRecordedOnce == Once(file)

(* The last call of a process that may have its line in the file: not the  *)
(* one it is in before it has replaced the file.                           *)
Unwritten == {"locking", "taking", "locked", "admitted", "copied"}
LastWritten(c) == IF pc[c] \in Unwritten THEN calls[c] - 1 ELSE calls[c]
Within(s, c, n) == \A i \in 1..Len(s): s[i].by[1] = c => s[i].by[2] <= n
LinesAreOfCalls ==
    /\ Once(file)
    /\ \A c \in Clients: Within(file, c, LastWritten(c))
    /\ \A d \in Clients: pc[d] = "copied" =>
          /\ Once(copy[d]) /\ Within(copy[d], d, calls[d])
          /\ \A c \in Clients \ {d}: Within(copy[d], c, LastWritten(c))

(* A step that writes nothing only raises what may be in the file.         *)
LEMMA MoreMayBeWritten ==
    ASSUME TypeInv, LinesAreOfCalls, TypeInv', file' = file,
           \A d \in Clients: pc'[d] = "copied" => pc[d] = "copied" /\ copy'[d] = copy[d],
           \A d \in Clients: LastWritten(d) <= LastWritten(d)' /\ calls[d] <= calls'[d]
    PROVE  LinesAreOfCalls'
<1>1. /\ \A d \in Clients: calls[d] \in Int /\ calls'[d] \in Int
      /\ \A d \in Clients: LastWritten(d) \in Int /\ LastWritten(d)' \in Int
  <2>1. \A d \in Clients: calls[d] \in Int /\ calls'[d] \in Int
    BY QueueAssumption DEF TypeInv, TypeOK
  <2> QED
    BY <2>1 DEF LastWritten
<1>2. file \in Seq(Records) /\ copy \in [Clients -> Seq(Records)]
  BY DEF TypeInv, TypeOK
<1>3. ASSUME NEW s \in Seq(Records), NEW c, NEW m \in Int, NEW n \in Int, m <= n, Within(s, c, m)
      PROVE  Within(s, c, n)
  <2> SUFFICES ASSUME NEW i \in 1..Len(s), s[i].by[1] = c PROVE s[i].by[2] <= n
    BY DEF Within
  <2>1. s[i] \in Records
    OBVIOUS
  <2>2. s[i].by[2] \in Int /\ s[i].by[2] <= m
    BY <1>3, <2>1 DEF Records, Entries, Resolutions, Within
  <2> QED
    BY <1>3, <2>2
<1>4. \A c \in Clients: Within(file, c, LastWritten(c)')
  BY <1>1, <1>2, <1>3 DEF LinesAreOfCalls
<1>5. ASSUME NEW d \in Clients, pc'[d] = "copied"
      PROVE  /\ Once(copy'[d]) /\ Within(copy'[d], d, calls'[d])
             /\ \A c \in Clients \ {d}: Within(copy'[d], c, LastWritten(c)')
  <2>1. copy'[d] = copy[d] /\ copy[d] \in Seq(Records)
    BY <1>2, <1>5
  <2>2. /\ Once(copy[d]) /\ Within(copy[d], d, calls[d])
        /\ \A c \in Clients \ {d}: Within(copy[d], c, LastWritten(c))
    BY <1>5 DEF LinesAreOfCalls
  <2>3. Within(copy[d], d, calls'[d])
    BY <1>1, <1>3, <2>1, <2>2
  <2>4. \A c \in Clients \ {d}: Within(copy[d], c, LastWritten(c)')
    BY <1>1, <1>3, <2>1, <2>2
  <2> QED
    BY <2>1, <2>2, <2>3, <2>4
<1>6. Once(file')
  BY DEF LinesAreOfCalls
<1> QED
  BY <1>4, <1>5, <1>6 DEF LinesAreOfCalls

LEMMA CopyingAddsTheLine ==
    ASSUME TypeInv, LinesAreOfCalls, TypeInv', NEW c \in Clients, CopyLines(c)
    PROVE  LinesAreOfCalls'
<1> DEFINE r == RecordOf(c)
           n == Len(file) + 1
           t == Append(file, r)
<1>1. /\ pc[c] = "admitted" /\ calls[c] \in 1..MaxCalls /\ call[c] \in Calls
      /\ file \in Seq(Records) /\ pc \in [Clients -> Places]
      /\ calls \in [Clients -> 0..MaxCalls]
      /\ copy' = [copy EXCEPT ![c] = t] /\ copy \in [Clients -> Seq(Records)]
  BY DEF CopyLines, TypeInv, TypeOK, Called, Working
<1>2. r \in Records /\ r.by = <<c, calls[c]>>
  <2>1. r.by = <<c, calls[c]>>
    BY DEF RecordOf
  <2> QED
    BY <1>1, <2>1, RecordIsTyped
<1> HIDE DEF r
<1>3. /\ t[n] = r /\ \A i \in 1..Len(file): t[i] = file[i]
      /\ Len(t) = n /\ Len(file) \in Nat
  BY <1>1, <1>2
<1> HIDE DEF t
<1>4. /\ pc' = [pc EXCEPT ![c] = "copied"] /\ file' = file /\ calls' = calls
  BY DEF CopyLines, GoTo
<1>5. \A d \in Clients: LastWritten(d)' = LastWritten(d)
  BY <1>1, <1>4 DEF LastWritten, Unwritten
<1>6. \A i \in 1..Len(file): file[i].by # <<c, calls[c]>> /\ (file[i].by[1] = c => file[i].by[2] <= calls[c])
  <2> SUFFICES ASSUME NEW i \in 1..Len(file), file[i].by[1] = c
               PROVE  file[i].by[2] <= calls[c] - 1 /\ file[i].by[2] \in Int /\ calls[c] \in Int
    BY <1>1
  <2>1. LastWritten(c) = calls[c] - 1
    BY <1>1 DEF LastWritten, Unwritten
  <2>2. file[i] \in Records
    BY <1>1
  <2> QED
    BY <1>1, <2>1, <2>2 DEF LinesAreOfCalls, Within, Records, Entries, Resolutions
<1>7. Once(t)
  <2> SUFFICES ASSUME NEW i \in 1..Len(t), NEW j \in 1..Len(t), t[i].by = t[j].by PROVE i = j
    BY DEF Once
  <2>1. (i \in 1..Len(file) \/ i = n) /\ (j \in 1..Len(file) \/ j = n)
    BY <1>3
  <2> QED
    BY <1>2, <1>3, <1>6, <2>1 DEF LinesAreOfCalls, Once
<1>8. Within(t, c, calls[c])
  <2> SUFFICES ASSUME NEW i \in 1..Len(t), t[i].by[1] = c PROVE t[i].by[2] <= calls[c]
    BY DEF Within
  <2>1. i \in 1..Len(file) \/ i = n
    BY <1>3
  <2>2. CASE i = n
    <3>1. t[i].by[2] = calls[c] /\ calls[c] \in Int
      BY <1>1, <1>2, <1>3, <2>2
    <3> QED
      BY <3>1
  <2>3. CASE i \in 1..Len(file)
    <3>1. t[i] = file[i]
      BY <1>3, <2>3
    <3> QED
      BY <1>6, <2>3, <3>1
  <2> QED
    BY <2>1, <2>2, <2>3
<1>9. \A d \in Clients \ {c}: Within(t, d, LastWritten(d))
  <2> SUFFICES ASSUME NEW d \in Clients \ {c}, NEW i \in 1..Len(t), t[i].by[1] = d
               PROVE  t[i].by[2] <= LastWritten(d)
    BY DEF Within
  <2>1. i # n
    BY <1>2, <1>3
  <2>2. i \in 1..Len(file)
    BY <1>3, <2>1
  <2> QED
    BY <1>3, <2>2 DEF LinesAreOfCalls, Within
<1>10. copy'[c] = t /\ \A d \in Clients \ {c}: copy'[d] = copy[d] /\ pc'[d] = pc[d]
  BY <1>1, <1>4
<1>11. ASSUME NEW d \in Clients, pc'[d] = "copied"
       PROVE  /\ Once(copy'[d]) /\ Within(copy'[d], d, calls'[d])
              /\ \A e \in Clients \ {d}: Within(copy'[d], e, LastWritten(e)')
  <2>1. CASE d = c
    BY <1>4, <1>5, <1>7, <1>8, <1>9, <1>10, <2>1
  <2>2. CASE d # c
    BY <1>4, <1>5, <1>10, <1>11, <2>2 DEF LinesAreOfCalls
  <2> QED
    BY <2>1, <2>2
<1>12. Once(file') /\ \A d \in Clients: Within(file', d, LastWritten(d)')
  BY <1>4, <1>5 DEF LinesAreOfCalls
<1> QED
  BY <1>11, <1>12 DEF LinesAreOfCalls

LEMMA ReplacingWritesTheCall ==
    ASSUME TypeInv, LinesAreOfCalls, TypeInv', NEW c \in Clients, ReplaceFile(c)
    PROVE  LinesAreOfCalls'
<1>1. /\ pc[c] = "copied" /\ file' = copy[c] /\ calls' = calls
      /\ pc' = [pc EXCEPT ![c] = "unlocking"] /\ copy' = [copy EXCEPT ![c] = <<>>]
      /\ pc \in [Clients -> Places] /\ copy \in [Clients -> Seq(Records)]
      /\ calls \in [Clients -> 0..MaxCalls]
  BY DEF ReplaceFile, GoTo, TypeInv, TypeOK
<1>2. /\ LastWritten(c)' = calls[c]
      /\ \A d \in Clients \ {c}: LastWritten(d)' = LastWritten(d) /\ pc'[d] = pc[d] /\ copy'[d] = copy[d]
  BY <1>1 DEF LastWritten, Unwritten
<1>3. /\ Once(copy[c]) /\ Within(copy[c], c, calls[c])
      /\ \A d \in Clients \ {c}: Within(copy[c], d, LastWritten(d))
  BY <1>1 DEF LinesAreOfCalls
<1>4. Once(file') /\ \A d \in Clients: Within(file', d, LastWritten(d)')
  BY <1>1, <1>2, <1>3
<1>5. ASSUME NEW d \in Clients, pc'[d] = "copied"
      PROVE  /\ Once(copy'[d]) /\ Within(copy'[d], d, calls'[d])
             /\ \A e \in Clients \ {d}: Within(copy'[d], e, LastWritten(e)')
  <2>1. d # c /\ pc[d] = "copied" /\ copy'[d] = copy[d]
    BY <1>1, <1>2, <1>5
  <2>2. /\ Once(copy[d]) /\ Within(copy[d], d, calls[d])
        /\ \A e \in Clients \ {d}: Within(copy[d], e, LastWritten(e))
    BY <2>1 DEF LinesAreOfCalls
  <2>3. Within(copy[d], c, LastWritten(c)')
    <3> SUFFICES ASSUME NEW i \in 1..Len(copy[d]), copy[d][i].by[1] = c
                 PROVE  copy[d][i].by[2] <= calls[c]
      BY <1>2 DEF Within
    <3>1. copy[d] \in Seq(Records) /\ copy[d][i] \in Records
      BY <1>1
    <3>2. copy[d][i].by[2] \in Int
      BY <3>1 DEF Records, Entries, Resolutions
    <3>3. LastWritten(c) = calls[c] - 1 /\ calls[c] \in Int
      BY <1>1, QueueAssumption DEF LastWritten, Unwritten
    <3>4. copy[d][i].by[2] <= calls[c] - 1
      BY <2>1, <2>2, <3>3 DEF Within
    <3> QED
      BY <3>2, <3>3, <3>4
  <2>4. \A e \in Clients \ {d}: Within(copy[d], e, LastWritten(e)')
    BY <1>2, <2>2, <2>3
  <2> QED
    BY <1>1, <2>1, <2>2, <2>4
<1> QED
  BY <1>4, <1>5 DEF LinesAreOfCalls

LEMMA LinesStayOfCalls == TypeInv /\ LinesAreOfCalls /\ [Next]_vars => LinesAreOfCalls'
<1> SUFFICES ASSUME TypeInv, LinesAreOfCalls, [Next]_vars PROVE LinesAreOfCalls'
  OBVIOUS
<1>0. TypeInv'
  BY TypesAreInvariant
<1>1. /\ pc \in [Clients -> Places] /\ calls \in [Clients -> 0..MaxCalls]
      /\ copy \in [Clients -> Seq(Records)] /\ MaxCalls \in Nat
  BY QueueAssumption DEF TypeInv, TypeOK
<1> DEFINE Kept == /\ file' = file
                   /\ \A d \in Clients: pc'[d] = "copied" => pc[d] = "copied" /\ copy'[d] = copy[d]
                   /\ \A d \in Clients: LastWritten(d) <= LastWritten(d)' /\ calls[d] <= calls'[d]
<1>2. ASSUME NEW c \in Clients, NEW r \in Holds \cup Resolves, Hold(c, r) \/ Resolve(c, r)
      PROVE  Kept
  <2>1. /\ pc[c] = "idle" /\ calls' = [calls EXCEPT ![c] = @ + 1]
        /\ pc' = pc \/ pc' = [pc EXCEPT ![c] = "locking"]
        /\ file' = file /\ copy' = copy
    BY <1>2 DEF Hold, Resolve, Refuse, GoTo
  <2> QED
    BY <1>1, <2>1 DEF LastWritten, Unwritten
<1>3. ASSUME NEW c \in Clients,
             CreateLock(c) \/ FindStale(c) \/ UnlinkStale(c) \/ GiveUp(c) \/ Admit(c) \/ Unlock(c)
      PROVE  Kept
  <2>1. /\ file' = file /\ copy' = copy /\ calls' = calls
        /\ \E place \in {"idle", "locking", "taking", "locked", "admitted", "unlocking"}:
              pc' = [pc EXCEPT ![c] = place] /\ (pc[c] \in Unwritten \/ place \notin Unwritten)
    BY <1>3 DEF CreateLock, FindStale, UnlinkStale, GiveUp, Admit, Unlock, Return, GoTo, Unwritten
  <2> QED
    BY <1>1, <2>1 DEF LastWritten, Unwritten
<1>4. ASSUME NEW c \in Clients, WriteFails(c) \/ Die(c)
      PROVE  Kept
  <2>1. /\ file' = file /\ calls' = calls /\ copy' = [copy EXCEPT ![c] = <<>>]
        /\ \E place \in {"unlocking", "dead"}: pc' = [pc EXCEPT ![c] = place]
    BY <1>4 DEF WriteFails, Die, GoTo
  <2> QED
    BY <1>1, <2>1 DEF LastWritten, Unwritten
<1>5. ASSUME LockGetsStale \/ UNCHANGED vars
      PROVE  Kept
  <2>1. pc' = pc /\ calls' = calls /\ copy' = copy /\ file' = file
    BY <1>5 DEF LockGetsStale, vars
  <2>2. ASSUME NEW d \in Clients
        PROVE  LastWritten(d) <= LastWritten(d)' /\ calls[d] <= calls'[d]
    <3>1. calls[d] \in Int
      BY <1>1
    <3>2. LastWritten(d) \in Int
      BY <3>1 DEF LastWritten
    <3>3. LastWritten(d)' = LastWritten(d)
      BY <2>1 DEF LastWritten
    <3> QED
      BY <2>1, <3>1, <3>2, <3>3
  <2> QED
    BY <2>1, <2>2
<1>6. Kept => LinesAreOfCalls'
  BY <1>0, MoreMayBeWritten
<1> HIDE DEF Kept
<1> QED
  BY <1>0, <1>2, <1>3, <1>4, <1>5, <1>6, CopyingAddsTheLine, ReplacingWritesTheCall DEF Next, Serve

(* A call puts at most one line into the queue, and the file never holds   *)
(* the line of one call twice: also when a lock is taken over from a       *)
(* process that still works, or unlinked under it, and two processes       *)
(* replace the file with copies of different age (_write_record), a        *)
(* takeover may lose a line but never doubles one.                         *)
THEOREM EachCallIsRecordedOnce == Spec => []CallsAreRecordedOnce
<1>1. Init => TypeInv /\ LinesAreOfCalls
  BY QueueAssumption DEF Init, TypeInv, TypeOK, Called, Working, Places, LinesAreOfCalls, Once, Within
<1>2. TypeInv /\ LinesAreOfCalls /\ [Next]_vars => (TypeInv /\ LinesAreOfCalls)'
  BY TypesAreInvariant, LinesStayOfCalls
<1>3. LinesAreOfCalls => CallsAreRecordedOnce
  BY DEF LinesAreOfCalls, CallsAreRecordedOnce
<1> QED
  BY <1>1, <1>2, <1>3, PTL DEF Spec
=============================================================================
