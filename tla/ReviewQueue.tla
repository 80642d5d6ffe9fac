---------------------------- MODULE ReviewQueue ----------------------------
(***************************************************************************)
(* The review queue of the skills (_mimisbrunnr-shared/scripts/            *)
(* review_queue.py): a JSON-lines file in which held candidates and their  *)
(* resolutions are appended, shared by the processes of one user.          *)
(*                                                                         *)
(* An append copies the whole file, adds a line and replaces the file, so  *)
(* it runs under a lock file that is created exclusively and unlinked      *)
(* afterwards.  A process may die anywhere; the lock it leaves is removed  *)
(* by whoever finds it older than LOCK_STALE_SECONDS.                      *)
(*                                                                         *)
(* Processes live shorter than that age unless they die, as the comment    *)
(* on the two bounds says: only the lock of a dead process gets stale.     *)
(***************************************************************************)
EXTENDS Naturals, Sequences, FiniteSets

CONSTANTS
    Clients,    \* the processes that use the queue
    Mortals,    \* those of them that may die in the middle of a call
    Ids,        \* the ids of candidates, as entry_id derives them
    Types,      \* the conflict types
    Menu,       \* the choices of each conflict type, conflict_menus.json
    Cap,        \* entry_cap(): the most unresolved entries
    MaxCalls,   \* bound: calls of one process
    NoLock,     \* the lock file does not exist
    NoCall      \* a process that is not called

ASSUME QueueAssumption ==
    /\ Mortals \subseteq Clients
    /\ DOMAIN Menu = Types
    /\ Cap \in Nat \ {0}
    /\ MaxCalls \in Nat
    /\ NoLock \notin [owner: Clients, stale: BOOLEAN]

Choices == UNION {Menu[t] : t \in Types}

Holds == [op: {"hold"}, id: Ids, type: Types]
Resolves == [op: {"resolve"}, id: Ids, choice: Choices]
Calls == Holds \cup Resolves

\* One line of the file.  `by` names the call that wrote it and is not stored.
Entries == [kind: {"entry"}, id: Ids, type: Types, by: Clients \X (1..MaxCalls)]
Resolutions == [kind: {"resolution"}, id: Ids, choice: Choices, by: Clients \X (1..MaxCalls)]
Records == Entries \cup Resolutions

VARIABLES
    file,       \* the lines of the queue
    lock,       \* NoLock, or who created the lock file and whether it is stale by now
    pc,         \* where each process is
    call,       \* what it was called for
    calls,      \* how often it was called
    copy        \* the temporary file it has written

vars == <<file, lock, pc, call, calls, copy>>

------------------------------------------------------------------------------
(* Reading the queue *)

\* A resolution closes the hold it follows: the last entry of its id before it.
ClosedBy(s, i, j) ==
    /\ j > i /\ s[j].kind = "resolution" /\ s[j].id = s[i].id
    /\ \A k \in (i + 1)..(j - 1): ~(s[k].kind = "entry" /\ s[k].id = s[i].id)

EntriesOf(s) == {i \in 1..Len(s) : s[i].kind = "entry"}

OpenEntries(s) == {i \in EntriesOf(s) : \A j \in 1..Len(s): ~ClosedBy(s, i, j)}

EntryCount(s) == Cardinality(OpenEntries(s))

\* The live hold of an id: the last entry that carries it.
FoundAt(s, id) ==
    {i \in EntriesOf(s) : s[i].id = id /\ \A k \in EntriesOf(s): s[k].id = id => k <= i}

------------------------------------------------------------------------------
Init ==
    /\ file = <<>>
    /\ lock = NoLock
    /\ pc = [c \in Clients |-> "idle"]
    /\ call = [c \in Clients |-> NoCall]
    /\ calls = [c \in Clients |-> 0]
    /\ copy = [c \in Clients |-> <<>>]

GoTo(c, place) == pc' = [pc EXCEPT ![c] = place]

Return(c) == GoTo(c, "idle") /\ call' = [call EXCEPT ![c] = NoCall]

\* The redactor does not run, or does not answer for every text: nothing has happened.
Refuse == UNCHANGED <<call, pc>>

\* The menu is loaded and the candidate redacted before the queue is locked.
Hold(c, r) ==
    /\ pc[c] = "idle" /\ calls[c] < MaxCalls
    /\ calls' = [calls EXCEPT ![c] = @ + 1]
    /\ \/ /\ call' = [call EXCEPT ![c] = r]
          /\ GoTo(c, "locking")
       \/ Refuse
    /\ UNCHANGED <<file, lock, copy>>

\* A resolution looks for the entry, and judges the choice by its menu, before it locks.
Resolve(c, r) ==
    /\ pc[c] = "idle" /\ calls[c] < MaxCalls
    /\ calls' = [calls EXCEPT ![c] = @ + 1]
    /\ \/ /\ \E i \in FoundAt(file, r.id): r.choice \in Menu[file[i].type]
          /\ call' = [call EXCEPT ![c] = r]
          /\ GoTo(c, "locking")
       \/ Refuse
    /\ UNCHANGED <<file, lock, copy>>

CreateLock(c) ==
    /\ pc[c] = "locking" /\ lock = NoLock
    /\ lock' = [owner |-> c, stale |-> FALSE]
    /\ GoTo(c, "locked")
    /\ UNCHANGED <<file, call, calls, copy>>

\* A mutant: a lock is taken over whatever its age.
FindAnyLock(c) ==
    /\ pc[c] = "locking" /\ lock # NoLock
    /\ GoTo(c, "taking")
    /\ UNCHANGED <<file, lock, call, calls, copy>>

\* The age of the lock is read here, and the file with its name is unlinked in the next step.
FindStale(c) ==
    /\ pc[c] = "locking" /\ lock # NoLock /\ lock.stale
    /\ GoTo(c, "taking")
    /\ UNCHANGED <<file, lock, call, calls, copy>>

\* A mutant: the stale lock is only looked at again.
LeaveStale(c) ==
    /\ pc[c] = "taking"
    /\ GoTo(c, "locking")
    /\ UNCHANGED <<file, lock, call, calls, copy>>

\* FileNotFoundError is no error here: the other process was faster.
UnlinkStale(c) ==
    /\ pc[c] = "taking"
    /\ lock' = NoLock
    /\ GoTo(c, "locking")
    /\ UNCHANGED <<file, call, calls, copy>>

\* queue-busy: the deadline has passed with the lock still held.
GiveUp(c) ==
    /\ pc[c] = "locking" /\ lock # NoLock /\ ~lock.stale
    /\ Return(c)
    /\ UNCHANGED <<file, lock, calls, copy>>

\* A mutant: the entry to come is not counted.
AdmitOneMore(c) ==
    /\ pc[c] = "locked"
    /\ \/ /\ call[c].op = "resolve" \/ EntryCount(file) <= Cap
          /\ GoTo(c, "admitted")
       \/ /\ call[c].op = "hold" /\ EntryCount(file) > Cap
          /\ GoTo(c, "unlocking")
    /\ UNCHANGED <<file, lock, call, calls, copy>>

\* Only a hold is counted against the cap.
Admit(c) ==
    /\ pc[c] = "locked"
    /\ \/ /\ call[c].op = "resolve" \/ EntryCount(file) + 1 <= Cap
          /\ GoTo(c, "admitted")
       \/ /\ call[c].op = "hold" /\ EntryCount(file) + 1 > Cap
          /\ GoTo(c, "unlocking")
    /\ UNCHANGED <<file, lock, call, calls, copy>>

\* A mutant: a resolution is written as the entry it resolves.
RecordWithType(c) ==
    [kind |-> "entry", id |-> call[c].id, by |-> <<c, calls[c]>>,
     type |-> IF call[c].op = "hold" THEN call[c].type ELSE call[c].choice]

\* The line a call adds.
RecordOf(c) ==
    LET by == <<c, calls[c]>> r == call[c]
    IN  IF r.op = "hold"
        THEN [kind |-> "entry", id |-> r.id, type |-> r.type, by |-> by]
        ELSE [kind |-> "resolution", id |-> r.id, choice |-> r.choice, by |-> by]

\* _write_record: the lines are copied to a temporary file, which then replaces the queue.
CopyLines(c) ==
    /\ pc[c] = "admitted"
    /\ copy' = [copy EXCEPT ![c] = Append(file, RecordOf(c))]
    /\ GoTo(c, "copied")
    /\ UNCHANGED <<file, lock, call, calls>>

ReplaceFile(c) ==
    /\ pc[c] = "copied"
    /\ file' = copy[c]
    /\ copy' = [copy EXCEPT ![c] = <<>>]
    /\ GoTo(c, "unlocking")
    /\ UNCHANGED <<lock, call, calls>>

\* An OSError on the way removes the temporary file and lets go of the lock.
WriteFails(c) ==
    /\ pc[c] \in {"admitted", "copied"}
    /\ copy' = [copy EXCEPT ![c] = <<>>]
    /\ GoTo(c, "unlocking")
    /\ UNCHANGED <<file, lock, call, calls>>

\* Whoever leaves the block unlinks the lock file, whatever process made the one that is there.
Unlock(c) ==
    /\ pc[c] = "unlocking"
    /\ lock' = NoLock
    /\ Return(c)
    /\ UNCHANGED <<file, calls, copy>>

------------------------------------------------------------------------------
(* The world: a process is killed, and a lock nobody will unlink grows old *)

Die(c) ==
    /\ c \in Mortals /\ pc[c] \notin {"idle", "dead"}
    /\ GoTo(c, "dead")
    /\ copy' = [copy EXCEPT ![c] = <<>>]
    /\ call' = [call EXCEPT ![c] = NoCall]
    /\ UNCHANGED <<file, lock, calls>>

LockGetsStale ==
    /\ lock # NoLock /\ ~lock.stale /\ pc[lock.owner] = "dead"
    /\ lock' = [lock EXCEPT !.stale = TRUE]
    /\ UNCHANGED <<file, pc, call, calls, copy>>

------------------------------------------------------------------------------
Serve(c) ==
    \/ CreateLock(c) \/ FindStale(c) \/ UnlinkStale(c) \/ GiveUp(c)
    \/ Admit(c) \/ CopyLines(c) \/ ReplaceFile(c) \/ Unlock(c)

Next ==
    \/ \E c \in Clients:
        \/ \E r \in Holds: Hold(c, r)
        \/ \E r \in Resolves: Resolve(c, r)
        \/ Serve(c)
        \/ WriteFails(c)
        \/ Die(c)
    \/ LockGetsStale

Spec == Init /\ [][Next]_vars

\* A process that lives goes on; time passes for the lock of a dead one.
FairSpec == Spec /\ (\A c \in Clients: WF_vars(Serve(c))) /\ WF_vars(LockGetsStale)

------------------------------------------------------------------------------
(* Properties *)

Places == {"idle", "locking", "taking", "locked", "admitted", "copied", "unlocking", "dead"}

\* Types of the file, the lock and the calls.
TypeOK ==
    /\ file \in Seq(Records)
    /\ lock \in [owner: Clients, stale: BOOLEAN] \cup {NoLock}
    /\ pc \in [Clients -> Places]
    /\ call \in [Clients -> Calls \cup {NoCall}]
    /\ calls \in [Clients -> 0..MaxCalls]
    /\ copy \in [Clients -> Seq(Records)]

\* Nothing is deleted: a replacement of the file keeps every line, in its place, and adds one.
\* A writer that copied the lines before another one replaced them would drop a held candidate
\* whose id was already reported (_write_record, append, cmd_resolve).
QueueIsAppendOnly ==
    [][/\ Len(file') = Len(file) + 1
       /\ \A i \in 1..Len(file): file'[i] = file[i]]_file

\* The queue never holds more unresolved entries than the cap, although it is counted in one
\* step and written in a later one (append, entry_count).
CapIsKept == EntryCount(file) <= Cap

\* Every call ends, that of a process which finds a dead one's lock too: somebody takes over the
\* lock, or the deadline passes (_queue_lock).
CallsEnd == \A c \in Clients: pc[c] # "idle" ~> pc[c] \in {"idle", "dead"}
=============================================================================
