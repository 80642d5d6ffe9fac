--------------------------- MODULE SessionExport ---------------------------
(***************************************************************************)
(* The processes of a session around the store: recalls that mark what was *)
(* imported, dumps, the odin client's set and the kvasir client's export   *)
(* with its gates, its batches, its proposals and its receipts.            *)
(*                                                                         *)
(* Processes share the store, the two markers of their session, the        *)
(* attempt ledger, the review queue and the dumps.  The store is external: *)
(* one group of it, whose memories are sequences of versions.              *)
(***************************************************************************)
EXTENDS KvasirExport

CONSTANTS
    Procs,
    Chain,          \* process -> the session variables of the harnesses, in order
    Requests,       \* what a call may be given: [opts, env, settings, flags, source],
                    \* opts [dry, all, nomarker], env the environment of the odin
                    \* client, settings of the gate, flags a binding, source the
                    \* records of an input, or None
    Worth,          \* body -> what the model answers for each role
    Oversize,       \* the bodies too large to ask the model about
    Checkout,       \* what the scan of the checkout reports
    Initiatives,    \* the initiatives the store has
    Group,          \* the group tickets resolve to: [created, initiative]
    Folder,         \* the folder a dump is written to
    OldDumps, OldMarkers, OldLedgers, OldStore,
    MaxCalls        \* bound: calls of all processes

VARIABLES
    store,      \* id -> its versions
    minted,     \* how many ids clients made up
    markers,    \* <<skill, session>> -> marker
    ledger, queue, dumps,
    pc, call, calls,
    copy,       \* the marker a process is about to replace the file with, if any
    draft       \* the ledger a process is writing to the temporary file, if any

vars == <<store, minted, markers, ledger, queue, dumps, pc, call, calls, copy, draft>>

Session(p) == ResolveSession(NoSession, Chain[p])
Scrubs == {Redacted[b] : b \in DOMAIN Redacted}
Settings == {r.settings : r \in Requests}
MostAttempts == Max({s.attempts : s \in Settings})

IsSequence(s) == s \in Seq(ToSet(s))
(* What a receipt says is true of a store: see ReceiptsNameWhatIsStored.   *)
IsTrueOf(entry, st) ==
  \A i \in entry.items :
    /\ i.id # None
    /\ entry.verb = "export" =>
         i.id \in DOMAIN st /\ \E n \in DOMAIN st[i.id] : st[i.id][n].subject = i.subject
AreTrueOf(marker, st) ==
  /\ IsSequence(Entries(marker))
  /\ \A e \in ToSet(Entries(marker)) : IsTrueOf(e, st)

(* What a call may be given, and what the store and the files of a session *)
(* hold that earlier calls have left: text the redactor has seen, attempts *)
(* within the settings, receipts that are true.                            *)
ASSUME SessionAssumption ==
  /\ None \notin Nat /\ MaxBatch \in Nat /\ Scrubs \subseteq DOMAIN Redacted
  /\ Requests # {} /\ IsFiniteSet(Requests)
  /\ \A r \in Requests :
       /\ r.settings.attempts \in Nat
       /\ r.source # None =>
            /\ IsSequence(r.source)
            /\ \A c \in ToSet(r.source) : "body" \in DOMAIN c /\ c.body \in DOMAIN Redacted
  /\ IsSequence(OldStore)
  /\ \A id \in DOMAIN OldStore :
       /\ IsSequence(OldStore[id]) /\ OldStore[id] # << >>
       /\ \A v \in ToSet(OldStore[id]) : v.body \in Scrubs /\ v.status \in {"approved", "proposed"}
  /\ \A m \in OldMarkers :
       /\ \A p \in Procs : Session(p) # NoSession => {"odin", "kvasir"} \X {Session(p)} \subseteq DOMAIN m
       /\ \A key \in DOMAIN m : AreTrueOf(m[key], OldStore)
  /\ \A l \in OldLedgers : IsLedger(l) => \A k \in DOMAIN l : l[k].attempts \in 0..MostAttempts
  /\ IsSequence(OldDumps)
  /\ \A d \in ToSet(OldDumps) :
       /\ IsSequence(d.records)
       /\ \A c \in ToSet(d.records) : "body" \in DOMAIN c /\ c.body \in Scrubs \cup {None}

MarkerOf(skill, p) == IF Session(p) = NoSession THEN None ELSE markers[<<skill, Session(p)>>]

-----------------------------------------------------------------------------
(* The store, as far as the clients use it: a memory keeps the subject it  *)
(* was created with as its key in the group.                               *)
Current(st, id) == Last(st[id])
Holders(st, subject) == {id \in DOMAIN st : Head(st[id]).subject = subject}
HeldFor(st, candidates) == [s \in {c.subject : c \in ToSet(candidates)} |-> Holders(st, s)]
Target(item) == IF item.uuid # None THEN item.uuid ELSE item.create
Version(item) == [subject |-> item.subject, body |-> item.body, status |-> item.status]
Put(st, item) ==
  LET id == Target(item)
      old == IF id \in DOMAIN st THEN st[id] ELSE << >>
      new == IF old # << >> /\ Last(old) = Version(item) THEN old ELSE Append(old, Version(item))
  IN  [i \in DOMAIN st \cup {id} |-> IF i = id THEN new ELSE st[i]]
PutAll(st, items) ==
  LET after[n \in 0..Len(items)] == IF n = 0 THEN st ELSE Put(after[n - 1], items[n])
  IN  after[Len(items)]
(* A version of a memory the group has not, a create of a subject it has,  *)
(* two creates of one subject.                                             *)
StoreRefuses(st, items) ==
  \E n \in DOMAIN items :
    IF items[n].uuid # None THEN items[n].uuid \notin DOMAIN st
    ELSE \/ Holders(st, items[n].subject) # {}
         \/ \E m \in 1..(n - 1) : items[m].uuid = None /\ items[m].subject = items[n].subject

-----------------------------------------------------------------------------
NoCall == [op |-> "none"]
NoDraft == [file |-> NoLedger, hold |-> "none"]
Init ==
  /\ store = OldStore
  /\ minted = Cardinality(DOMAIN OldStore)
  /\ markers \in OldMarkers
  /\ ledger \in OldLedgers
  /\ queue = {}
  /\ dumps = OldDumps
  /\ pc = [p \in Procs |-> "idle"]
  /\ call = [p \in Procs |-> NoCall]
  /\ calls = 0
  /\ copy = [p \in Procs |-> << >>]
  /\ draft = [p \in Procs |-> NoDraft]

Begin(p) == pc[p] = "idle" /\ calls < MaxCalls /\ calls' = calls + 1
GoTo(p, place) == pc' = [pc EXCEPT ![p] = place]
Becomes(p, c) == call' = [call EXCEPT ![p] = c]
Return(p) == GoTo(p, "idle") /\ Becomes(p, NoCall)
Refuse(p) == UNCHANGED <<pc, call>>
At(p, place) == pc[p] = place /\ UNCHANGED calls

(* A call: what is still to capture and to propose, what the gate works on,*)
(* the batch in hand and what is sent of it, and the receipts to write;    *)
(* seen are the subjects the proposals have named.                         *)
Called(op, r) ==
  [op |-> op, opts |-> r.opts, env |-> r.env, settings |-> r.settings, binding |-> NoBinding,
   clean |-> << >>, held |-> << >>, gated |-> << >>, judged |-> 0, below |-> {}, attempt |-> 0,
   items |-> << >>, sent |-> << >>, dropped |-> {}, proposing |-> FALSE, seen |-> {},
   receipts |-> << >>]

(* Items of a set the agent wrote itself: an item that came from a memory  *)
(* versions it.                                                            *)
SetItemsOf(records) ==
  LET creates(n) == {m \in 1..n : records[m].origin = None}
  IN  [n \in DOMAIN records |->
         [uuid |-> records[n].origin,
          create |-> IF records[n].origin = None THEN minted + Cardinality(creates(n)) ELSE None,
          subject |-> records[n].subject, body |-> records[n].body, status |-> "approved"]]
Creates(items) == Cardinality({n \in DOMAIN items : items[n].create # None})

Set(p) ==
  /\ Begin(p)
  /\ \E r \in {q \in Requests : q.source # None} :
       LET items == SetItemsOf(r.source)
       IN  /\ Becomes(p, [Called("set", r) EXCEPT !.items = items])
           /\ minted' = minted + Creates(items)
  /\ GoTo(p, "writing")
  /\ UNCHANGED <<store, markers, ledger, queue, dumps, copy, draft>>

(* The receipts of a read, or of a dump, if it has any. *)
Receipt(p, op, r, receipts) ==
  IF receipts = << >> THEN Refuse(p)
  ELSE Becomes(p, [Called(op, r) EXCEPT !.receipts = receipts]) /\ GoTo(p, "marking")

(* query and import: the approved memories that were selected and shown. A *)
(* read that fails marks nothing.                                          *)
Approved == {id \in DOMAIN store : Current(store, id).status = "approved"}
Import(p, skill) ==
  /\ Begin(p)
  /\ \E r \in Requests, shown \in SUBSET Approved, selected \in BOOLEAN :
       LET rows == {[id |-> id, subject |-> Current(store, id).subject] : id \in shown}
       IN  Receipt(p, "import", r,
                   IF skill = "odin" THEN QueryReceipt(rows, selected, r.opts, Session(p))
                   ELSE ImportReceipt("import", rows, {}, selected, r.opts, Session(p)))
  /\ UNCHANGED <<store, minted, markers, ledger, queue, dumps, copy, draft>>

(* load: the records of a file, those with a slug and no id by their slug. *)
Load(p) ==
  /\ Begin(p)
  /\ \E r \in {q \in Requests : q.source # None} :
       LET named == {c \in ToSet(r.source) : c.origin # None}
           units == {c \in ToSet(r.source) \ named : c.slug # None}
       IN  Receipt(p, "load", r,
                   ImportReceipt("load", {[id |-> c.origin, subject |-> c.subject] : c \in named},
                                 {[slug |-> c.slug, subject |-> c.subject] : c \in units},
                                 FALSE, r.opts, Session(p)))
  /\ UNCHANGED <<store, minted, markers, ledger, queue, dumps, copy, draft>>

(* dump: prose with its secrets replaced, and the binding, replace what    *)
(* was dumped to the folder before.                                        *)
Dump(p) ==
  /\ Begin(p)
  /\ \E r \in {q \in Requests : q.source # None} :
       LET prose == [n \in DOMAIN r.source |->
                       [r.source[n] EXCEPT !.origin = None, !.slug = None, !.body = Redacted[@]]]
           dump == [folder |-> Folder, session |-> Session(p), records |-> prose,
                    binding |-> ScrubBinding(Bind(r.flags, NoBinding, Checkout))]
       IN  IF ~r.env.redactor \/ UnsafeTarget(Folder) THEN Refuse(p) /\ UNCHANGED dumps
           ELSE /\ dumps' = Append(Select(dumps, LAMBDA d : d.folder # Folder), dump)
                /\ Receipt(p, "dump", r, DumpReceipt(r.opts, Session(p)))
  /\ UNCHANGED <<store, minted, markers, ledger, queue, copy, draft>>

-----------------------------------------------------------------------------
(* export, up to the atomicity gate: nothing is written before it. *)
Export(p) ==
  /\ Begin(p)
  /\ \E r \in Requests :
       LET default == DefaultInput(dumps, Session(p))
           recorded == IF r.source = None THEN default.binding ELSE NoBinding
           binding == Bind(r.flags, recorded, Checkout)
           marker == MarkerFor(r.opts.all, Session(p), MarkerOf("kvasir", p))
           read == IF r.source = None THEN default.records ELSE r.source
           candidates == ApplyMarkerExclusions(ExportCandidates(read), marker)
           safe == GateRedaction(candidates)
       IN  IF \/ r.source = None /\ InputIsRefused(dumps, Session(p), r.opts.dry)
              \/ marker = Unreadable \/ candidates = << >>
              \/ ScopeIsRefused(candidates, binding) \/ ~r.env.redactor
           THEN Refuse(p)
           ELSE /\ Becomes(p, [Called("export", r) EXCEPT !.binding = binding,
                                                         !.clean = Clean(safe), !.held = Held(safe)])
                /\ GoTo(p, "held")
  /\ UNCHANGED <<store, minted, markers, ledger, queue, dumps, copy, draft>>

(* The held candidates are queued, also by a dry run; an append may fail.  *)
Queued(candidates, by) == {[subject |-> c.subject, body |-> c.body, by |-> by] : c \in candidates}
QueueHeld(p) ==
  /\ At(p, "held")
  /\ \E some \in SUBSET ToSet(call[p].held) : queue' = queue \cup Queued(some, "atomicity")
  /\ GoTo(p, "initiative")
  /\ UNCHANGED <<store, minted, markers, ledger, dumps, call, copy, draft>>

(* The initiative is read; a write without tickets needs it to be there.   *)
CheckInitiative(p) ==
  /\ At(p, "initiative")
  /\ \/ Return(p)
     \/ /\ \/ call[p].opts.dry
           \/ call[p].binding.tickets # {}
           \/ InitiativeIsKnown(call[p].binding, Initiatives)
        /\ GoTo(p, "gate") /\ UNCHANGED call
  /\ UNCHANGED <<store, minted, markers, ledger, queue, dumps, copy, draft>>

-----------------------------------------------------------------------------
(* write_ledger goes through one temporary file, whoever writes.  Who is   *)
(* alone with it owns it; two at once may write to the same file, and what *)
(* one of them moves into place may be what the other is still writing.    *)
Writing == {q \in Procs : draft[q].hold # "none"}
StartWriting(p, file) ==
  draft' = [q \in Procs |->
              IF q = p THEN [file |-> file, hold |-> IF Writing = {} THEN "own" ELSE "shared"]
              ELSE IF draft[q].hold = "own" THEN [draft[q] EXCEPT !.hold = "shared"]
              ELSE draft[q]]
StopWriting(p) == draft' = [draft EXCEPT ![p] = NoDraft]
(* What is left of the ledger by a writer that stops half-way: with its    *)
(* file moved into place, it may have written it whole.                    *)
Left(p) == IF draft[p].hold = "moved" THEN {ledger, draft[p].file} ELSE {ledger}

(* A round starts; an unreadable ledger is moved aside, if it can be. *)
StartScoring(p) ==
  /\ Becomes(p, [call[p] EXCEPT !.gated = call[p].clean])
  /\ IF OpeningChanges(ledger)
     THEN /\ GoTo(p, "opening") /\ StartWriting(p, OpenLedger(ledger, call[p].settings.cap))
          /\ ledger' \in {ledger} \cup (IF ledger = BadLedger THEN {NoLedger} ELSE {})
     ELSE GoTo(p, "scoring") /\ UNCHANGED <<ledger, draft>>
(* A mutant: a dry run scores like a write. *)
ScoreAlways(p) ==
  /\ At(p, "gate")
  /\ LET s == call[p].settings
     IN  IF ~s.enabled THEN GoTo(p, "judged") /\ UNCHANGED <<ledger, call, draft>>
         ELSE IF IsRefused(s) THEN Return(p) /\ UNCHANGED <<ledger, draft>>
         ELSE StartScoring(p)
  /\ UNCHANGED <<store, minted, markers, queue, dumps, copy>>
(* The gate scores on a write only: scoring spends attempts.  A dry run    *)
(* probes; a bad configuration refuses both, a redactor that fails on the  *)
(* records refuses a write.                                                *)
OpenGate(p) ==
  /\ At(p, "gate")
  /\ LET s == call[p].settings
     IN  IF ~s.enabled \/ (call[p].opts.dry /\ ~IsRefused(s))
         THEN GoTo(p, "judged") /\ UNCHANGED <<ledger, call, draft>>
         ELSE \/ Return(p) /\ UNCHANGED <<ledger, draft>>
              \/ ~IsRefused(s) /\ StartScoring(p)
  /\ UNCHANGED <<store, minted, markers, queue, dumps, copy>>

(* The next record: too large to ask about, to be asked about with an      *)
(* attempt spent, or out of attempts.  The ledger is read here.            *)
NextGated(p) == call[p].gated[call[p].judged + 1]
Judge(p, below) ==
  Becomes(p, [call[p] EXCEPT !.judged = @ + 1, !.attempt = 0,
                             !.below = IF below THEN @ \cup {call[p].judged + 1} ELSE @])
SpendNext(p) ==
  /\ At(p, "scoring") /\ call[p].judged < Len(call[p].gated)
  /\ LET c == NextGated(p) s == call[p].settings
     IN  IF c.body \in Oversize THEN UNCHANGED <<pc, draft>> /\ Judge(p, FALSE)
         ELSE IF HasAttempts(ledger, c.subject, s)
         THEN /\ StartWriting(p, SpendAttempt(ledger, c.subject, s))
              /\ Becomes(p, [call[p] EXCEPT !.attempt = NextAttempt(ledger, c.subject)])
              /\ GoTo(p, "spending")
         ELSE /\ Judge(p, FALSE)
              /\ IF IsMigrated(ledger)
                 THEN StartWriting(p, WriteExhausted(ledger, c.subject, s)) /\ GoTo(p, "noting")
                 ELSE UNCHANGED <<pc, draft>>
  /\ UNCHANGED <<store, minted, markers, ledger, queue, dumps, copy>>

(* The model answers, or does not: unreachable, timed out, a bad response. *)
(* An answer is noted in the ledger, which is read again.                  *)
Answer(p) ==
  /\ At(p, "asking")
  /\ LET c == NextGated(p) s == call[p].settings
         scores == [r \in s.roles |-> Worth[c.body][r]]
     IN  \/ Judge(p, FALSE) /\ GoTo(p, "scoring") /\ UNCHANGED draft
         \/ /\ StartWriting(p, RecordAttempt(ledger, c.subject, call[p].attempt, scores, s))
            /\ Judge(p, VerdictHolds(scores, s)) /\ GoTo(p, "noting")
  /\ UNCHANGED <<store, minted, markers, ledger, queue, dumps, copy>>

(* os.replace of the temporary file: it has what was written to it, or, if *)
(* others write at once, what they have written, or a mixture.  Whose file *)
(* was moved with it goes on writing to the ledger itself, and has nothing *)
(* to replace it with but the file of another.                             *)
ReplaceLedger(p) ==
  /\ pc[p] \in {"opening", "spending", "noting"} /\ UNCHANGED calls
  /\ \E moved \in SUBSET {q \in Procs \ {p} : draft[q].hold = "shared"} :
       /\ draft[p].hold = "moved" => moved # {}
       /\ ledger' \in {draft[q].file : q \in moved}
                        \cup (IF draft[p].hold = "moved" THEN {} ELSE {draft[p].file})
                        \cup (IF draft[p].hold = "own" THEN {} ELSE {BadLedger})
       /\ draft' = [q \in Procs |-> IF q = p THEN NoDraft
                                    ELSE IF q \in moved THEN [draft[q] EXCEPT !.hold = "moved"]
                                    ELSE draft[q]]
  /\ GoTo(p, IF pc[p] = "spending" THEN "asking" ELSE "scoring")
  /\ UNCHANGED <<store, minted, markers, queue, dumps, call, copy>>
(* The ledger is torn while one whose file was moved is writing to it. *)
TearLedger(p) ==
  /\ draft[p].hold = "moved" /\ ledger' = BadLedger
  /\ UNCHANGED <<store, minted, markers, queue, dumps, pc, call, calls, copy, draft>>
(* A write that fails stops the gate, but for the first.                   *)
KeepLedger(p) ==
  /\ At(p, "opening") /\ GoTo(p, "scoring")
  /\ ledger' \in Left(p) /\ StopWriting(p)
  /\ UNCHANGED <<store, minted, markers, queue, dumps, call, copy>>

(* The report: what scored below is held and queued.  A gate that ran out  *)
(* of time, failed or cannot be read holds nothing: every record is kept.  *)
CloseGate(p) ==
  /\ At(p, "scoring") /\ call[p].judged = Len(call[p].gated)
  /\ LET c == call[p]
         chosen(keep) == AtPlaces(c.gated, {n \in DOMAIN c.gated : (n \in c.below) # keep})
     IN  /\ Becomes(p, [c EXCEPT !.clean = chosen(TRUE), !.held = @ \o chosen(FALSE), !.gated = << >>])
         /\ \E some \in SUBSET ToSet(chosen(FALSE)) : queue' = queue \cup Queued(some, "decisions")
  /\ GoTo(p, "judged")
  /\ UNCHANGED <<store, minted, markers, ledger, dumps, copy, draft>>
GateFails(p) ==
  /\ pc[p] \in {"opening", "scoring", "spending", "asking", "noting"} /\ UNCHANGED calls
  /\ GoTo(p, "judged")
  /\ Becomes(p, [call[p] EXCEPT !.gated = << >>, !.below = {}])
  /\ ledger' \in Left(p) /\ StopWriting(p)
  /\ UNCHANGED <<store, minted, markers, queue, dumps, copy>>

-----------------------------------------------------------------------------
(* resolve-group may fail; the group may have another initiative. *)
ResolveGroup(p) ==
  /\ At(p, "judged")
  /\ \/ Return(p)
     \/ /\ call[p].clean # << >> \/ (~call[p].opts.dry /\ call[p].held # << >>)
        /\ call[p].opts.dry \/ ~InitiativeMismatch(call[p].binding, Group)
        /\ GoTo(p, IF call[p].clean = << >> THEN "proposing" ELSE "batch")
        /\ UNCHANGED call
  /\ UNCHANGED <<store, minted, markers, ledger, queue, dumps, copy, draft>>

Batch(candidates) == SubSeq(candidates, 1, IF Len(candidates) < MaxBatch THEN Len(candidates) ELSE MaxBatch)
Rest(candidates) == SubSeq(candidates, Len(Batch(candidates)) + 1, Len(candidates))

(* A batch: preflight, the advisory dedup, and what is to be sent.  When   *)
(* the preflight fails every item is a create.  A dry run has no group to  *)
(* match in and stops here.                                                *)
Preflight(p) ==
  /\ At(p, "batch")
  /\ \E answered \in BOOLEAN :
       LET chunk == Batch(call[p].clean)
           seen == IF answered /\ ~call[p].opts.dry THEN store ELSE << >>
           items == SetItems(chunk, HeldFor(seen, chunk), minted, "approved")
           alike == {c \in ToSet(chunk) : \E id \in DOMAIN store :
                       Current(store, id).body = c.body /\ Current(store, id).subject # c.subject}
           rest == [call[p] EXCEPT !.clean = Rest(@), !.items = items]
       IN  /\ \E some \in SUBSET alike : queue' = queue \cup Queued(some, "dedup")
           /\ IF SubjectsCollide(chunk) THEN Return(p) /\ UNCHANGED minted
              ELSE IF call[p].opts.dry
              THEN /\ UNCHANGED minted
                   /\ IF Rest(call[p].clean) = << >> THEN Return(p)
                      ELSE Becomes(p, [rest EXCEPT !.items = << >>]) /\ UNCHANGED pc
              ELSE Becomes(p, rest) /\ minted' = minted + Creates(items) /\ GoTo(p, "veto")
  /\ UNCHANGED <<store, markers, ledger, dumps, copy, draft>>

(* The proposals: a preflight of their own, and creates only. *)
PreflightHeld(p) ==
  /\ At(p, "proposing")
  /\ \E answered \in BOOLEAN :
       LET held == HeldFor(store, Batch(call[p].held))
           chunk == IF answered THEN Persistable(Batch(call[p].held), held, call[p].seen) ELSE << >>
           items == SetItems(chunk, held, minted, "proposed")
       IN  /\ Becomes(p, [call[p] EXCEPT !.held = Rest(@), !.items = items, !.proposing = TRUE,
                                         !.seen = @ \cup {i.subject : i \in ToSet(items)}])
           /\ minted' = minted + Creates(items)
           /\ GoTo(p, IF items = << >> THEN "marking" ELSE "veto")
  /\ UNCHANGED <<store, markers, ledger, queue, dumps, copy, draft>>

(* A failure ends a call; one of the proposals leaves them in the queue.   *)
Fail(p) == IF call[p].proposing THEN GoTo(p, "marking") /\ UNCHANGED call ELSE Return(p)
(* The marker the client that sets applies.  An export runs it without the *)
(* options it was given itself.                                            *)
SetOptions(c) == IF c.op = "set" THEN c.opts ELSE [dry |-> FALSE, all |-> FALSE, nomarker |-> FALSE]
Loaded(p) == MarkerFor(SetOptions(call[p]).all, Session(p), MarkerOf("odin", p))

(* set --dryrun, before every write of an export. *)
Veto(p) ==
  /\ At(p, "veto")
  /\ \/ Fail(p)
     \/ /\ ~SetIsRefused(call[p].items, Loaded(p), call[p].env)
        /\ ~StoreRefuses(store, ApplyExportMarker(call[p].items, Loaded(p)))
        /\ GoTo(p, "writing") /\ UNCHANGED call
  /\ UNCHANGED <<store, minted, markers, ledger, queue, dumps, copy, draft>>

(* set: echoes are left out and the rest is scrubbed; then it is sent.     *)
Apply(p) ==
  /\ At(p, "writing")
  /\ LET items == call[p].items
     IN  IF SetIsRefused(items, Loaded(p), call[p].env) THEN Fail(p)
         ELSE /\ Becomes(p, [call[p] EXCEPT !.sent = Scrubbed(ApplyExportMarker(items, Loaded(p))),
                                            !.dropped = @ \cup ToSet(Echoes(items, Loaded(p)))])
              /\ GoTo(p, "sending")
  /\ UNCHANGED <<store, minted, markers, ledger, queue, dumps, copy, draft>>

(* The store refuses, stores and the answer is lost, or stores and answers.*)
Send(p) ==
  /\ At(p, "sending")
  /\ LET c == call[p]
         confirmed == [n \in DOMAIN c.sent |-> Target(c.sent[n])]
         receipts == SendReceipt(c.sent, confirmed, SetOptions(c), Session(p))
                       \o (IF c.op = "export" THEN ExportReceipt(c.items, c.opts, Session(p)) ELSE << >>)
     IN  \/ Fail(p) /\ UNCHANGED store
         \/ /\ ~StoreRefuses(store, c.sent)
            /\ store' = IF SetOptions(c).dry THEN store ELSE PutAll(store, c.sent)
            /\ \/ Fail(p)
               \/ Becomes(p, [c EXCEPT !.receipts = receipts]) /\ GoTo(p, "marking")
  /\ UNCHANGED <<minted, markers, ledger, queue, dumps, copy, draft>>

-----------------------------------------------------------------------------
(* A receipt: the marker is read, and in a later step replaced.  A write   *)
(* of it that fails is a note.                                             *)
ReadMarker(p) ==
  /\ At(p, "marking") /\ call[p].receipts # << >>
  /\ LET receipt == Head(call[p].receipts)
     IN  copy' = [copy EXCEPT ![p] = Recorded(MarkerOf(receipt.skill, p), receipt.entry)]
  /\ GoTo(p, "replacing")
  /\ UNCHANGED <<store, minted, markers, ledger, queue, dumps, call, draft>>

ReplaceMarker(p) ==
  /\ At(p, "replacing")
  /\ LET skill == Head(call[p].receipts).skill
     IN  markers' \in {markers, [markers EXCEPT ![<<skill, Session(p)>>] = copy[p]]}
  /\ copy' = [copy EXCEPT ![p] = << >>]
  /\ Becomes(p, [call[p] EXCEPT !.receipts = Tail(@)])
  /\ GoTo(p, "marking")
  /\ UNCHANGED <<store, minted, ledger, queue, dumps, draft>>

(* The next batch, then the proposals of a write, then the end. *)
Advance(p) ==
  /\ At(p, "marking") /\ call[p].receipts = << >>
  /\ IF call[p].clean # << >> THEN GoTo(p, "batch") /\ UNCHANGED call
     ELSE IF call[p].held # << >> THEN GoTo(p, "proposing") /\ UNCHANGED call
     ELSE Return(p)
  /\ UNCHANGED <<store, minted, markers, ledger, queue, dumps, copy, draft>>

(* A client is killed; its files and the store stay as they are. *)
Die(p) ==
  /\ pc[p] # "idle"
  /\ Return(p)
  /\ copy' = [copy EXCEPT ![p] = << >>]
  /\ ledger' \in Left(p) /\ StopWriting(p)
  /\ UNCHANGED <<store, minted, markers, queue, dumps, calls>>

Serve(p) ==
  \/ QueueHeld(p) \/ CheckInitiative(p)
  \/ OpenGate(p) \/ SpendNext(p) \/ Answer(p) \/ CloseGate(p) \/ GateFails(p)
  \/ ReplaceLedger(p) \/ TearLedger(p) \/ KeepLedger(p)
  \/ ResolveGroup(p) \/ Preflight(p) \/ PreflightHeld(p) \/ Veto(p) \/ Apply(p) \/ Send(p)
  \/ ReadMarker(p) \/ ReplaceMarker(p) \/ Advance(p)

Next ==
  \E p \in Procs :
    \/ Set(p) \/ Import(p, "odin") \/ Import(p, "kvasir") \/ Load(p) \/ Dump(p) \/ Export(p)
    \/ Serve(p) \/ Die(p)

Spec == Init /\ [][Next]_vars

-----------------------------------------------------------------------------
(* What is stored was scrubbed, no attempt is spent beyond the setting, and*)
(* the call in hand is where its program is.                               *)
Places == {"idle", "writing", "marking", "held", "initiative", "gate", "opening", "scoring",
           "spending", "asking", "noting", "judged", "batch", "proposing", "veto", "sending", "replacing"}
TypeOK ==
  /\ \A id \in DOMAIN store : \A n \in DOMAIN store[id] :
       /\ store[id][n].body \in Scrubs
       /\ store[id][n].status \in {"approved", "proposed"}
  /\ DOMAIN store \subseteq 1..minted
  /\ IsLedger(ledger) =>
       \A k \in DOMAIN ledger : ledger[k].attempts \in 0..MostAttempts
  /\ \A d \in ToSet(dumps) : \A c \in ToSet(d.records) : c.body \in Scrubs \cup {None}
  /\ \A e \in queue : e.body \in Scrubs
  /\ \A p \in Procs :
       /\ pc[p] \in Places
       /\ (call[p] = NoCall) = (pc[p] = "idle")
       /\ (copy[p] # << >>) = (pc[p] = "replacing")
       /\ (draft[p] # NoDraft) = (pc[p] \in {"opening", "spending", "noting"})

(* _mark_send_receipt, _mark_export_receipt: what a receipt says was       *)
(* exported is a memory of the store that has, or had, that subject: no    *)
(* receipt of a preview, of a batch that was refused, of an id nobody used.*)
ReceiptsNameWhatIsStored ==
  \A key \in DOMAIN markers : \A e \in ToSet(Entries(markers[key])) :
    e.verb = "export" =>
      \A i \in e.items : /\ i.id \in DOMAIN store
                         /\ \E n \in DOMAIN store[i.id] : store[i.id][n].subject = i.subject

Steps(p) == pc'[p] # pc[p] \/ call'[p] # call[p]
(* _persist_proposed: only creates persist: a proposal never becomes a     *)
(* version of a memory, whoever stored it since the proposals' preflight.  *)
ProposalsOnlyCreate ==
  [][\A p \in Procs : Steps(p) /\ call[p] # NoCall /\ call[p].proposing =>
       \A id \in DOMAIN store : store'[id] = store[id]]_vars

(* --dryrun: a preview leaves the store, the attempts and the markers as   *)
(* they are, whatever the gate and the queue do on the way.                *)
DryRunSpendsNothing ==
  [][\A p \in Procs :
       Steps(p) /\ call[p] # NoCall /\ call[p].op \in {"export", "set"} /\ call[p].opts.dry =>
         UNCHANGED <<store, ledger, markers>>]_vars

(* next_attempt: the model is asked about a record with an attempt within  *)
(* the setting, which is on file and one more than the file said, unless   *)
(* the read and the write of another gate overlapped with its own.         *)
AttemptsAreSpentFirst ==
  [][\A p \in Procs : pc[p] = "spending" /\ pc'[p] = "asking" =>
       LET key == [legacy |-> FALSE, id |-> NextGated(p).subject]
       IN  /\ call[p].attempt \in 1..call[p].settings.attempts
           /\ draft[p].hold = "own" =>
                /\ call[p].attempt = NextAttempt(ledger, key.id)
                /\ key \in DOMAIN ledger' /\ ledger'[key].attempts = call[p].attempt]_vars

(* LADR-11: a changed item is not dropped as an echo: what was left out of *)
(* a batch is in the memory it would have versioned.                       *)
ChangesAreNeverDropped ==
  \A p \in Procs : call[p] # NoCall =>
    \A d \in call[p].dropped :
      d.uuid \in DOMAIN store /\ \E n \in DOMAIN store[d.uuid] : store[d.uuid][n].body = Redacted[d.body]
=============================================================================
