------------------------- MODULE SessionExportProofs -------------------------
(***************************************************************************)
(* What a session keeps true, for any number of processes, requests,       *)
(* records, settings and memories: a preview spends nothing, what is kept  *)
(* was scrubbed, receipts are true and proposals only create.              *)
(*                                                                         *)
(* PreviewInv bounds where a call with --dryrun can get to.  SessionInv    *)
(* adds what the store, the files and the call in hand have: the ids a     *)
(* process is about to create are its own (Fresh), and a batch on its way  *)
(* is a create or the version of a memory with its subject (ItemsFit,      *)
(* SentFits).  PhaseInv says that the proposals come last.                 *)
(***************************************************************************)
EXTENDS SessionExport, FiniteSetTheorems, SequenceTheorems, NaturalsInduction,
        WellFoundedInduction, TLAPS

(* A call is a record with at least these fields; how many more it has, and*)
(* of which type, does not matter here.                                    *)
IsCall(c) ==
  /\ c = [f \in DOMAIN c |-> c[f]]
  /\ {"op", "opts", "clean", "held", "receipts", "items", "sent", "dropped", "proposing", "seen",
      "gated", "judged", "below", "attempt", "binding", "settings"} \subseteq DOMAIN c

(* The calls a preview is: export --dryrun and set --dryrun.               *)
IsDry(c) == c.op \in {"export", "set"} /\ c.opts.dry

(* Where a preview can be, and that a set has nothing but its own batch.   *)
Fits(c, place) ==
  IsDry(c) =>
    \/ c.op = "export" /\ place \in {"held", "initiative", "gate", "judged", "batch"}
    \/ /\ c.op = "set" /\ place \in {"writing", "sending", "marking"}
       /\ c.clean = << >> /\ c.held = << >> /\ c.receipts = << >>

Placed(c, place) ==
  IF place = "idle" THEN c = NoCall ELSE IsCall(c) /\ Fits(c, place)
Maps ==
  /\ DOMAIN pc = Procs /\ pc = [p \in Procs |-> pc[p]]
  /\ DOMAIN call = Procs /\ call = [p \in Procs |-> call[p]]

(* Who has the temporary file of the ledger: a process that is writing, and*)
(* one that owns it writes alone.                                          *)
LedgerPlaces == {"opening", "spending", "noting"}
DraftFits(d, place) ==
  IF place \in LedgerPlaces THEN d.hold \in {"own", "shared", "moved"} ELSE d = NoDraft
OwnAlone == \A p, q \in Procs : p # q /\ draft[p].hold = "own" => draft[q].hold = "none"
DraftsFit ==
  /\ DOMAIN draft = Procs /\ draft = [p \in Procs |-> draft[p]]
  /\ \A p \in Procs : DraftFits(draft[p], pc[p])
  /\ OwnAlone

(* DryRunSpendsNothing is about one step; this is what every state has.    *)
PreviewInv == Maps /\ DraftsFit /\ \A p \in Procs : Placed(call[p], pc[p])

Harmless == UNCHANGED <<store, ledger, markers>>
(* A step of p, and of p alone, that leaves it well placed and, when it is *)
(* a preview, changes nothing that lasts.                                  *)
StepOf(p) ==
  /\ Maps'
  /\ \A q \in Procs \ {p} : pc'[q] = pc[q] /\ call'[q] = call[q]
  /\ Placed(call[p], pc[p])'
  /\ pc[p] # "idle" /\ IsDry(call[p]) => Harmless

(* What it does to the drafts: it changes none of the files others write,  *)
(* and a process that still owns its file afterwards saw no write at all.  *)
DraftStep(p) ==
  /\ DOMAIN draft' = Procs /\ draft' = [q \in Procs |-> draft'[q]]
  /\ DraftFits(draft'[p], pc'[p])
  /\ \A q \in Procs \ {p} :
       /\ draft'[q].file = draft[q].file /\ DraftFits(draft'[q], pc[q])
       /\ draft'[q].hold = "own" => draft'[q] = draft[q] /\ UNCHANGED ledger
  /\ OwnAlone'

------------------------------------------------------------------------------
(* The steps that start a call. *)
LEMMA CallsAreCalls ==
  ASSUME NEW op, NEW r
  PROVE  /\ IsCall(Called(op, r)) /\ Called(op, r).op = op /\ Called(op, r).opts = r.opts
         /\ Called(op, r).clean = << >> /\ Called(op, r).held = << >> /\ Called(op, r).receipts = << >>
<1>1. DOMAIN Called(op, r) =
        {"op", "opts", "env", "settings", "binding", "clean", "held", "gated", "judged", "below",
         "attempt", "items", "sent", "dropped", "proposing", "seen", "receipts"}
  BY DEF Called
<1>2. Called(op, r) = [f \in DOMAIN Called(op, r) |-> Called(op, r)[f]]
  BY <1>1 DEF Called
<1> QED
  BY <1>1, <1>2 DEF Called, IsCall

(* A call with another value of one field. *)
With(c, f, u) == [c EXCEPT ![f] = u]
Fields == {"clean", "held", "receipts", "items", "sent", "dropped", "proposing", "seen", "gated",
           "judged", "below", "attempt", "binding"}

(* Setting such a field leaves a call a call, and what it was called for.  *)
LEMMA UpdatesKeepCalls ==
  ASSUME NEW c, IsCall(c), NEW f \in Fields, NEW u
  PROVE  /\ IsCall(With(c, f, u))
         /\ With(c, f, u).op = c.op /\ With(c, f, u).opts = c.opts
         /\ IsDry(With(c, f, u)) <=> IsDry(c)
         /\ With(c, f, u)[f] = u
         /\ \A g \in Fields : g # f => With(c, f, u)[g] = c[g]
<1> DEFINE d == [c EXCEPT ![f] = u]
<1>1. IsCall(d) /\ d.op = c.op /\ d.opts = c.opts /\ d[f] = u
  BY DEF IsCall, Fields
<1>2. \A g \in Fields : g # f => d[g] = c[g]
  BY DEF IsCall, Fields
<1>3. IsDry(d) <=> IsDry(c)
  BY <1>1 DEF IsDry
<1> QED
  BY <1>1, <1>2, <1>3 DEF With

(* A step that goes to a place, or stays, with a call, or the same one.    *)
LEMMA StepsOfOne ==
  ASSUME PreviewInv, NEW p \in Procs, NEW place, NEW c,
         pc' = [pc EXCEPT ![p] = place] \/ (pc' = pc /\ place = pc[p]),
         call' = [call EXCEPT ![p] = c] \/ (call' = call /\ c = call[p]),
         Placed(c, place),
         pc[p] # "idle" /\ IsDry(call[p]) => Harmless
  PROVE  StepOf(p)
<1>1. Maps' /\ pc'[p] = place /\ call'[p] = c
  BY DEF PreviewInv, Maps
<1>2. \A q \in Procs \ {p} : pc'[q] = pc[q] /\ call'[q] = call[q]
  BY DEF PreviewInv, Maps
<1> QED
  BY <1>1, <1>2 DEF StepOf

(* An idle process that returns or starts. *)
LEMMA Starts ==
  ASSUME PreviewInv, NEW p \in Procs, pc[p] = "idle", NEW place, place # "idle", NEW c,
         \/ UNCHANGED <<pc, call>>
         \/ pc' = [pc EXCEPT ![p] = place] /\ call' = [call EXCEPT ![p] = c],
         IsCall(c), Fits(c, place)
  PROVE  StepOf(p)
<1>1. CASE UNCHANGED <<pc, call>>
  BY <1>1, StepsOfOne DEF PreviewInv
<1>2. CASE pc' = [pc EXCEPT ![p] = place] /\ call' = [call EXCEPT ![p] = c]
  BY <1>2, StepsOfOne DEF Placed
<1> QED
  BY <1>1, <1>2

(* A process that works goes on with the same call, or one updated in      *)
(* other fields.                                                           *)
LEMMA GoesOn ==
  ASSUME PreviewInv, NEW p \in Procs, pc[p] # "idle", NEW place, place # "idle", NEW c, IsCall(c),
         pc' = [pc EXCEPT ![p] = place] \/ (pc' = pc /\ place = pc[p]),
         call' = [call EXCEPT ![p] = c] \/ (call' = call /\ c = call[p]),
         IsDry(c) <=> IsDry(call[p]),
         IsDry(call[p]) => Fits(c, place) /\ Harmless
  PROVE  StepOf(p)
<1>1. Placed(c, place)
  BY DEF Placed, Fits
<1> QED
  BY <1>1, StepsOfOne

LEMMA Returns ==
  ASSUME PreviewInv, NEW p \in Procs, Return(p), IsDry(call[p]) => Harmless
  PROVE  StepOf(p)
<1>1. pc' = [pc EXCEPT ![p] = "idle"] /\ call' = [call EXCEPT ![p] = NoCall]
  BY DEF Return, GoTo, Becomes
<1> QED
  BY <1>1, StepsOfOne DEF Placed

------------------------------------------------------------------------------
(* One lemma for each operation that starts. *)
LEMMA SetStep == ASSUME PreviewInv, NEW p \in Procs, Set(p) PROVE StepOf(p)
<1>1. PICK r, items :
        /\ pc[p] = "idle" /\ pc' = [pc EXCEPT ![p] = "writing"]
        /\ call' = [call EXCEPT ![p] = With(Called("set", r), "items", items)]
  BY DEF Set, Begin, Becomes, GoTo, With
<1> DEFINE c == With(Called("set", r), "items", items)
<1>2. IsCall(c) /\ c["clean"] = << >> /\ c["held"] = << >> /\ c["receipts"] = << >> /\ c.op = "set"
  BY CallsAreCalls, UpdatesKeepCalls DEF Fields
<1>3. Fits(c, "writing")
  BY <1>2 DEF Fits
<1> QED
  BY <1>1, <1>2, <1>3, Starts

(* The receipts of reads and dumps belong to no preview. *)
LEMMA ReceiptStep ==
  ASSUME PreviewInv, NEW p \in Procs, pc[p] = "idle", NEW op \in {"import", "load", "dump"},
         NEW r, NEW receipts, Receipt(p, op, r, receipts)
  PROVE  StepOf(p)
<1> DEFINE c == With(Called(op, r), "receipts", receipts)
<1>1. \/ UNCHANGED <<pc, call>>
      \/ pc' = [pc EXCEPT ![p] = "marking"] /\ call' = [call EXCEPT ![p] = c]
  BY DEF Receipt, Refuse, Becomes, GoTo, With
<1>2. IsCall(c) /\ c.op = op
  BY CallsAreCalls, UpdatesKeepCalls DEF Fields
<1>3. Fits(c, "marking")
  BY <1>2 DEF Fits, IsDry
<1> QED
  BY <1>1, <1>2, <1>3, Starts

LEMMA ReadStep ==
  ASSUME PreviewInv, NEW p \in Procs, NEW skill, Import(p, skill) \/ Load(p) PROVE StepOf(p)
<1>1. pc[p] = "idle"
  BY DEF Import, Load, Begin
<1>2. \E op \in {"import", "load"} : \E r, receipts : Receipt(p, op, r, receipts)
  BY DEF Import, Load
<1> QED
  BY <1>1, <1>2, ReceiptStep

LEMMA DumpStep == ASSUME PreviewInv, NEW p \in Procs, Dump(p) PROVE StepOf(p)
<1>1. pc[p] = "idle"
  BY DEF Dump, Begin
<1>2. Refuse(p) \/ \E r, receipts : Receipt(p, "dump", r, receipts)
  BY DEF Dump
<1>3. CASE Refuse(p)
  BY <1>1, <1>3, StepsOfOne DEF Refuse, PreviewInv
<1> QED
  BY <1>1, <1>2, <1>3, ReceiptStep

LEMMA ExportStep == ASSUME PreviewInv, NEW p \in Procs, Export(p) PROVE StepOf(p)
<1>1. /\ pc[p] = "idle"
      /\ \/ Refuse(p)
         \/ \E r, binding, clean, held :
              /\ Becomes(p, [Called("export", r) EXCEPT !.binding = binding, !.clean = clean,
                                                       !.held = held])
              /\ GoTo(p, "held")
  BY DEF Export, Begin
<1>2. CASE Refuse(p)
  BY <1>1, <1>2, StepsOfOne DEF Refuse, PreviewInv
<1>3. ASSUME NEW r, NEW binding, NEW clean, NEW held,
             Becomes(p, [Called("export", r) EXCEPT !.binding = binding, !.clean = clean,
                                                    !.held = held]),
             GoTo(p, "held")
      PROVE  StepOf(p)
  <2> DEFINE c1 == With(Called("export", r), "binding", binding)
             c2 == With(c1, "clean", clean)
             c == With(c2, "held", held)
  <2>1. IsCall(c1) /\ c1.op = "export"
    BY CallsAreCalls, UpdatesKeepCalls DEF Fields
  <2>2. IsCall(c2) /\ c2.op = "export"
    BY <2>1, UpdatesKeepCalls DEF Fields
  <2>3. IsCall(c) /\ c.op = "export"
    BY <2>2, UpdatesKeepCalls DEF Fields
  <2>4. pc' = [pc EXCEPT ![p] = "held"] /\ call' = [call EXCEPT ![p] = c]
    BY <1>3 DEF Becomes, GoTo, With
  <2>5. Fits(c, "held")
    BY <2>3 DEF Fits
  <2> QED
    BY <1>1, <2>3, <2>4, <2>5, Starts
<1> QED
  BY <1>1, <1>2, <1>3

------------------------------------------------------------------------------
(* Updates of several fields, one after the other. *)
Updates(c, d) == IsCall(c) /\ IsCall(d) /\ (IsDry(d) <=> IsDry(c))
LEMMA OneUpdate ==
  ASSUME NEW c, IsCall(c), NEW f \in Fields, NEW u
  PROVE  Updates(c, With(c, f, u))
BY UpdatesKeepCalls DEF Updates
LEMMA OneMoreUpdate ==
  ASSUME NEW c, NEW d, Updates(c, d), NEW f \in Fields, NEW u
  PROVE  Updates(c, With(d, f, u))
BY UpdatesKeepCalls DEF Updates

LEMMA AtWork ==
  ASSUME PreviewInv, NEW p \in Procs, pc[p] # "idle"
  PROVE  IsCall(call[p]) /\ Fits(call[p], pc[p])
BY DEF PreviewInv, Placed

(* A place no preview can be in: whatever happens there is a write's.      *)
OfWrites == LedgerPlaces \cup {"scoring", "asking", "proposing", "veto", "replacing"}
LEMMA NotAPreview ==
  ASSUME PreviewInv, NEW p \in Procs, pc[p] \in OfWrites
  PROVE  IsCall(call[p]) /\ ~IsDry(call[p])
BY AtWork DEF Fits, OfWrites, LedgerPlaces

(* What a write may do: go anywhere with the same call or with one updated.*)
LEMMA WritesGoOn ==
  ASSUME PreviewInv, NEW p \in Procs, pc[p] \in OfWrites,
         \/ pc' = pc
         \/ \E place : place # "idle" /\ pc' = [pc EXCEPT ![p] = place],
         \/ call' = call
         \/ \E c : Updates(call[p], c) /\ call' = [call EXCEPT ![p] = c]
  PROVE  StepOf(p)
<1>0. pc[p] # "idle"
  BY DEF OfWrites, LedgerPlaces
<1>1. IsCall(call[p]) /\ ~IsDry(call[p])
  BY NotAPreview
<1>2. \E place : place # "idle" /\ (pc' = [pc EXCEPT ![p] = place] \/ (pc' = pc /\ place = pc[p]))
  BY <1>0
<1>3. \E c : Updates(call[p], c) /\ (call' = [call EXCEPT ![p] = c] \/ (call' = call /\ c = call[p]))
  BY <1>1 DEF Updates
<1> QED
  BY <1>0, <1>1, <1>2, <1>3, GoesOn DEF Updates

LEMMA FailStep ==
  ASSUME PreviewInv, NEW p \in Procs, pc[p] \in {"veto", "writing", "sending"}, Fail(p),
         IsDry(call[p]) => Harmless
  PROVE  StepOf(p)
<1>1. CASE Return(p)
  BY <1>1, Returns
<1>2. CASE GoTo(p, "marking") /\ UNCHANGED call
  <2>1. IsCall(call[p]) /\ Fits(call[p], pc[p])
    BY AtWork
  <2>2. IsDry(call[p]) => Fits(call[p], "marking")
    BY <2>1 DEF Fits
  <2> QED
    BY <1>2, <2>1, <2>2, GoesOn DEF GoTo
<1> QED
  BY <1>1, <1>2 DEF Fail

------------------------------------------------------------------------------
(* One lemma for each step of the service. *)
LEMMA QueueHeldStep == ASSUME PreviewInv, NEW p \in Procs, QueueHeld(p) PROVE StepOf(p)
<1>1. pc[p] = "held" /\ pc' = [pc EXCEPT ![p] = "initiative"] /\ call' = call /\ Harmless
  BY DEF QueueHeld, At, GoTo, Harmless
<1>2. IsCall(call[p]) /\ (IsDry(call[p]) => Fits(call[p], "initiative"))
  BY <1>1, AtWork DEF Fits
<1> QED
  BY <1>1, <1>2, GoesOn

LEMMA CheckInitiativeStep == ASSUME PreviewInv, NEW p \in Procs, CheckInitiative(p) PROVE StepOf(p)
<1>1. pc[p] = "initiative" /\ Harmless
  BY DEF CheckInitiative, At, Harmless
<1>2. Return(p) \/ (pc' = [pc EXCEPT ![p] = "gate"] /\ call' = call)
  BY DEF CheckInitiative, GoTo
<1>3. IsCall(call[p]) /\ (IsDry(call[p]) => Fits(call[p], "gate"))
  BY <1>1, AtWork DEF Fits
<1> QED
  BY <1>1, <1>2, <1>3, GoesOn, Returns

(* A preview never gets to the ledger: it probes, or is refused. *)
LEMMA OpenGateStep == ASSUME PreviewInv, NEW p \in Procs, OpenGate(p) PROVE StepOf(p)
<1>1. pc[p] = "gate" /\ UNCHANGED <<store, markers>>
  BY DEF OpenGate, At
<1>2. IsCall(call[p]) /\ (IsDry(call[p]) => Fits(call[p], "judged") /\ call[p].opts.dry)
  BY <1>1, AtWork DEF Fits, IsDry
<1>3. \/ pc' = [pc EXCEPT ![p] = "judged"] /\ UNCHANGED <<ledger, call>>
      \/ Return(p) /\ UNCHANGED ledger
      \/ /\ ~call[p].opts.dry /\ \E place \in {"opening", "scoring"} : pc' = [pc EXCEPT ![p] = place]
         /\ call' = [call EXCEPT ![p] = With(call[p], "gated", call[p].clean)]
  BY DEF OpenGate, StartScoring, GoTo, Becomes, With
<1>4. CASE pc' = [pc EXCEPT ![p] = "judged"] /\ UNCHANGED <<ledger, call>>
  BY <1>1, <1>2, <1>4, GoesOn DEF Harmless
<1>5. CASE Return(p) /\ UNCHANGED ledger
  BY <1>1, <1>5, Returns DEF Harmless
<1>6. CASE /\ ~call[p].opts.dry /\ \E place \in {"opening", "scoring"} : pc' = [pc EXCEPT ![p] = place]
           /\ call' = [call EXCEPT ![p] = With(call[p], "gated", call[p].clean)]
  <2>1. Updates(call[p], With(call[p], "gated", call[p].clean)) /\ ~IsDry(call[p])
    BY <1>2, <1>6, UpdatesKeepCalls DEF Fields, Updates
  <2> QED
    BY <1>1, <1>6, <2>1, GoesOn DEF Updates
<1> QED
  BY <1>3, <1>4, <1>5, <1>6

LEMMA JudgeUpdates ==
  ASSUME PreviewInv, NEW p \in Procs, IsCall(call[p]), NEW below, Judge(p, below)
  PROVE  \E c : Updates(call[p], c) /\ call' = [call EXCEPT ![p] = c]
<1> DEFINE u == IF below THEN call[p].below \cup {call[p].judged + 1} ELSE call[p].below
           c == With(With(With(call[p], "judged", call[p].judged + 1), "attempt", 0), "below", u)
<1>1. call' = [call EXCEPT ![p] = c]
  BY DEF Judge, Becomes, With, IsCall
<1>2. Updates(call[p], With(call[p], "judged", call[p].judged + 1))
  BY OneUpdate DEF Fields
<1>3. Updates(call[p], With(With(call[p], "judged", call[p].judged + 1), "attempt", 0))
  BY <1>2, OneMoreUpdate DEF Fields
<1>4. Updates(call[p], c)
  BY <1>3, OneMoreUpdate DEF Fields
<1> QED
  BY <1>1, <1>4

LEMMA ScoringStep ==
  ASSUME PreviewInv, NEW p \in Procs, SpendNext(p) \/ Answer(p) PROVE StepOf(p)
<1>1. pc[p] \in OfWrites
  BY DEF SpendNext, Answer, At, OfWrites
<1>2. \/ pc' = pc
      \/ \E place : place # "idle" /\ pc' = [pc EXCEPT ![p] = place]
  BY DEF SpendNext, Answer, GoTo
<1>3. \/ \E below : Judge(p, below)
      \/ \E n : call' = [call EXCEPT ![p] = With(call[p], "attempt", n)]
  BY DEF SpendNext, Answer, Becomes, With
<1>4. IsCall(call[p])
  BY <1>1, NotAPreview
<1>5. \E c : Updates(call[p], c) /\ call' = [call EXCEPT ![p] = c]
  BY <1>3, <1>4, JudgeUpdates, UpdatesKeepCalls DEF Fields, Updates
<1> QED
  BY <1>1, <1>2, <1>5, WritesGoOn

(* The writes of the ledger leave the call as it is. *)
LEMMA LedgerStep ==
  ASSUME PreviewInv, NEW p \in Procs, ReplaceLedger(p) \/ TearLedger(p) \/ KeepLedger(p)
  PROVE  StepOf(p)
<1>1. pc[p] \in OfWrites
  <2>1. CASE TearLedger(p)
    BY <2>1 DEF TearLedger, PreviewInv, DraftsFit, DraftFits, NoDraft, OfWrites
  <2> QED
    BY <2>1 DEF ReplaceLedger, KeepLedger, At, OfWrites, LedgerPlaces
<1>2. \/ pc' = pc
      \/ \E place : place # "idle" /\ pc' = [pc EXCEPT ![p] = place]
  BY DEF ReplaceLedger, TearLedger, KeepLedger, GoTo
<1>3. call' = call
  BY DEF ReplaceLedger, TearLedger, KeepLedger
<1> QED
  BY <1>1, <1>2, <1>3, WritesGoOn

LEMMA GateEndsStep ==
  ASSUME PreviewInv, NEW p \in Procs, CloseGate(p) \/ GateFails(p) PROVE StepOf(p)
<1>1. pc[p] \in OfWrites /\ pc' = [pc EXCEPT ![p] = "judged"]
  BY DEF CloseGate, GateFails, At, GoTo, OfWrites, LedgerPlaces
<1>2. IsCall(call[p])
  BY <1>1, NotAPreview
<1>3. \A x, y :
        /\ Updates(call[p], With(With(With(call[p], "clean", x), "held", y), "gated", << >>))
        /\ Updates(call[p], With(With(call[p], "gated", << >>), "below", {}))
  <2> TAKE x, y
  <2>1. /\ Updates(call[p], With(call[p], "clean", x))
        /\ Updates(call[p], With(call[p], "gated", << >>))
    BY <1>2, OneUpdate DEF Fields
  <2>2. /\ Updates(call[p], With(With(call[p], "clean", x), "held", y))
        /\ Updates(call[p], With(With(call[p], "gated", << >>), "below", {}))
    BY <2>1, OneMoreUpdate DEF Fields
  <2> QED
    BY <2>2, OneMoreUpdate DEF Fields
<1>4. \/ \E x, y : call' = [call EXCEPT ![p] =
            With(With(With(call[p], "clean", x), "held", y), "gated", << >>)]
      \/ call' = [call EXCEPT ![p] = With(With(call[p], "gated", << >>), "below", {})]
  <2>1. CASE GateFails(p)
    BY <1>2, <2>1 DEF GateFails, Becomes, With, IsCall
  <2>2. ASSUME CloseGate(p)
        PROVE  \E x, y : call' = [call EXCEPT ![p] =
                 With(With(With(call[p], "clean", x), "held", y), "gated", << >>)]
    <3>1. PICK x, y : call' = [call EXCEPT ![p] =
                         [call[p] EXCEPT !.clean = x, !.held = call[p].held \o y, !.gated = << >>]]
      BY <2>2 DEF CloseGate, Becomes
    <3> DEFINE d == With(With(With(call[p], "clean", x), "held", call[p].held \o y), "gated", << >>)
    <3>2. d = [call[p] EXCEPT !.clean = x, !.held = call[p].held \o y, !.gated = << >>]
      BY <1>2 DEF With, IsCall
    <3> QED
      BY <3>1, <3>2
  <2> QED
    BY <2>1, <2>2
<1> QED
  BY <1>1, <1>3, <1>4, WritesGoOn

(* A preview with nothing clean left ends here: it proposes nothing. *)
LEMMA ResolveGroupStep == ASSUME PreviewInv, NEW p \in Procs, ResolveGroup(p) PROVE StepOf(p)
<1>1. pc[p] = "judged" /\ Harmless
  BY DEF ResolveGroup, At, Harmless
<1>2. IsCall(call[p]) /\ Fits(call[p], pc[p])
  BY <1>1, AtWork
<1>3. \/ Return(p)
      \/ pc' = [pc EXCEPT ![p] = "batch"] /\ call' = call
      \/ ~call[p].opts.dry /\ pc' = [pc EXCEPT ![p] = "proposing"] /\ call' = call
  BY DEF ResolveGroup, GoTo
<1>4. CASE Return(p)
  BY <1>1, <1>4, Returns
<1>5. CASE pc' = [pc EXCEPT ![p] = "batch"] /\ call' = call
  <2>1. IsDry(call[p]) => Fits(call[p], "batch")
    BY <1>1, <1>2 DEF Fits
  <2> QED
    BY <1>1, <1>2, <1>5, <2>1, GoesOn
<1>6. CASE ~call[p].opts.dry /\ pc' = [pc EXCEPT ![p] = "proposing"] /\ call' = call
  BY <1>1, <1>2, <1>6, GoesOn DEF IsDry
<1> QED
  BY <1>3, <1>4, <1>5, <1>6

(* A preview stays among the batches until it ends. *)
LEMMA PreflightStep == ASSUME PreviewInv, NEW p \in Procs, Preflight(p) PROVE StepOf(p)
<1>1. pc[p] = "batch" /\ Harmless
  BY DEF Preflight, At, Harmless
<1>2. IsCall(call[p]) /\ Fits(call[p], pc[p])
  BY <1>1, AtWork
<1> DEFINE Rested(items) == With(With(call[p], "clean", Rest(call[p].clean)), "items", items)
           Previewed == With(Rested(<< >>), "items", << >>)
<1>3. ASSUME NEW items PROVE Updates(call[p], Rested(items)) /\ Rested(items).op = call[p].op
  <2>1. /\ Updates(call[p], With(call[p], "clean", Rest(call[p].clean)))
        /\ With(call[p], "clean", Rest(call[p].clean)).op = call[p].op
    BY <1>2, OneUpdate, UpdatesKeepCalls DEF Fields
  <2> QED
    BY <2>1, OneMoreUpdate, UpdatesKeepCalls DEF Fields, Updates
<1>4. \/ Return(p)
      \/ pc' = pc /\ call' = [call EXCEPT ![p] = Rested(<< >>)]
      \/ /\ ~call[p].opts.dry /\ pc' = [pc EXCEPT ![p] = "veto"]
         /\ \E items : call' = [call EXCEPT ![p] = Rested(items)]
  <2>1. \E items :
          \/ Return(p)
          \/ /\ pc' = pc
             /\ call' = [call EXCEPT ![p] =
                  [[call[p] EXCEPT !.clean = Rest(call[p].clean), !.items = items] EXCEPT !.items = << >>]]
          \/ /\ ~call[p].opts.dry /\ pc' = [pc EXCEPT ![p] = "veto"]
             /\ call' = [call EXCEPT ![p] =
                  [call[p] EXCEPT !.clean = Rest(call[p].clean), !.items = items]]
    BY DEF Preflight, Becomes, GoTo
  <2>2. \A items : [call[p] EXCEPT !.clean = Rest(call[p].clean), !.items = items] = Rested(items)
    BY DEF With
  <2>3. \A items : [Rested(items) EXCEPT !.items = << >>] = Rested(<< >>)
    BY <1>2 DEF With, IsCall
  <2>4. \A items : [[call[p] EXCEPT !.clean = Rest(call[p].clean), !.items = items] EXCEPT !.items = << >>]
                     = Rested(<< >>)
    <3> TAKE items
    <3>1. [call[p] EXCEPT !.clean = Rest(call[p].clean), !.items = items] = Rested(items)
      BY <2>2
    <3> HIDE DEF Rested
    <3> QED
      BY <3>1, <2>3
  <2> HIDE DEF Rested
  <2> QED
    BY <2>1, <2>2, <2>4
<1>5. CASE Return(p)
  BY <1>1, <1>5, Returns
<1>6. CASE pc' = pc /\ call' = [call EXCEPT ![p] = Rested(<< >>)]
  <2>1. Updates(call[p], Rested(<< >>)) /\ Rested(<< >>).op = call[p].op
    BY <1>3
  <2>2. IsDry(call[p]) => Fits(Rested(<< >>), "batch")
    BY <1>1, <1>2, <2>1 DEF Fits
  <2> HIDE DEF Rested
  <2> QED
    BY <1>1, <1>6, <2>1, <2>2, GoesOn DEF Updates
<1>7. ASSUME ~call[p].opts.dry, pc' = [pc EXCEPT ![p] = "veto"],
             NEW items, call' = [call EXCEPT ![p] = Rested(items)]
      PROVE  StepOf(p)
  <2>1. Updates(call[p], Rested(items)) /\ ~IsDry(call[p])
    BY <1>3, <1>7 DEF IsDry
  <2> HIDE DEF Rested
  <2> QED
    BY <1>1, <1>7, <2>1, GoesOn DEF Updates
<1> QED
  BY <1>4, <1>5, <1>6, <1>7

LEMMA PreflightHeldStep == ASSUME PreviewInv, NEW p \in Procs, PreflightHeld(p) PROVE StepOf(p)
<1>1. pc[p] \in OfWrites
  BY DEF PreflightHeld, At, OfWrites
<1>2. IsCall(call[p])
  BY <1>1, NotAPreview
<1>3. \A x, y, z :
        Updates(call[p], With(With(With(With(call[p], "held", x), "items", y), "proposing", TRUE),
                              "seen", z))
  <2> TAKE x, y, z
  <2>1. Updates(call[p], With(call[p], "held", x))
    BY <1>2, OneUpdate DEF Fields
  <2>2. Updates(call[p], With(With(call[p], "held", x), "items", y))
    BY <2>1, OneMoreUpdate DEF Fields
  <2>3. Updates(call[p], With(With(With(call[p], "held", x), "items", y), "proposing", TRUE))
    BY <2>2, OneMoreUpdate DEF Fields
  <2> QED
    BY <2>3, OneMoreUpdate DEF Fields
<1>4. PICK x, y, z : call' = [call EXCEPT ![p] =
          [call[p] EXCEPT !.held = x, !.items = y, !.proposing = TRUE, !.seen = call[p].seen \cup z]]
  BY DEF PreflightHeld, Becomes
<1>5. [call[p] EXCEPT !.held = x, !.items = y, !.proposing = TRUE, !.seen = call[p].seen \cup z]
        = With(With(With(With(call[p], "held", x), "items", y), "proposing", TRUE),
               "seen", call[p].seen \cup z)
  BY <1>2 DEF With, IsCall
<1>6. \E place : place # "idle" /\ pc' = [pc EXCEPT ![p] = place]
  BY DEF PreflightHeld, GoTo
<1> QED
  BY <1>1, <1>3, <1>4, <1>5, <1>6, WritesGoOn

LEMMA VetoStep == ASSUME PreviewInv, NEW p \in Procs, Veto(p) PROVE StepOf(p)
<1>1. pc[p] = "veto" /\ Harmless
  BY DEF Veto, At, Harmless
<1>2. Fail(p) \/ (pc' = [pc EXCEPT ![p] = "writing"] /\ call' = call)
  BY DEF Veto, GoTo
<1> QED
  BY <1>1, <1>2, FailStep, WritesGoOn DEF OfWrites

(* A set with --dryrun goes on with the same batch. *)
LEMMA ApplyStep == ASSUME PreviewInv, NEW p \in Procs, Apply(p) PROVE StepOf(p)
<1>1. pc[p] = "writing" /\ Harmless
  BY DEF Apply, At, Harmless
<1>2. IsCall(call[p]) /\ Fits(call[p], pc[p])
  BY <1>1, AtWork
<1>3. CASE Fail(p)
  BY <1>1, <1>3, FailStep
<1>4. ASSUME NEW x, NEW y,
             call' = [call EXCEPT ![p] = [call[p] EXCEPT !.sent = x, !.dropped = call[p].dropped \cup y]],
             pc' = [pc EXCEPT ![p] = "sending"]
      PROVE  StepOf(p)
  <2> DEFINE d == With(call[p], "sent", x)
             c == With(d, "dropped", call[p].dropped \cup y)
  <2>1. c = [call[p] EXCEPT !.sent = x, !.dropped = call[p].dropped \cup y]
    BY <1>2 DEF With, IsCall
  <2>2. /\ IsCall(d) /\ (IsDry(d) <=> IsDry(call[p])) /\ d.op = call[p].op
        /\ \A f \in {"clean", "held", "receipts"} : d[f] = call[p][f]
    BY <1>2, UpdatesKeepCalls DEF Fields
  <2> HIDE DEF d
  <2>3. /\ IsCall(c) /\ (IsDry(c) <=> IsDry(call[p])) /\ c.op = call[p].op
        /\ \A f \in {"clean", "held", "receipts"} : c[f] = call[p][f]
    BY <2>2, UpdatesKeepCalls DEF Fields
  <2> HIDE DEF c
  <2>4. IsDry(call[p]) => Fits(c, "sending")
    BY <1>1, <1>2, <2>3 DEF Fits
  <2> QED
    BY <1>1, <1>4, <2>1, <2>3, <2>4, GoesOn
<1> QED
  BY <1>3, <1>4 DEF Apply, Becomes, GoTo

(* A set with --dryrun stores nothing and is given no receipt. *)
LEMMA SendStep == ASSUME PreviewInv, NEW p \in Procs, Send(p) PROVE StepOf(p)
<1>1. pc[p] = "sending" /\ UNCHANGED <<ledger, markers>>
  BY DEF Send, At
<1>2. IsCall(call[p]) /\ Fits(call[p], pc[p])
  BY <1>1, AtWork
<1>3. IsDry(call[p]) => call[p].op = "set" /\ SetOptions(call[p]).dry
  BY <1>1, <1>2 DEF Fits, SetOptions, IsDry
<1>4. IsDry(call[p]) => Harmless
  BY <1>1, <1>3 DEF Send, Harmless
<1>5. CASE Fail(p)
  BY <1>1, <1>4, <1>5, FailStep
<1>6. ASSUME NEW confirmed,
             call' = [call EXCEPT ![p] = With(call[p], "receipts",
                SendReceipt(call[p].sent, confirmed, SetOptions(call[p]), Session(p))
                  \o (IF call[p].op = "export"
                      THEN ExportReceipt(call[p].items, call[p].opts, Session(p)) ELSE << >>))],
             pc' = [pc EXCEPT ![p] = "marking"]
      PROVE  StepOf(p)
  <2> DEFINE rs == SendReceipt(call[p].sent, confirmed, SetOptions(call[p]), Session(p))
                  \o (IF call[p].op = "export"
                      THEN ExportReceipt(call[p].items, call[p].opts, Session(p)) ELSE << >>)
             c == With(call[p], "receipts", rs)
  <2>1. IsDry(call[p]) => rs = << >>
    <3> SUFFICES ASSUME IsDry(call[p]) PROVE rs = << >>
      OBVIOUS
    <3>1. SendReceipt(call[p].sent, confirmed, SetOptions(call[p]), Session(p)) = << >>
      BY <1>3 DEF SendReceipt
    <3>2. call[p].op # "export"
      BY <1>3
    <3>3. << >> \o << >> = << >>
      OBVIOUS
    <3> QED
      BY <3>1, <3>2, <3>3
  <2> HIDE DEF rs
  <2>2. /\ IsCall(c) /\ (IsDry(c) <=> IsDry(call[p])) /\ c.op = call[p].op /\ c["receipts"] = rs
        /\ \A f \in {"clean", "held"} : c[f] = call[p][f]
    BY <1>2, UpdatesKeepCalls DEF Fields
  <2>3. IsDry(call[p]) => Fits(c, "marking")
    BY <1>1, <1>2, <2>1, <2>2 DEF Fits
  <2>4. call' = [call EXCEPT ![p] = c]
    BY <1>6 DEF rs
  <2> HIDE DEF c
  <2> QED
    BY <1>1, <1>4, <1>6, <2>2, <2>3, <2>4, GoesOn
<1>7. Fail(p) \/ \E confirmed :
        /\ call' = [call EXCEPT ![p] = With(call[p], "receipts",
                SendReceipt(call[p].sent, confirmed, SetOptions(call[p]), Session(p))
                  \o (IF call[p].op = "export"
                      THEN ExportReceipt(call[p].items, call[p].opts, Session(p)) ELSE << >>))]
        /\ pc' = [pc EXCEPT ![p] = "marking"]
  BY DEF Send, Becomes, GoTo, With
<1> QED
  BY <1>5, <1>6, <1>7

(* Receipts are written by writes. *)
LEMMA ReadMarkerStep == ASSUME PreviewInv, NEW p \in Procs, ReadMarker(p) PROVE StepOf(p)
<1>1. /\ pc[p] = "marking" /\ call[p].receipts # << >> /\ Harmless
      /\ pc' = [pc EXCEPT ![p] = "replacing"] /\ call' = call
  BY DEF ReadMarker, At, GoTo, Harmless
<1>2. IsCall(call[p]) /\ ~IsDry(call[p])
  BY <1>1, AtWork DEF Fits
<1> QED
  BY <1>1, <1>2, GoesOn

LEMMA ReplaceMarkerStep == ASSUME PreviewInv, NEW p \in Procs, ReplaceMarker(p) PROVE StepOf(p)
<1>1. /\ pc[p] = "replacing" /\ pc' = [pc EXCEPT ![p] = "marking"]
      /\ call' = [call EXCEPT ![p] = With(call[p], "receipts", Tail(call[p].receipts))]
  BY DEF ReplaceMarker, At, GoTo, Becomes, With
<1>2. Updates(call[p], With(call[p], "receipts", Tail(call[p].receipts)))
  BY <1>1, NotAPreview, OneUpdate DEF Fields, OfWrites
<1> QED
  BY <1>1, <1>2, WritesGoOn DEF OfWrites

LEMMA AdvanceStep == ASSUME PreviewInv, NEW p \in Procs, Advance(p) PROVE StepOf(p)
<1>1. pc[p] = "marking" /\ Harmless
  BY DEF Advance, At, Harmless
<1>2. IsCall(call[p]) /\ Fits(call[p], pc[p])
  BY <1>1, AtWork
<1>3. \/ Return(p)
      \/ /\ call[p].clean # << >> \/ call[p].held # << >>
         /\ call' = call /\ \E place : place # "idle" /\ pc' = [pc EXCEPT ![p] = place]
  BY DEF Advance, GoTo
<1>4. call[p].clean # << >> \/ call[p].held # << >> => ~IsDry(call[p])
  BY <1>1, <1>2 DEF Fits
<1> QED
  BY <1>1, <1>2, <1>3, <1>4, GoesOn, Returns

(* A preview writes no ledger, so none is left half-way. *)
LEMMA DieStep == ASSUME PreviewInv, NEW p \in Procs, Die(p) PROVE StepOf(p)
<1>1. Return(p) /\ UNCHANGED <<store, markers>> /\ ledger' \in Left(p) /\ pc[p] # "idle"
  BY DEF Die
<1>2. IsDry(call[p]) => pc[p] \notin LedgerPlaces
  BY <1>1, AtWork DEF Fits, LedgerPlaces
<1>3. IsDry(call[p]) => Harmless
  BY <1>1, <1>2 DEF PreviewInv, DraftsFit, DraftFits, Left, NoDraft, Harmless
<1> QED
  BY <1>1, <1>3, Returns

------------------------------------------------------------------------------
(* Steps that write nothing, and the four things a writer can do.          *)
LEMMA DraftsStay ==
  ASSUME PreviewInv, NEW p \in Procs, UNCHANGED <<ledger, draft>>,
         pc[p] \notin LedgerPlaces, pc'[p] \notin LedgerPlaces
  PROVE  DraftStep(p)
BY DEF PreviewInv, DraftsFit, DraftFits, DraftStep, OwnAlone

LEMMA WritersStart ==
  ASSUME PreviewInv, NEW p \in Procs, NEW file, StartWriting(p, file), pc'[p] \in LedgerPlaces
  PROVE  DraftStep(p) /\ draft'[p].file = file
<1>1. DOMAIN draft' = Procs /\ draft' = [q \in Procs |-> draft'[q]]
  BY DEF StartWriting
<1>2. /\ draft'[p].file = file /\ draft'[p].hold \in {"own", "shared"}
      /\ draft'[p].hold = "own" => Writing = {}
  BY DEF StartWriting
<1>3. ASSUME NEW q \in Procs \ {p}
      PROVE  /\ draft'[q].file = draft[q].file /\ DraftFits(draft'[q], pc[q]) /\ draft'[q].hold # "own"
             /\ Writing = {} => draft'[q].hold = "none"
  <2>1. draft'[q] = IF draft[q].hold = "own" THEN [draft[q] EXCEPT !.hold = "shared"] ELSE draft[q]
    BY DEF StartWriting
  <2>2. DraftFits(draft[q], pc[q])
    BY DEF PreviewInv, DraftsFit
  <2>3. CASE draft[q].hold = "own"
    <3>1. draft'[q].file = draft[q].file /\ draft'[q].hold \in {"shared", draft[q].hold}
      BY <2>1, <2>3
    <3>2. draft'[q].hold = "shared" /\ pc[q] \in LedgerPlaces /\ Writing # {}
      BY <2>1, <2>2, <2>3 DEF DraftFits, NoDraft, Writing
    <3> QED
      BY <3>1, <3>2 DEF DraftFits
  <2>4. CASE draft[q].hold # "own"
    BY <2>1, <2>2, <2>4 DEF Writing
  <2> QED
    BY <2>3, <2>4
<1>4. OwnAlone'
  BY <1>2, <1>3 DEF OwnAlone
<1> QED
  BY <1>1, <1>2, <1>3, <1>4 DEF DraftStep, DraftFits

(* Who else writes while p does is not alone. *)
LEMMA WritersAreNotAlone ==
  ASSUME PreviewInv, NEW p \in Procs, pc[p] \in LedgerPlaces, NEW q \in Procs \ {p}
  PROVE  draft[q].hold # "own"
BY DEF PreviewInv, DraftsFit, DraftFits, OwnAlone

LEMMA WritersStop ==
  ASSUME PreviewInv, NEW p \in Procs, StopWriting(p), ledger' \in Left(p), pc'[p] \notin LedgerPlaces
  PROVE  DraftStep(p) /\ draft'[p] = NoDraft
<1>1. /\ DOMAIN draft' = Procs /\ draft' = [q \in Procs |-> draft'[q]] /\ draft'[p] = NoDraft
      /\ \A q \in Procs \ {p} : draft'[q] = draft[q]
  BY DEF StopWriting, PreviewInv, DraftsFit
<1>2. ASSUME NEW q \in Procs \ {p}, draft[q].hold = "own" PROVE UNCHANGED ledger
  <2>1. pc[p] \notin LedgerPlaces
    BY <1>2, WritersAreNotAlone
  <2> QED
    BY <2>1 DEF PreviewInv, DraftsFit, DraftFits, Left, NoDraft
<1>3. OwnAlone'
  BY <1>1 DEF PreviewInv, DraftsFit, OwnAlone, NoDraft
<1> QED
  BY <1>1, <1>2, <1>3 DEF DraftStep, DraftFits, PreviewInv, DraftsFit

LEMMA WritersReplace ==
  ASSUME PreviewInv, NEW p \in Procs, ReplaceLedger(p)
  PROVE  DraftStep(p) /\ draft'[p] = NoDraft
<1>1. PICK moved \in SUBSET {q \in Procs \ {p} : draft[q].hold = "shared"} :
        draft' = [q \in Procs |-> IF q = p THEN NoDraft
                                  ELSE IF q \in moved THEN [draft[q] EXCEPT !.hold = "moved"]
                                  ELSE draft[q]]
  BY DEF ReplaceLedger
<1>2. DOMAIN draft' = Procs /\ draft' = [q \in Procs |-> draft'[q]] /\ draft'[p] = NoDraft
  BY <1>1
<1>3. pc[p] \in LedgerPlaces /\ pc'[p] \notin LedgerPlaces
  BY DEF ReplaceLedger, GoTo, LedgerPlaces, PreviewInv, Maps
<1>4. ASSUME NEW q \in Procs \ {p}
      PROVE  draft'[q].file = draft[q].file /\ DraftFits(draft'[q], pc[q]) /\ draft'[q].hold # "own"
  <2>1. DraftFits(draft[q], pc[q]) /\ draft[q].hold # "own"
    BY <1>3, WritersAreNotAlone DEF PreviewInv, DraftsFit
  <2>2. CASE q \in moved
    <3>1. draft'[q] = [draft[q] EXCEPT !.hold = "moved"] /\ draft[q].hold = "shared"
      BY <1>1, <2>2
    <3>2. draft'[q].file = draft[q].file /\ draft'[q].hold \in {"moved", draft[q].hold}
      BY <3>1
    <3> QED
      BY <2>1, <3>1, <3>2 DEF DraftFits, NoDraft
  <2>3. CASE q \notin moved
    BY <1>1, <2>1, <2>3
  <2> QED
    BY <2>2, <2>3
<1>5. OwnAlone'
  BY <1>2, <1>4 DEF OwnAlone, NoDraft
<1> QED
  BY <1>2, <1>3, <1>4, <1>5 DEF DraftStep, DraftFits

LEMMA WritersTear ==
  ASSUME PreviewInv, NEW p \in Procs, TearLedger(p)
  PROVE  DraftStep(p) /\ draft' = draft
<1>1. draft' = draft /\ pc' = pc /\ draft[p].hold = "moved"
  BY DEF TearLedger
<1>2. pc[p] \in LedgerPlaces
  BY <1>1 DEF PreviewInv, DraftsFit, DraftFits, NoDraft
<1>3. \A q \in Procs \ {p} : draft[q].hold # "own"
  BY <1>2, WritersAreNotAlone
<1> QED
  BY <1>1, <1>3 DEF DraftStep, PreviewInv, DraftsFit, OwnAlone

(* The steps of the gate. *)
LEMMA GateDraftStep ==
  ASSUME PreviewInv, NEW p \in Procs,
         \/ OpenGate(p) \/ SpendNext(p) \/ Answer(p) \/ CloseGate(p) \/ GateFails(p)
         \/ ReplaceLedger(p) \/ TearLedger(p) \/ KeepLedger(p)
  PROVE  DraftStep(p)
<1>1. \A place : GoTo(p, place) => pc'[p] = place
  BY DEF GoTo, PreviewInv, Maps
<1>2. CASE OpenGate(p)
  <2>1. pc[p] = "gate"
    BY <1>2 DEF OpenGate, At
  <2>2. \/ /\ UNCHANGED <<ledger, draft>>
           /\ Return(p) \/ \E place \in {"judged", "scoring"} : GoTo(p, place)
        \/ GoTo(p, "opening") /\ \E file : StartWriting(p, file)
    BY <1>2 DEF OpenGate, StartScoring
  <2> QED
    BY <1>1, <2>1, <2>2, DraftsStay, WritersStart DEF Return, LedgerPlaces
<1>3. CASE SpendNext(p)
  <2>1. pc[p] = "scoring"
    BY <1>3 DEF SpendNext, At
  <2>2. \/ UNCHANGED <<ledger, draft, pc>>
        \/ /\ \E place \in {"spending", "noting"} : GoTo(p, place)
           /\ \E file : StartWriting(p, file)
    BY <1>3 DEF SpendNext
  <2> QED
    BY <1>1, <2>1, <2>2, DraftsStay, WritersStart DEF LedgerPlaces
<1>4. CASE Answer(p)
  <2>1. pc[p] = "asking"
    BY <1>4 DEF Answer, At
  <2>2. \/ GoTo(p, "scoring") /\ UNCHANGED <<ledger, draft>>
        \/ GoTo(p, "noting") /\ \E file : StartWriting(p, file)
    BY <1>4 DEF Answer
  <2> QED
    BY <1>1, <2>1, <2>2, DraftsStay, WritersStart DEF LedgerPlaces
<1>5. CASE CloseGate(p)
  <2>1. pc[p] = "scoring" /\ GoTo(p, "judged") /\ UNCHANGED <<ledger, draft>>
    BY <1>5 DEF CloseGate, At
  <2> QED
    BY <1>1, <2>1, DraftsStay DEF LedgerPlaces
<1>6. CASE GateFails(p) \/ KeepLedger(p)
  <2>1. StopWriting(p) /\ ledger' \in Left(p) /\ \E place \in {"judged", "scoring"} : GoTo(p, place)
    BY <1>6 DEF GateFails, KeepLedger
  <2> QED
    BY <1>1, <2>1, WritersStop DEF LedgerPlaces
<1> QED
  BY <1>2, <1>3, <1>4, <1>5, <1>6, WritersReplace, WritersTear

(* Every other step leaves the drafts and the ledger alone. *)
OffLedger == {"idle", "writing", "marking", "held", "initiative", "gate", "judged", "batch",
              "proposing", "veto", "sending", "replacing"}
LEMMA OtherSteps ==
  ASSUME PreviewInv, NEW p \in Procs,
         \/ Set(p) \/ Import(p, "odin") \/ Import(p, "kvasir") \/ Load(p) \/ Dump(p) \/ Export(p)
         \/ QueueHeld(p) \/ CheckInitiative(p) \/ ResolveGroup(p) \/ Preflight(p) \/ PreflightHeld(p)
         \/ Veto(p) \/ Apply(p) \/ Send(p) \/ ReadMarker(p) \/ ReplaceMarker(p) \/ Advance(p)
  PROVE  DraftStep(p) /\ pc[p] \in OffLedger /\ pc'[p] \in OffLedger
<1> DEFINE Moves == UNCHANGED pc \/ Return(p) \/ \E place \in OffLedger : GoTo(p, place)
<1>1. pc[p] \in OffLedger /\ UNCHANGED <<ledger, draft>> /\ Moves
  <2>1. CASE Set(p) \/ Import(p, "odin") \/ Import(p, "kvasir") \/ Load(p) \/ Dump(p) \/ Export(p)
    <3>1. pc[p] \in OffLedger
      BY <2>1 DEF Set, Import, Load, Dump, Export, Begin, OffLedger
    <3>2. UNCHANGED <<ledger, draft>>
      BY <2>1 DEF Set, Import, Load, Dump, Export
    <3>3. Moves
      BY <2>1 DEF Set, Import, Load, Dump, Export, Receipt, Refuse, OffLedger
    <3> QED
      BY <3>1, <3>2, <3>3
  <2>2. CASE QueueHeld(p) \/ CheckInitiative(p) \/ ResolveGroup(p) \/ Preflight(p) \/ PreflightHeld(p)
    <3>1. pc[p] \in OffLedger
      BY <2>2 DEF QueueHeld, CheckInitiative, ResolveGroup, Preflight, PreflightHeld, At, OffLedger
    <3>2. UNCHANGED <<ledger, draft>>
      BY <2>2 DEF QueueHeld, CheckInitiative, ResolveGroup, Preflight, PreflightHeld
    <3>3. Moves
      BY <2>2 DEF QueueHeld, CheckInitiative, ResolveGroup, Preflight, PreflightHeld, OffLedger
    <3> QED
      BY <3>1, <3>2, <3>3
  <2>3. CASE Veto(p) \/ Apply(p) \/ Send(p) \/ ReadMarker(p) \/ ReplaceMarker(p) \/ Advance(p)
    <3>1. pc[p] \in OffLedger
      BY <2>3 DEF Veto, Apply, Send, ReadMarker, ReplaceMarker, Advance, At, OffLedger
    <3>2. UNCHANGED <<ledger, draft>>
      BY <2>3 DEF Veto, Apply, Send, ReadMarker, ReplaceMarker, Advance
    <3>3. Moves
      BY <2>3 DEF Veto, Apply, Send, ReadMarker, ReplaceMarker, Advance, Fail, OffLedger
    <3> QED
      BY <3>1, <3>2, <3>3
  <2> QED
    BY <2>1, <2>2, <2>3
<1>2. pc'[p] \in OffLedger
  BY <1>1 DEF Return, GoTo, PreviewInv, Maps, OffLedger
<1>3. OffLedger \cap LedgerPlaces = {}
  BY DEF LedgerPlaces, OffLedger
<1> QED
  BY <1>1, <1>2, <1>3, DraftsStay

------------------------------------------------------------------------------
(* A step of one process. *)
OneStep(p) ==
  \/ Set(p) \/ Import(p, "odin") \/ Import(p, "kvasir") \/ Load(p) \/ Dump(p) \/ Export(p)
  \/ Serve(p) \/ Die(p)

LEMMA StepsAreOfOne ==
  ASSUME PreviewInv, NEW p \in Procs, OneStep(p) PROVE StepOf(p) /\ DraftStep(p)
<1>1. StepOf(p)
  BY SetStep, ReadStep, DumpStep, ExportStep, QueueHeldStep, CheckInitiativeStep, OpenGateStep,
     ScoringStep, LedgerStep, GateEndsStep, ResolveGroupStep, PreflightStep, PreflightHeldStep,
     VetoStep, ApplyStep, SendStep, ReadMarkerStep, ReplaceMarkerStep, AdvanceStep, DieStep
     DEF OneStep, Serve
<1>2. CASE Die(p)
  <2>1. StopWriting(p) /\ ledger' \in Left(p) /\ pc'[p] = "idle"
    BY <1>2 DEF Die, Return, GoTo, PreviewInv, Maps
  <2> QED
    BY <1>1, <2>1, WritersStop DEF LedgerPlaces
<1> QED
  BY <1>1, <1>2, GateDraftStep, OtherSteps DEF OneStep, Serve

(* Every step is a step of one process. *)
LEMMA EveryStep == ASSUME PreviewInv, Next PROVE \E p \in Procs : OneStep(p) /\ StepOf(p) /\ DraftStep(p)
BY StepsAreOfOne DEF Next, OneStep

LEMMA PreviewsStart == Init => PreviewInv
BY DEF Init, PreviewInv, Maps, Placed, DraftsFit, DraftFits, OwnAlone, LedgerPlaces, NoDraft

LEMMA PreviewsAreKept == PreviewInv /\ [Next]_vars => PreviewInv'
<1> SUFFICES ASSUME PreviewInv, [Next]_vars PROVE PreviewInv'
  OBVIOUS
<1>1. CASE Next
  <2>1. PICK p \in Procs : StepOf(p) /\ DraftStep(p)
    BY <1>1, EveryStep
  <2>2. Maps' /\ Placed(call'[p], pc'[p])
    BY <2>1 DEF StepOf, Placed, Fits, IsCall, IsDry
  <2>3. \A q \in Procs : Placed(call'[q], pc'[q])
    BY <2>1, <2>2 DEF StepOf, PreviewInv
  <2>4. \A q \in Procs : DraftFits(draft'[q], pc'[q])
    BY <2>1 DEF StepOf, DraftStep
  <2>5. DraftsFit'
    BY <2>1, <2>4 DEF DraftStep, DraftsFit, DraftFits, NoDraft
  <2> QED
    BY <2>2, <2>3, <2>5 DEF PreviewInv, Placed, Fits, IsCall, IsDry
<1>2. CASE UNCHANGED vars
  <2>1. pc' = pc /\ call' = call /\ draft' = draft
    BY <1>2 DEF vars
  <2>2. Maps' /\ DraftsFit'
    BY <2>1 DEF PreviewInv, Maps, DraftsFit, DraftFits, OwnAlone
  <2> QED
    BY <2>1, <2>2 DEF PreviewInv, Placed, Fits, IsCall, IsDry
<1> QED
  BY <1>1, <1>2

(* --dryrun (set, export): a preview leaves the store, the attempts and the*)
(* markers as they are, whatever the gate, the batches and the proposals do*)
(* on the way, and whatever the other processes of the session do.         *)
THEOREM PreviewsSpendNothing == Spec => DryRunSpendsNothing
<1> DEFINE Frugal ==
      \A p \in Procs :
        Steps(p) /\ call[p] # NoCall /\ call[p].op \in {"export", "set"} /\ call[p].opts.dry =>
          UNCHANGED <<store, ledger, markers>>
<1>1. Init => PreviewInv
  BY PreviewsStart
<1>2. PreviewInv /\ [Next]_vars => [Frugal]_vars
  <2> SUFFICES ASSUME PreviewInv, Next, NEW p \in Procs, Steps(p), call[p] # NoCall, IsDry(call[p])
               PROVE  Harmless
    BY DEF Harmless, IsDry
  <2>1. PICK q \in Procs : StepOf(q)
    BY EveryStep
  <2>2. q = p
    BY <2>1 DEF StepOf, Steps
  <2>3. pc[p] # "idle"
    BY DEF PreviewInv, Placed
  <2> QED
    BY <2>1, <2>2, <2>3 DEF StepOf
<1> QED
  BY <1>1, <1>2, PreviewsAreKept, PTL DEF Spec, DryRunSpendsNothing

------------------------------------------------------------------------------
(* Sequences, said without the set of their elements. *)
LEMMA SequencesAre ==
  ASSUME NEW s, NEW S, s \in Seq(S)
  PROVE  IsSequence(s) /\ ToSet(s) \subseteq S
<1>1. Len(s) \in Nat /\ DOMAIN s = 1..Len(s) /\ s \in [1..Len(s) -> S]
  BY LenProperties
<1>2. ToSet(s) \subseteq S
  BY <1>1 DEF ToSet
<1>3. s \in [1..Len(s) -> ToSet(s)]
  BY <1>1 DEF ToSet
<1>4. s \in Seq(ToSet(s))
  BY <1>1, <1>3, SeqDef
<1> QED
  BY <1>2, <1>4 DEF IsSequence

LEMMA SequencesHave ==
  ASSUME NEW s, IsSequence(s)
  PROVE  /\ Len(s) \in Nat /\ DOMAIN s = 1..Len(s) /\ s = [n \in 1..Len(s) |-> s[n]]
         /\ \A n \in 1..Len(s) : s[n] \in ToSet(s)
         /\ \A x \in ToSet(s) : \E n \in 1..Len(s) : s[n] = x
         /\ s # << >> <=> Len(s) # 0
<1>1. s \in Seq(ToSet(s))
  BY DEF IsSequence
<1>2. Len(s) \in Nat /\ DOMAIN s = 1..Len(s) /\ s \in [1..Len(s) -> ToSet(s)]
  BY <1>1, LenProperties
<1>3. s # << >> <=> Len(s) # 0
  BY <1>1, EmptySeq
<1> QED
  BY <1>2, <1>3 DEF ToSet

LEMMA TableIsSequence ==
  ASSUME NEW n \in Nat, NEW s, DOMAIN s = 1..n, s = [k \in 1..n |-> s[k]]
  PROVE  IsSequence(s) /\ Len(s) = n
<1>1. s \in [1..n -> ToSet(s)]
  BY DEF ToSet
<1>2. s \in Seq(ToSet(s))
  BY <1>1, SeqDef
<1> QED
  BY <1>2, LenProperties DEF IsSequence

LEMMA EmptyIsSequence == IsSequence(<< >>) /\ ToSet(<< >>) = {}
<1>1. << >> \in Seq({})
  BY EmptySeq
<1>2. ToSet(<< >>) = {}
  BY DEF ToSet
<1> QED
  BY <1>1, <1>2 DEF IsSequence

LEMMA AppendIsSequence ==
  ASSUME NEW s, IsSequence(s), NEW x
  PROVE  /\ IsSequence(Append(s, x)) /\ Append(s, x) # << >>
         /\ ToSet(Append(s, x)) = ToSet(s) \cup {x}
         /\ Len(Append(s, x)) = Len(s) + 1 /\ Append(s, x)[Len(s) + 1] = x
         /\ \A n \in 1..Len(s) : Append(s, x)[n] = s[n]
<1> DEFINE S == ToSet(s) \cup {x}
           t == Append(s, x)
<1>1. s \in Seq(S)
  BY SeqMonotonic DEF IsSequence
<1>2. /\ t \in Seq(S) /\ t # << >> /\ Len(t) = Len(s) + 1 /\ t[Len(s) + 1] = x
      /\ \A n \in 1..Len(s) : t[n] = s[n]
  BY <1>1, AppendProperties
<1> HIDE DEF t
<1>3. IsSequence(t) /\ ToSet(t) \subseteq S
  BY <1>2, SequencesAre
<1>4. Len(s) \in Nat
  BY SequencesHave
<1>5. x \in ToSet(t)
  BY <1>2, <1>3, <1>4, SequencesHave
<1>6. ToSet(s) \subseteq ToSet(t)
  <2> SUFFICES ASSUME NEW y \in ToSet(s) PROVE y \in ToSet(t)
    OBVIOUS
  <2>1. PICK n \in 1..Len(s) : s[n] = y
    BY SequencesHave
  <2>2. t[n] = y /\ n \in 1..Len(t)
    BY <1>2, <1>4, <2>1
  <2> QED
    BY <1>3, <2>2, SequencesHave
<1> QED
  BY <1>2, <1>3, <1>5, <1>6 DEF t

LEMMA ConcatIsSequence ==
  ASSUME NEW s, IsSequence(s), NEW t, IsSequence(t)
  PROVE  IsSequence(s \o t) /\ ToSet(s \o t) \subseteq ToSet(s) \cup ToSet(t)
<1> DEFINE S == ToSet(s) \cup ToSet(t)
<1>1. s \in Seq(S) /\ t \in Seq(S)
  BY SeqMonotonic DEF IsSequence
<1> QED
  BY <1>1, ConcatProperties, SequencesAre

LEMMA TailIsSequence ==
  ASSUME NEW s, IsSequence(s), s # << >>
  PROVE  /\ Head(s) \in ToSet(s) /\ Head(s) = s[1]
         /\ IsSequence(Tail(s)) /\ ToSet(Tail(s)) \subseteq ToSet(s)
<1>1. s \in Seq(ToSet(s))
  BY DEF IsSequence
<1>2. Head(s) \in ToSet(s) /\ Tail(s) \in Seq(ToSet(s))
  BY <1>1, HeadTailProperties
<1>3. Head(s) = s[1]
  BY <1>1
<1>4. IsSequence(Tail(s)) /\ ToSet(Tail(s)) \subseteq ToSet(s)
  BY <1>2, SequencesAre
<1> QED
  BY <1>2, <1>3, <1>4

LEMMA PartIsSequence ==
  ASSUME NEW s, IsSequence(s), NEW m \in Nat \ {0}, NEW n \in Int, n <= Len(s)
  PROVE  IsSequence(SubSeq(s, m, n)) /\ ToSet(SubSeq(s, m, n)) \subseteq ToSet(s)
<1>1. \A i \in m..n : s[i] \in ToSet(s)
  BY SequencesHave
<1>2. SubSeq(s, m, n) \in Seq(ToSet(s))
  BY <1>1, SubSeqProperties
<1> QED
  BY <1>2, SequencesAre

(* AtPlaces has what is at the places, and no more. *)
LEMMA PlacesArePicked ==
  ASSUME NEW s, IsSequence(s), NEW D \in SUBSET DOMAIN s
  PROVE  IsSequence(AtPlaces(s, D)) /\ ToSet(AtPlaces(s, D)) = {s[n] : n \in D}
<1> DEFINE rank(n) == Cardinality({m \in D : m <= n})
           r == [n \in D |-> rank(n)]
           k == Cardinality(D)
           t == AtPlaces(s, D)
<1>1. DOMAIN s \subseteq Nat /\ IsFiniteSet(DOMAIN s)
  <2>1. DOMAIN s = 1..Len(s) /\ Len(s) \in Nat
    BY SequencesHave
  <2>2. IsFiniteSet(1..Len(s))
    BY <2>1, FS_Interval
  <2> QED
    BY <2>1, <2>2
<1>2. IsFiniteSet(D) /\ D \subseteq Nat /\ k \in Nat
  BY <1>1, FS_Subset, FS_CardinalityType
<1>3. ASSUME NEW n \in D PROVE rank(n) \in 1..k
  <2> DEFINE B == {m \in D : m <= n}
  <2>1. B \in SUBSET D /\ n \in B
    BY <1>2
  <2> HIDE DEF B
  <2>2. IsFiniteSet(B) /\ Cardinality(B) <= k
    BY <1>2, <2>1, FS_Subset
  <2>3. Cardinality(B) \in Nat /\ Cardinality(B) # 0
    BY <2>1, <2>2, FS_CardinalityType, FS_EmptySet
  <2> QED
    BY <1>2, <2>2, <2>3 DEF B
<1>4. ASSUME NEW m \in D, NEW n \in D, m < n PROVE rank(m) # rank(n)
  <2> DEFINE A == {l \in D : l <= m}
             B == {l \in D : l <= n}
  <2>1. A \in SUBSET B /\ n \in B /\ n \notin A /\ B \in SUBSET D
    BY <1>2, <1>4
  <2> HIDE DEF A, B
  <2>2. IsFiniteSet(B)
    BY <1>2, <2>1, FS_Subset
  <2>3. Cardinality(B) = Cardinality(A) => B = A
    BY <2>1, <2>2, FS_Subset
  <2>4. Cardinality(A) # Cardinality(B)
    BY <2>1, <2>3
  <2> QED
    BY <2>4 DEF A, B
<1> HIDE DEF rank
<1>5. r \in Injection(D, 1..k)
  <2>1. r \in [D -> 1..k]
    BY <1>3
  <2>2. ASSUME NEW m \in D, NEW n \in D, r[m] = r[n] PROVE m = n
    <3>1. ~(m < n) /\ ~(n < m)
      BY <1>4, <2>2
    <3> QED
      BY <1>2, <3>1
  <2> QED
    BY <2>1, <2>2 DEF Injection, IsInjective
<1>6. Cardinality(1..k) = k /\ IsFiniteSet(1..k)
  BY <1>2, FS_Interval
<1>7. r \in Surjection(D, 1..k)
  <2> HIDE DEF r, k
  <2>1. Cardinality(D) = Cardinality(1..k)
    BY <1>6 DEF k
  <2> QED
    BY <1>5, <1>6, <2>1, FS_Injection
<1>8. \A j \in 1..k : \E n \in D : rank(n) = j
  BY <1>7 DEF Surjection
<1>9. DOMAIN t = 1..k /\ t = [j \in 1..k |-> t[j]]
      /\ \A j \in 1..k : t[j] = s[CHOOSE n \in D : rank(n) = j]
  BY DEF AtPlaces, rank
<1>10. IsSequence(t) /\ Len(t) = k
  <2> HIDE DEF t, k
  <2> QED
    BY <1>2, <1>9, TableIsSequence
<1>11. ToSet(t) \subseteq {s[n] : n \in D}
  BY <1>8, <1>9 DEF ToSet
<1>12. ASSUME NEW n \in D PROVE s[n] \in ToSet(t)
  <2>1. rank(n) \in 1..k
    BY <1>3
  <2> DEFINE l == CHOOSE l \in D : rank(l) = rank(n)
  <2>2. l \in D /\ rank(l) = rank(n)
    OBVIOUS
  <2> HIDE DEF l
  <2>3. l = n
    <3>1. ~(l < n) /\ ~(n < l)
      BY <1>4, <2>2
    <3> QED
      BY <1>2, <2>2, <3>1
  <2>4. t[rank(n)] = s[n]
    BY <1>9, <2>1, <2>3 DEF l
  <2> QED
    BY <1>9, <2>1, <2>4 DEF ToSet
<1> QED
  BY <1>10, <1>11, <1>12

------------------------------------------------------------------------------
(* What a batch does to the store. *)
Histories(st) == \A id \in DOMAIN st : IsSequence(st[id]) /\ st[id] # << >>
Continues(new, old) == Head(new) = Head(old) /\ ToSet(old) \subseteq ToSet(new)
(* A store after the first items of a batch. *)
Stored(st, items, k, new) ==
  /\ DOMAIN new = DOMAIN st \cup {Target(items[m]) : m \in 1..k}
  /\ Histories(new)
  /\ \A id \in DOMAIN new : \A v \in ToSet(new[id]) :
       (id \in DOMAIN st /\ v \in ToSet(st[id])) \/ \E m \in 1..k : v = Version(items[m])
  /\ \A id \in DOMAIN st : Continues(new[id], st[id])
  /\ \A id \in DOMAIN st : id \notin {Target(items[m]) : m \in 1..k} => new[id] = st[id]
  /\ \A m \in 1..k : Version(items[m]) \in ToSet(new[Target(items[m])])

(* A store after one item. *)
StoredOne(st, item, id, new) ==
  /\ DOMAIN new = DOMAIN st \cup {id} /\ Histories(new)
  /\ \A i \in DOMAIN st : i # id => new[i] = st[i]
  /\ id \in DOMAIN st => Continues(new[id], st[id])
  /\ Version(item) \in ToSet(new[id])
  /\ \A v \in ToSet(new[id]) : (id \in DOMAIN st /\ v \in ToSet(st[id])) \/ v = Version(item)

LEMMA PutStoresOne ==
  ASSUME NEW st, Histories(st), NEW item
  PROVE  StoredOne(st, item, Target(item), Put(st, item))
<1> DEFINE id == Target(item)
           new == Put(st, item)
           old == IF id \in DOMAIN st THEN st[id] ELSE << >>
           put == IF old # << >> /\ Last(old) = Version(item) THEN old ELSE Append(old, Version(item))
<1>1. /\ new = [i \in DOMAIN st \cup {id} |-> IF i = id THEN put ELSE st[i]]
      /\ DOMAIN new = DOMAIN st \cup {id} /\ new[id] = put
      /\ \A i \in DOMAIN st : i # id => new[i] = st[i]
  BY DEF Put
<1>2. IsSequence(old)
  BY EmptyIsSequence DEF Histories
<1>3. IsSequence(put) /\ put # << >> /\ Version(item) \in ToSet(put)
      /\ ToSet(old) \subseteq ToSet(put) /\ ToSet(put) \subseteq ToSet(old) \cup {Version(item)}
      /\ (old # << >> => Head(put) = Head(old))
  <2> DEFINE v == Version(item)
  <2> HIDE DEF v, old
  <2>1. CASE old # << >> /\ Last(old) = v
    <3>1. put = old
      BY <2>1 DEF v
    <3>2. v \in ToSet(old)
      BY <1>2, <2>1, SequencesHave DEF Last
    <3> QED
      BY <1>2, <2>1, <3>1, <3>2 DEF v
  <2>2. CASE ~(old # << >> /\ Last(old) = v)
    <3>1. put = Append(old, v)
      BY <2>2 DEF v
    <3>2. /\ IsSequence(put) /\ put # << >> /\ ToSet(put) = ToSet(old) \cup {v}
          /\ \A n \in 1..Len(old) : put[n] = old[n]
      BY <1>2, <3>1, AppendIsSequence
    <3> HIDE DEF put
    <3>3. old # << >> => Head(put) = Head(old)
      <4> SUFFICES ASSUME old # << >> PROVE Head(put) = Head(old)
        OBVIOUS
      <4>1. Head(put) = put[1] /\ Head(old) = old[1]
        BY <1>2, <3>2, TailIsSequence
      <4>2. 1 \in 1..Len(old)
        BY <1>2, SequencesHave
      <4> QED
        BY <3>2, <4>1, <4>2
    <3> QED
      BY <3>2, <3>3 DEF v
  <2> QED
    BY <2>1, <2>2
<1>4. ToSet(<< >>) = {}
  BY EmptyIsSequence
<1>5. id \in DOMAIN st => old = st[id] /\ old # << >>
  BY DEF Histories
<1>6. \A v \in ToSet(old) : id \in DOMAIN st /\ v \in ToSet(st[id])
  BY <1>4
<1> HIDE DEF put, old
<1>7. Histories(new)
  BY <1>1, <1>3 DEF Histories
<1>8. id \in DOMAIN st => Continues(new[id], st[id])
  BY <1>1, <1>3, <1>5 DEF Continues
<1>9. \A v \in ToSet(new[id]) : (id \in DOMAIN st /\ v \in ToSet(st[id])) \/ v = Version(item)
  BY <1>1, <1>3, <1>6
<1> HIDE DEF new, id
<1>10. Version(item) \in ToSet(new[id])
  BY <1>1, <1>3
<1> QED
  BY <1>1, <1>7, <1>8, <1>9, <1>10 DEF new, id, StoredOne

LEMMA LeastNumber ==
  ASSUME NEW S \in SUBSET Nat, S # {}
  PROVE  \E n \in S : \A m \in S : n <= m
<1>1. PICK n \in S : \A m \in S : ~(<<m, n>> \in OpToRel(<, Nat))
  BY WFMin, NatLessThanWellFounded
<1>2. \A m \in S : ~(m < n)
  BY <1>1 DEF OpToRel
<1> QED
  BY <1>2

(* The stores of a batch, item after item. *)
IsRun(f, st, items, k) ==
  f = [n \in 0..k |-> IF n = 0 THEN st ELSE Put(f[n - 1], items[n])]
LEMMA RunsExist ==
  ASSUME NEW st, NEW items, NEW k \in Nat
  PROVE  \E f : IsRun(f, st, items, k)
<1> DEFINE S == {n \in Nat : ~\E f : IsRun(f, st, items, n)}
<1> SUFFICES ASSUME S # {} PROVE FALSE
  OBVIOUS
<1>1. PICK n \in S : \A m \in S : n <= m
  <2> HIDE DEF S
  <2>1. S \in SUBSET Nat
    BY DEF S
  <2> QED
    BY <2>1, LeastNumber
<1>2. n # 0
  <2> DEFINE f == [m \in 0..0 |-> st]
  <2>1. IsRun(f, st, items, 0)
    BY DEF IsRun
  <2> QED
    BY <2>1
<1>3. PICK f : IsRun(f, st, items, n - 1)
  BY <1>1, <1>2
<1> DEFINE g == [m \in 0..n |-> IF m = n THEN Put(f[n - 1], items[n]) ELSE f[m]]
<1>4. IsRun(g, st, items, n)
  <2>1. DOMAIN g = 0..n /\ g[n] = Put(f[n - 1], items[n]) /\ \A m \in 0..(n - 1) : g[m] = f[m]
    BY <1>2
  <2>2. \A m \in 0..(n - 1) : f[m] = IF m = 0 THEN st ELSE Put(f[m - 1], items[m])
    BY <1>3 DEF IsRun
  <2> HIDE DEF g
  <2>3. g[n] = Put(g[n - 1], items[n])
    BY <1>2, <2>1
  <2>4. \A m \in 0..(n - 1) : g[m] = IF m = 0 THEN st ELSE Put(g[m - 1], items[m])
    BY <2>1, <2>2
  <2>5. \A m \in 0..n : g[m] = IF m = 0 THEN st ELSE Put(g[m - 1], items[m])
    BY <1>2, <2>3, <2>4
  <2>6. g = [m \in 0..n |-> g[m]]
    BY DEF g
  <2> QED
    BY <2>1, <2>5, <2>6 DEF IsRun
<1> QED
  BY <1>4

LEMMA PutAllStores ==
  ASSUME NEW st, Histories(st), NEW items, IsSequence(items)
  PROVE  Stored(st, items, Len(items), PutAll(st, items))
<1> DEFINE K == Len(items)
<1>1. K \in Nat
  BY SequencesHave
<1>2. PICK f : IsRun(f, st, items, K) /\ PutAll(st, items) = f[K]
  <2> DEFINE after == CHOOSE f : IsRun(f, st, items, K)
  <2>1. PutAll(st, items) = after[K]
    BY DEF PutAll, IsRun
  <2>2. IsRun(after, st, items, K)
    BY <1>1, RunsExist
  <2> QED
    BY <2>1, <2>2
<1> DEFINE S == {n \in 0..K : ~Stored(st, items, n, f[n])}
<1>3. S = {}
  <2> SUFFICES ASSUME S # {} PROVE FALSE
    OBVIOUS
  <2>1. PICK n \in S : \A m \in S : n <= m
    <3> HIDE DEF S
    <3>1. S \in SUBSET Nat
      BY DEF S
    <3> QED
      BY <3>1, LeastNumber
  <2>2. n # 0
    <3>1. f[0] = st
      BY <1>1, <1>2 DEF IsRun
    <3>2. Stored(st, items, 0, st)
      <4>1. 1..0 = {}
        OBVIOUS
      <4>2. {Target(items[m]) : m \in 1..0} = {}
        BY <4>1
      <4> QED
        BY <4>1, <4>2 DEF Stored, Continues
    <3> QED
      BY <2>1, <3>1, <3>2
  <2>3. n - 1 \in 0..K /\ n \in 1..K
    BY <1>1, <2>2
  <2> DEFINE old == f[n - 1]
             item == items[n]
             new == f[n]
  <2>4. Stored(st, items, n - 1, old)
    BY <2>1, <2>3
  <2>5. new = Put(old, item)
    BY <1>2, <2>3 DEF IsRun
  <2> HIDE DEF old, new
  <2>6. Histories(old)
    BY <2>4 DEF Stored
  <2> DEFINE id == Target(item)
  <2>7. /\ DOMAIN new = DOMAIN old \cup {id} /\ Histories(new)
        /\ \A i \in DOMAIN old : i # id => new[i] = old[i]
        /\ id \in DOMAIN old => Continues(new[id], old[id])
        /\ Version(item) \in ToSet(new[id])
        /\ \A v \in ToSet(new[id]) : (id \in DOMAIN old /\ v \in ToSet(old[id])) \/ v = Version(item)
    <3>1. StoredOne(old, item, id, new)
      BY <2>5, <2>6, PutStoresOne
    <3> HIDE DEF item, id
    <3> QED
      BY <3>1 DEF StoredOne
  <2>8. Stored(st, items, n, new)
    <3>1. 1..n = 1..(n - 1) \cup {n}
      BY <2>3
    <3>2. {Target(items[m]) : m \in 1..n} = {Target(items[m]) : m \in 1..(n - 1)} \cup {id}
      BY <3>1
    <3>3. DOMAIN new = DOMAIN st \cup {Target(items[m]) : m \in 1..n}
      BY <2>4, <2>7, <3>2 DEF Stored
    <3>4. ASSUME NEW i \in DOMAIN new, NEW v \in ToSet(new[i])
          PROVE  (i \in DOMAIN st /\ v \in ToSet(st[i])) \/ \E m \in 1..n : v = Version(items[m])
      <4>1. (i \in DOMAIN old /\ v \in ToSet(old[i])) \/ v = Version(item)
        BY <2>7, <3>4
      <4>2. (i \in DOMAIN st /\ v \in ToSet(st[i])) \/ (\E m \in 1..(n - 1) : v = Version(items[m]))
              \/ v = Version(item)
        BY <2>4, <4>1 DEF Stored
      <4> QED
        BY <3>1, <4>2
    <3>5. ASSUME NEW i \in DOMAIN st PROVE Continues(new[i], st[i])
      <4>1. i \in DOMAIN old /\ Continues(old[i], st[i])
        BY <2>4 DEF Stored
      <4>2. new[i] = old[i] \/ Continues(new[i], old[i])
        BY <2>7, <4>1
      <4> QED
        BY <4>1, <4>2 DEF Continues
    <3>6. ASSUME NEW i \in DOMAIN st, i \notin {Target(items[m]) : m \in 1..n} PROVE new[i] = st[i]
      BY <2>4, <2>7, <3>2, <3>6 DEF Stored
    <3>7. ASSUME NEW m \in 1..n PROVE Version(items[m]) \in ToSet(new[Target(items[m])])
      <4>1. CASE m = n
        BY <2>7, <4>1
      <4>2. CASE m # n
        <5>1. m \in 1..(n - 1)
          BY <3>1, <4>2
        <5> DEFINE t == Target(items[m])
        <5>2. t \in DOMAIN old /\ Version(items[m]) \in ToSet(old[t])
          BY <2>4, <5>1 DEF Stored
        <5>3. new[t] = old[t] \/ Continues(new[t], old[t])
          BY <2>7, <5>2
        <5> QED
          BY <5>2, <5>3 DEF Continues
      <4> QED
        BY <4>1, <4>2
    <3> QED
      BY <2>7, <3>3, <3>4, <3>5, <3>6, <3>7 DEF Stored
  <2> QED
    BY <2>1, <2>8 DEF new
<1> QED
  BY <1>1, <1>2, <1>3

------------------------------------------------------------------------------
(* What every state has: text the redactor has seen wherever text is kept, *)
(* receipts that are true of the store, attempts within the settings, and  *)
(* new ids that nobody else uses.                                          *)
IsScrubbed(s) == IsSequence(s) /\ \A c \in ToSet(s) : c.body \in Scrubs
Statuses == {"approved", "proposed"}
IsStore(st, n) ==
  /\ DOMAIN st \subseteq 1..n /\ Histories(st)
  /\ \A id \in DOMAIN st : \A v \in ToSet(st[id]) : v.body \in Scrubs /\ v.status \in Statuses

(* What a process is about to send: a new item has an id of its own, a     *)
(* proposal is new, and an item of an export that is not is the version of *)
(* a memory with its subject.                                              *)
Busy == {"veto", "writing", "sending"}
Same(i, j) == i.uuid = j.uuid /\ i.create = j.create /\ i.subject = j.subject /\ i.status = j.status
Fresh(c, place) == IF place \in Busy THEN {i.create : i \in {j \in ToSet(c.items) : j.uuid = None}} ELSE {}
ItemsFit(c, st) ==
  /\ IsSequence(c.items)
  /\ \A i \in ToSet(c.items) :
       /\ DOMAIN i = {"uuid", "create", "subject", "body", "status"}
       /\ i.body \in DOMAIN Redacted /\ i.status \in Statuses
       /\ c.proposing => i.uuid = None
       /\ c.op = "export" /\ i.uuid # None =>
            i.uuid \in DOMAIN st /\ Head(st[i.uuid]).subject = i.subject
SentFits(c) ==
  /\ IsScrubbed(c.sent)
  /\ \A s \in ToSet(c.sent) : \E i \in ToSet(c.items) : Same(s, i)
  /\ \A i \in ToSet(c.items) : i.uuid = None => \E s \in ToSet(c.sent) : Same(s, i)
IsReceipt(r, st) == r.skill \in {"odin", "kvasir"} /\ IsTrueOf(r.entry, st)
CallHas(c, st) ==
  /\ IsScrubbed(c.clean) /\ IsScrubbed(c.held) /\ IsScrubbed(c.gated)
  /\ c.settings \in Settings /\ c.attempt \in 0..MostAttempts
  /\ IsSequence(c.receipts) /\ \A r \in ToSet(c.receipts) : IsReceipt(r, st)
CallFits(c, place, st, n) ==
  /\ CallHas(c, st)
  /\ place \in Busy => ItemsFit(c, st)
  /\ place = "sending" => SentFits(c)
  /\ Fresh(c, place) \subseteq (1..n) \ DOMAIN st
CopyFits(cp, place, st) ==
  /\ cp # << >> <=> place = "replacing"
  /\ IsSequence(cp) /\ \A e \in ToSet(cp) : IsTrueOf(e, st)

MarkersFit(m, st) ==
  /\ \A p \in Procs : Session(p) # NoSession => {"odin", "kvasir"} \X {Session(p)} \subseteq DOMAIN m
  /\ \A key \in DOMAIN m : AreTrueOf(m[key], st)
LedgerFits(l) == IsLedger(l) => \A k \in DOMAIN l : l[k].attempts \in 0..MostAttempts
(* The file, and what the processes are writing to it.                     *)
LedgersFit(l, d) == LedgerFits(l) /\ \A p \in Procs : LedgerFits(d[p].file)
DumpsFit(ds) ==
  /\ IsSequence(ds)
  /\ \A d \in ToSet(ds) :
       /\ IsSequence(d.records)
       /\ \A c \in ToSet(d.records) : "body" \in DOMAIN c /\ c.body \in Scrubs \cup {None}
QueueFits(q) == \A e \in q : e.body \in Scrubs

SessionInv ==
  /\ PreviewInv
  /\ minted \in Nat /\ IsStore(store, minted)
  /\ MarkersFit(markers, store) /\ LedgersFit(ledger, draft) /\ DumpsFit(dumps) /\ QueueFits(queue)
  /\ DOMAIN copy = Procs /\ copy = [p \in Procs |-> copy[p]]
  /\ \A p \in Procs :
       /\ pc[p] \in Places /\ CopyFits(copy[p], pc[p], store)
       /\ pc[p] # "idle" => CallFits(call[p], pc[p], store, minted)
  /\ \A p, q \in Procs : p # q => Fresh(call[p], pc[p]) \cap Fresh(call[q], pc[q]) = {}

(* A store that was only added to. *)
Grown(new, old) == \A id \in DOMAIN old : id \in DOMAIN new /\ Continues(new[id], old[id])

LEMMA GrownIsReflexive == ASSUME NEW st PROVE Grown(st, st)
BY DEF Grown, Continues

LEMMA ReceiptsStayTrue ==
  ASSUME NEW new, NEW old, Grown(new, old), NEW e, IsTrueOf(e, old)
  PROVE  IsTrueOf(e, new)
<1> SUFFICES ASSUME NEW i \in e.items, e.verb = "export"
             PROVE  i.id \in DOMAIN new /\ \E n \in DOMAIN new[i.id] : new[i.id][n].subject = i.subject
  BY DEF IsTrueOf
<1>1. PICK n \in DOMAIN old[i.id] : i.id \in DOMAIN old /\ old[i.id][n].subject = i.subject
  BY DEF IsTrueOf
<1>2. i.id \in DOMAIN new /\ old[i.id][n] \in ToSet(new[i.id])
  BY <1>1 DEF Grown, Continues, ToSet
<1> QED
  BY <1>1, <1>2 DEF ToSet

LEMMA CallsStayFit ==
  ASSUME NEW new, NEW old, Grown(new, old), NEW m \in Nat, NEW n \in Nat, n <= m, NEW c, NEW place,
         CallFits(c, place, old, n), Fresh(c, place) \cap DOMAIN new = {}
  PROVE  CallFits(c, place, new, m)
<1>1. CallHas(c, new)
  BY ReceiptsStayTrue DEF CallFits, CallHas, IsReceipt
<1>2. ItemsFit(c, old) => ItemsFit(c, new)
  BY DEF ItemsFit, Grown, Continues
<1>3. Fresh(c, place) \subseteq 1..m
  BY DEF CallFits
<1> QED
  BY <1>1, <1>2, <1>3 DEF CallFits

(* A step of one process: what it may do to the rest. *)
LEMMA StepsKeepSession ==
  ASSUME SessionInv, NEW p \in Procs, StepOf(p), PreviewInv',
         minted' \in Nat, minted <= minted', IsStore(store', minted'), Grown(store', store),
         DOMAIN store' \subseteq DOMAIN store \cup Fresh(call[p], pc[p]),
         MarkersFit(markers', store'), LedgersFit(ledger', draft'), DumpsFit(dumps'), QueueFits(queue'),
         NEW cp, copy' = [copy EXCEPT ![p] = cp], CopyFits(cp, pc'[p], store'),
         pc'[p] \in Places,
         pc'[p] # "idle" => CallFits(call'[p], pc'[p], store', minted'),
         Fresh(call'[p], pc'[p]) \subseteq Fresh(call[p], pc[p]) \cup (minted + 1)..minted'
  PROVE  SessionInv'
<1>1. \A q \in Procs \ {p} : pc'[q] = pc[q] /\ call'[q] = call[q]
  BY DEF StepOf
<1>2. /\ DOMAIN copy' = Procs /\ copy' = [q \in Procs |-> copy'[q]] /\ copy'[p] = cp
      /\ \A q \in Procs \ {p} : copy'[q] = copy[q]
  BY DEF SessionInv
<1>3. ASSUME NEW q \in Procs \ {p}
      PROVE  /\ pc'[q] \in Places /\ CopyFits(copy'[q], pc'[q], store')
             /\ pc'[q] # "idle" => CallFits(call'[q], pc'[q], store', minted')
  <2>1. pc[q] \in Places /\ CopyFits(copy[q], pc[q], store)
        /\ (pc[q] # "idle" => CallFits(call[q], pc[q], store, minted)) /\ minted \in Nat
    BY DEF SessionInv
  <2>2. CopyFits(copy[q], pc[q], store')
    BY <2>1, ReceiptsStayTrue DEF CopyFits
  <2>3. Fresh(call[q], pc[q]) \cap DOMAIN store' = {}
    <3>1. Fresh(call[q], pc[q]) \cap Fresh(call[p], pc[p]) = {}
      BY DEF SessionInv
    <3>2. Fresh(call[q], pc[q]) \cap DOMAIN store = {}
      <4>1. CASE pc[q] = "idle"
        BY <4>1 DEF Fresh, Busy
      <4> QED
        BY <2>1, <4>1 DEF CallFits
    <3> QED
      BY <3>1, <3>2
  <2>4. pc[q] # "idle" => CallFits(call[q], pc[q], store', minted')
    BY <2>1, <2>3, CallsStayFit
  <2> QED
    BY <1>1, <1>2, <2>1, <2>2, <2>4
<1>4. ASSUME NEW q \in Procs \ {p} PROVE Fresh(call'[p], pc'[p]) \cap Fresh(call'[q], pc'[q]) = {}
  <2>1. Fresh(call[q], pc[q]) \cap Fresh(call[p], pc[p]) = {}
    BY DEF SessionInv
  <2>2. Fresh(call[q], pc[q]) \subseteq 1..minted /\ minted \in Nat
    <3>1. CASE pc[q] = "idle"
      BY <3>1 DEF Fresh, Busy, SessionInv
    <3> QED
      BY <3>1 DEF SessionInv, CallFits
  <2>3. Fresh(call[q], pc[q]) \cap (minted + 1)..minted' = {}
    BY <2>2
  <2> QED
    BY <1>1, <2>1, <2>3
<1>5. ASSUME NEW q \in Procs, NEW r \in Procs, q # r
      PROVE  Fresh(call'[q], pc'[q]) \cap Fresh(call'[r], pc'[r]) = {}
  <2>1. CASE q # p /\ r # p
    BY <1>1, <1>5, <2>1 DEF SessionInv
  <2> QED
    BY <1>4, <1>5, <2>1
<1>6. \A q \in Procs : /\ pc'[q] \in Places /\ CopyFits(copy'[q], pc'[q], store')
                       /\ pc'[q] # "idle" => CallFits(call'[q], pc'[q], store', minted')
  BY <1>2, <1>3
<1>7. Placed(call[p], pc[p])'
  BY DEF StepOf
<1> QED
  BY <1>2, <1>5, <1>6 DEF SessionInv

(* A step that leaves the store, the markers and the copies as they are.   *)
LEMMA OrdinaryStep ==
  ASSUME SessionInv, NEW p \in Procs, StepOf(p), PreviewInv', UNCHANGED <<store, markers, copy>>,
         minted' \in Nat, minted <= minted', LedgersFit(ledger', draft'), DumpsFit(dumps'), QueueFits(queue'),
         pc[p] # "replacing", pc'[p] \in Places \ {"replacing"},
         pc'[p] # "idle" => CallFits(call'[p], pc'[p], store, minted'),
         Fresh(call'[p], pc'[p]) \subseteq Fresh(call[p], pc[p]) \cup (minted + 1)..minted'
  PROVE  SessionInv'
<1>1. copy' = [copy EXCEPT ![p] = copy[p]]
  BY DEF SessionInv
<1>2. CopyFits(copy[p], pc'[p], store)
  BY DEF SessionInv, CopyFits
<1>3. IsStore(store', minted')
  BY DEF SessionInv, IsStore
<1>4. MarkersFit(markers', store') /\ Grown(store', store)
  BY GrownIsReflexive DEF SessionInv
<1> QED
  BY <1>1, <1>2, <1>3, <1>4, StepsKeepSession

(* ... that ends where nothing is about to be sent. *)
LEMMA QuietStep ==
  ASSUME SessionInv, NEW p \in Procs, StepOf(p), PreviewInv', UNCHANGED <<store, minted, markers, copy>>,
         LedgersFit(ledger', draft'), DumpsFit(dumps'), QueueFits(queue'),
         pc[p] # "replacing", pc'[p] \in Places \ {"replacing"}, pc'[p] \notin Busy,
         pc'[p] # "idle" => CallHas(call'[p], store)
  PROVE  SessionInv'
<1>1. Fresh(call'[p], pc'[p]) = {}
  BY DEF Fresh
<1>2. pc'[p] # "sending"
  BY DEF Busy
<1>3. pc'[p] # "idle" => CallFits(call'[p], pc'[p], store, minted')
  BY <1>1, <1>2 DEF CallFits
<1>4. minted' \in Nat /\ minted <= minted'
  BY DEF SessionInv
<1> QED
  BY <1>1, <1>3, <1>4, OrdinaryStep

LEMMA AttemptsAreNumbers == MostAttempts \in Nat /\ \A s \in Settings : s.attempts \in 0..MostAttempts
<1> DEFINE A == {s.attempts : s \in Settings}
<1>0. \A s \in Settings : s.attempts \in Nat
  <2>1. \A r \in Requests : r.settings.attempts \in Nat
    BY SessionAssumption
  <2> QED
    BY <2>1 DEF Settings
<1>1. A \in SUBSET Nat
  BY <1>0
<1>2. IsFiniteSet(A)
  <2> DEFINE f == [r \in Requests |-> r.settings.attempts]
  <2>1. f \in Surjection(Requests, A)
    BY DEF Surjection, Settings
  <2> QED
    BY <2>1, FS_Surjection, SessionAssumption
<1>3. A # {}
  <2>1. PICK r \in Requests : TRUE
    BY SessionAssumption
  <2>2. r.settings \in Settings
    BY DEF Settings
  <2>3. r.settings.attempts \in A
    BY <2>2
  <2> QED
    BY <2>3
<1>4. \E x \in A : \A y \in A : x >= y
  <2> DEFINE S == {Cardinality({y \in A : y > x}) : x \in A}
  <2>1. S \in SUBSET Nat /\ S # {}
    <3>1. ASSUME NEW x \in A PROVE Cardinality({y \in A : y > x}) \in Nat
      <4>1. IsFiniteSet({y \in A : y > x})
        BY <1>2, FS_Subset
      <4> QED
        BY <4>1, FS_CardinalityType
    <3> QED
      BY <1>3, <3>1
  <2>2. PICK x \in A : \A y \in A : Cardinality({z \in A : z > x}) <= Cardinality({z \in A : z > y})
    <3>1. PICK n \in S : \A m \in S : n <= m
      <4> HIDE DEF S
      <4> QED
        BY <2>1, LeastNumber
    <3>2. PICK x \in A : n = Cardinality({z \in A : z > x})
      BY <3>1
    <3>3. \A y \in A : Cardinality({z \in A : z > y}) \in S
      OBVIOUS
    <3> HIDE DEF S, A
    <3> QED
      BY <3>1, <3>2, <3>3
  <2>3. ASSUME NEW y \in A, ~(x >= y) PROVE FALSE
    <3> DEFINE X == {z \in A : z > x}
               Y == {z \in A : z > y}
    <3>1. X \in SUBSET A /\ Y \in SUBSET X /\ y \in X /\ y \notin Y
      BY <1>1, <2>3
    <3>2. Cardinality(X) <= Cardinality(Y)
      BY <2>2
    <3> HIDE DEF X, Y, A
    <3>3. IsFiniteSet(X) /\ IsFiniteSet(Y)
      BY <1>2, <3>1, FS_Subset
    <3>4. Cardinality(Y) <= Cardinality(X) /\ (Cardinality(X) = Cardinality(Y) => X = Y)
      BY <3>1, <3>3, FS_Subset
    <3>5. Cardinality(X) \in Nat /\ Cardinality(Y) \in Nat
      BY <3>3, FS_CardinalityType
    <3> QED
      BY <3>1, <3>2, <3>4, <3>5
  <2> QED
    BY <2>3
<1>5. MostAttempts = Max(A)
  BY DEF MostAttempts
<1> HIDE DEF A
<1>6. MostAttempts \in A /\ \A y \in A : MostAttempts >= y
  BY <1>4, <1>5 DEF Max
<1>7. \A s \in Settings : s.attempts \in A
  BY DEF A
<1>8. ASSUME NEW s \in Settings PROVE s.attempts \in 0..MostAttempts
  BY <1>0, <1>1, <1>6, <1>7
<1> QED
  BY <1>1, <1>6, <1>8

LEMMA CalledHas ==
  ASSUME NEW op, NEW r \in Requests, NEW st
  PROVE  CallHas(Called(op, r), st)
<1>1. IsScrubbed(<< >>)
  BY EmptyIsSequence DEF IsScrubbed
<1>2. 0 \in 0..MostAttempts
  BY AttemptsAreNumbers
<1>3. r.settings \in Settings
  BY DEF Settings
<1> QED
  BY <1>1, <1>2, <1>3, EmptyIsSequence DEF CallHas, Called

LEMMA AtWorkHas ==
  ASSUME SessionInv, NEW p \in Procs, pc[p] # "idle"
  PROVE  IsCall(call[p]) /\ CallFits(call[p], pc[p], store, minted) /\ CallHas(call[p], store)
BY AtWork DEF SessionInv, CallFits

(* A call that ends, and one that fails.                                   *)
LEMMA ReturnsQuietly ==
  ASSUME SessionInv, NEW p \in Procs, StepOf(p), PreviewInv', UNCHANGED <<store, minted, markers, copy>>,
         LedgersFit(ledger', draft'), DumpsFit(dumps'), QueueFits(queue'), pc[p] # "replacing", Return(p)
  PROVE  SessionInv'
<1>1. pc'[p] = "idle"
  BY DEF Return, GoTo, SessionInv, PreviewInv, Maps
<1> QED
  BY <1>1, QuietStep DEF Places, Busy
LEMMA FailsQuietly ==
  ASSUME SessionInv, NEW p \in Procs, StepOf(p), PreviewInv', UNCHANGED <<store, minted, markers, copy>>,
         LedgersFit(ledger', draft'), DumpsFit(dumps'), QueueFits(queue'), pc[p] \in Busy, Fail(p)
  PROVE  SessionInv'
<1>1. pc[p] # "replacing" /\ pc[p] # "idle"
  BY DEF Busy
<1>2. CASE Return(p)
  BY <1>1, <1>2, ReturnsQuietly
<1>3. CASE GoTo(p, "marking") /\ UNCHANGED call
  <2>1. pc'[p] = "marking" /\ call'[p] = call[p]
    BY <1>3 DEF GoTo, SessionInv, PreviewInv, Maps
  <2>2. CallHas(call[p], store)
    BY <1>1, AtWorkHas
  <2> QED
    BY <1>1, <2>1, <2>2, QuietStep DEF Places, Busy
<1> QED
  BY <1>2, <1>3 DEF Fail
(* A call that goes on as it is.                                           *)
LEMMA GoesOnQuietly ==
  ASSUME SessionInv, NEW p \in Procs, StepOf(p), PreviewInv', UNCHANGED <<store, minted, markers, copy>>,
         LedgersFit(ledger', draft'), DumpsFit(dumps'), QueueFits(queue'), pc[p] \notin {"idle", "replacing"},
         NEW place \in Places \ {"idle", "replacing"}, place \notin Busy, GoTo(p, place), UNCHANGED call
  PROVE  SessionInv'
<1>1. pc'[p] = place /\ call'[p] = call[p]
  BY DEF GoTo, SessionInv, PreviewInv, Maps
<1>2. CallHas(call[p], store)
  BY AtWorkHas
<1> QED
  BY <1>1, <1>2, QuietStep

------------------------------------------------------------------------------
(* One lemma for each operation that starts.  The first: a new id is one   *)
(* that was not made up yet.                                               *)
LEMMA NewIdsAreNew ==
  ASSUME NEW n \in Nat, NEW items, IsSequence(items), NEW news \in SUBSET DOMAIN items,
         \A k \in DOMAIN items : items[k].uuid = None <=> k \in news,
         \A k \in DOMAIN items :
           items[k].create = IF k \in news THEN n + Cardinality({m \in 1..k : m \in news}) ELSE None
  PROVE  /\ n + Creates(items) \in Nat /\ n <= n + Creates(items)
         /\ \A i \in ToSet(items) : i.uuid = None => i.create \in (n + 1)..(n + Creates(items))
<1> DEFINE C == {k \in DOMAIN items : items[k].create # None}
<1>1. DOMAIN items = 1..Len(items) /\ Len(items) \in Nat /\ IsFiniteSet(DOMAIN items)
  BY SequencesHave, FS_Interval
<1>2. IsFiniteSet(news) /\ Cardinality(news) \in Nat
  BY <1>1, FS_Subset, FS_CardinalityType
<1>3. ASSUME NEW k \in news
      PROVE  Cardinality({m \in 1..k : m \in news}) \in 1..Cardinality(news)
  <2> DEFINE B == {m \in 1..k : m \in news}
  <2>1. B \in SUBSET news /\ k \in B
    BY <1>1
  <2> HIDE DEF B
  <2>2. IsFiniteSet(B) /\ Cardinality(B) <= Cardinality(news)
    BY <1>2, <2>1, FS_Subset
  <2>3. Cardinality(B) \in Nat /\ Cardinality(B) # 0
    BY <2>1, <2>2, FS_CardinalityType, FS_EmptySet
  <2> QED
    BY <1>2, <2>2, <2>3 DEF B
<1>4. C = news
  <2>1. ASSUME NEW k \in news PROVE items[k].create # None
    <3> DEFINE rank == Cardinality({m \in 1..k : m \in news})
    <3>2. items[k].create = n + rank
      OBVIOUS
    <3>3. rank \in 1..Cardinality(news)
      BY <1>3
    <3> HIDE DEF rank
    <3>1. items[k].create \in Nat
      BY <1>2, <3>2, <3>3
    <3> QED
      BY <3>1, SessionAssumption
  <2> QED
    BY <2>1
<1>5. Creates(items) = Cardinality(news)
  BY <1>4 DEF Creates
<1>6. ASSUME NEW i \in ToSet(items), i.uuid = None PROVE i.create \in (n + 1)..(n + Creates(items))
  <2>1. PICK k \in DOMAIN items : items[k] = i
    BY DEF ToSet
  <2>2. k \in news
    BY <1>6, <2>1
  <2>3. i.create = n + Cardinality({m \in 1..k : m \in news})
    BY <2>1, <2>2
  <2> QED
    BY <1>2, <1>3, <1>5, <2>2, <2>3
<1> QED
  BY <1>2, <1>5, <1>6

LEMMA SetKeepsSession == ASSUME SessionInv, PreviewInv', NEW p \in Procs, Set(p) PROVE SessionInv'
<1>1. PICK r \in Requests :
        /\ r.source # None
        /\ call' = [call EXCEPT ![p] = [Called("set", r) EXCEPT !.items = SetItemsOf(r.source)]]
        /\ minted' = minted + Creates(SetItemsOf(r.source))
        /\ pc' = [pc EXCEPT ![p] = "writing"] /\ pc[p] = "idle"
        /\ UNCHANGED <<store, markers, ledger, queue, dumps, copy, draft>>
  BY DEF Set, Becomes, GoTo, Begin
<1> DEFINE records == r.source
           items == SetItemsOf(records)
           c == [Called("set", r) EXCEPT !.items = items]
           news == {n \in DOMAIN records : records[n].origin = None}
<1>2. IsSequence(records) /\ \A x \in ToSet(records) : x.body \in DOMAIN Redacted
  BY <1>1, SessionAssumption
<1>3. Len(records) \in Nat /\ DOMAIN records = 1..Len(records)
      /\ \A n \in 1..Len(records) : records[n] \in ToSet(records)
  BY <1>2, SequencesHave
<1>4. /\ DOMAIN items = 1..Len(records) /\ items = [n \in 1..Len(records) |-> items[n]]
      /\ \A n \in DOMAIN items :
           /\ items[n].uuid = records[n].origin /\ items[n].body = records[n].body
           /\ items[n].status = "approved"
           /\ DOMAIN items[n] = {"uuid", "create", "subject", "body", "status"}
           /\ items[n].create = IF n \in news THEN minted + Cardinality({m \in 1..n : m \in news}) ELSE None
  <2>1. \A n \in 1..Len(records) : {m \in 1..n : m \in news} = {m \in 1..n : records[m].origin = None}
    BY <1>3
  <2> QED
    BY <1>3, <2>1 DEF SetItemsOf
<1> HIDE DEF items
<1>5. IsSequence(items)
  BY <1>3, <1>4, TableIsSequence
<1>6. /\ minted' \in Nat /\ minted <= minted' /\ minted \in Nat
      /\ \A i \in ToSet(items) : i.uuid = None => i.create \in (minted + 1)..minted'
  <2>1. news \in SUBSET DOMAIN items /\ \A k \in DOMAIN items : items[k].uuid = None <=> k \in news
    BY <1>3, <1>4
  <2>2. minted \in Nat
    BY DEF SessionInv
  <2> HIDE DEF news
  <2> QED
    BY <1>1, <1>4, <1>5, <2>1, <2>2, NewIdsAreNew DEF items
<1>7. c.op = "set" /\ c.items = items /\ ~c.proposing /\ CallHas(c, store)
  <2>1. CallHas(Called("set", r), store)
    BY CalledHas
  <2> QED
    BY <2>1 DEF CallHas, Called
<1>8. ItemsFit(c, store)
  <2>1. \A i \in ToSet(items) : /\ i.body \in DOMAIN Redacted /\ i.status \in Statuses
                               /\ DOMAIN i = {"uuid", "create", "subject", "body", "status"}
    <3> SUFFICES ASSUME NEW i \in ToSet(items)
                 PROVE  /\ i.body \in DOMAIN Redacted /\ i.status \in Statuses
                        /\ DOMAIN i = {"uuid", "create", "subject", "body", "status"}
      OBVIOUS
    <3>1. PICK n \in DOMAIN items : items[n] = i
      BY DEF ToSet
    <3>2. /\ i.body = records[n].body /\ i.status = "approved" /\ records[n] \in ToSet(records)
          /\ DOMAIN i = {"uuid", "create", "subject", "body", "status"}
      BY <1>3, <1>4, <3>1
    <3> QED
      BY <1>2, <3>2 DEF Statuses
  <2> QED
    BY <1>5, <1>7, <2>1 DEF ItemsFit
<1> HIDE DEF c
<1>9. call'[p] = c /\ pc'[p] = "writing"
  BY <1>1 DEF c, items, SessionInv, PreviewInv, Maps
<1>10. Fresh(c, "writing") \subseteq (minted + 1)..minted'
  BY <1>6, <1>7 DEF Fresh, Busy
<1>11. CallFits(c, "writing", store, minted')
  <2>1. DOMAIN store \subseteq 1..minted
    BY DEF SessionInv, IsStore
  <2>2. Fresh(c, "writing") \subseteq (1..minted') \ DOMAIN store
    BY <1>6, <1>10, <2>1
  <2> QED
    BY <1>7, <1>8, <2>2 DEF CallFits
<1>12. StepOf(p)
  BY SetStep DEF SessionInv
<1>13. LedgersFit(ledger', draft') /\ DumpsFit(dumps') /\ QueueFits(queue')
  BY <1>1 DEF SessionInv
<1> QED
  BY <1>1, <1>6, <1>9, <1>10, <1>11, <1>12, <1>13, OrdinaryStep DEF Places

(* A read or a dump with receipts that are true.                           *)
LEMMA ReceiptKeepsSession ==
  ASSUME SessionInv, PreviewInv', NEW p \in Procs, StepOf(p), pc[p] = "idle",
         UNCHANGED <<store, minted, markers, ledger, queue, copy, draft>>, DumpsFit(dumps'),
         NEW op, NEW r \in Requests, NEW receipts, Receipt(p, op, r, receipts), IsSequence(receipts),
         \A x \in ToSet(receipts) : IsReceipt(x, store)
  PROVE  SessionInv'
<1>0. LedgersFit(ledger', draft') /\ QueueFits(queue')
  BY DEF SessionInv
<1>1. CASE UNCHANGED <<pc, call>>
  <2>1. pc'[p] = "idle"
    BY <1>1
  <2> QED
    BY <1>0, <2>1, QuietStep DEF Places, Busy
<1>2. CASE Becomes(p, [Called(op, r) EXCEPT !.receipts = receipts]) /\ GoTo(p, "marking")
  <2>1. pc'[p] = "marking" /\ call'[p] = [Called(op, r) EXCEPT !.receipts = receipts]
    BY <1>2 DEF Becomes, GoTo, SessionInv, PreviewInv, Maps
  <2>2. CallHas(Called(op, r), store)
    BY CalledHas
  <2>3. CallHas([Called(op, r) EXCEPT !.receipts = receipts], store)
    BY <2>2 DEF CallHas, Called
  <2> QED
    BY <1>0, <2>1, <2>3, QuietStep DEF Places, Busy
<1> QED
  BY <1>1, <1>2 DEF Receipt, Refuse

LEMMA OneReceipt ==
  ASSUME NEW rs, NEW x, rs = << >> \/ rs = <<x>>
  PROVE  IsSequence(rs) /\ \A y \in ToSet(rs) : y = x
<1>1. CASE rs = << >>
  BY <1>1, EmptyIsSequence
<1>2. CASE rs = <<x>>
  <2>1. rs \in Seq({x})
    BY <1>2
  <2> QED
    BY <2>1, SequencesAre
<1> QED
  BY <1>1, <1>2

LEMMA ImportKeepsSession ==
  ASSUME SessionInv, PreviewInv', NEW p \in Procs, NEW skill, Import(p, skill) PROVE SessionInv'
<1>1. pc[p] = "idle" /\ UNCHANGED <<store, minted, markers, ledger, queue, dumps, copy, draft>>
  BY DEF Import, Begin
<1>2. PICK r \in Requests : \E shown \in SUBSET Approved, selected \in BOOLEAN :
        LET rows == {[id |-> id, subject |-> Current(store, id).subject] : id \in shown}
        IN  Receipt(p, "import", r,
                   IF skill = "odin" THEN QueryReceipt(rows, selected, r.opts, Session(p))
                   ELSE ImportReceipt("import", rows, {}, selected, r.opts, Session(p)))
  BY DEF Import
<1>3. PICK shown \in SUBSET Approved, selected \in BOOLEAN :
        LET rows == {[id |-> id, subject |-> Current(store, id).subject] : id \in shown}
        IN  Receipt(p, "import", r,
                   IF skill = "odin" THEN QueryReceipt(rows, selected, r.opts, Session(p))
                   ELSE ImportReceipt("import", rows, {}, selected, r.opts, Session(p)))
  BY <1>2
<1> DEFINE rows == {[id |-> id, subject |-> Current(store, id).subject] : id \in shown}
           rs == IF skill = "odin" THEN QueryReceipt(rows, selected, r.opts, Session(p))
                   ELSE ImportReceipt("import", rows, {}, selected, r.opts, Session(p))
           e == Entry("import", r.opts.nomarker, rows, {}, selected)
           x == IF skill = "odin" THEN [skill |-> "odin", entry |-> e] ELSE [skill |-> "kvasir", entry |-> e]
<1>4. \A i \in rows : i.id # None
  <2>1. \A id \in DOMAIN store : id \in Nat
    BY DEF SessionInv, IsStore
  <2> QED
    BY <2>1, SessionAssumption DEF Approved
<1> HIDE DEF rows
<1>5. rs = << >> \/ rs = <<x>>
  BY DEF QueryReceipt, ImportReceipt
<1>6. IsReceipt(x, store)
  BY <1>4 DEF IsReceipt, IsTrueOf, Entry
<1>7. Receipt(p, "import", r, rs)
  BY <1>3 DEF rows
<1> HIDE DEF rs, e, x
<1>8. IsSequence(rs) /\ \A y \in ToSet(rs) : IsReceipt(y, store)
  BY <1>5, <1>6, OneReceipt
<1>9. StepOf(p)
  BY ReadStep DEF SessionInv
<1>10. DumpsFit(dumps')
  BY <1>1 DEF SessionInv
<1> QED
  BY <1>1, <1>7, <1>8, <1>9, <1>10, ReceiptKeepsSession

LEMMA LoadKeepsSession ==
  ASSUME SessionInv, PreviewInv', NEW p \in Procs, Load(p) PROVE SessionInv'
<1>1. pc[p] = "idle" /\ UNCHANGED <<store, minted, markers, ledger, queue, dumps, copy, draft>>
  BY DEF Load, Begin
<1>2. PICK r \in Requests : \E rows, slugs :
        /\ \A i \in rows : i.id # None
        /\ Receipt(p, "load", r, ImportReceipt("load", rows, slugs, FALSE, r.opts, Session(p)))
  <2>1. PICK r \in Requests :
          LET named == {c \in ToSet(r.source) : c.origin # None}
              units == {c \in ToSet(r.source) \ named : c.slug # None}
          IN  Receipt(p, "load", r,
                   ImportReceipt("load", {[id |-> c.origin, subject |-> c.subject] : c \in named},
                                 {[slug |-> c.slug, subject |-> c.subject] : c \in units},
                                 FALSE, r.opts, Session(p)))
    BY DEF Load
  <2> DEFINE named == {c \in ToSet(r.source) : c.origin # None}
             rows == {[id |-> c.origin, subject |-> c.subject] : c \in named}
  <2>2. \A i \in rows : i.id # None
    OBVIOUS
  <2> HIDE DEF rows
  <2> QED
    BY <2>1, <2>2 DEF rows
<1>3. PICK rows, slugs :
        /\ \A i \in rows : i.id # None
        /\ Receipt(p, "load", r, ImportReceipt("load", rows, slugs, FALSE, r.opts, Session(p)))
  BY <1>2
<1> DEFINE rs == ImportReceipt("load", rows, slugs, FALSE, r.opts, Session(p))
           e == Entry("load", r.opts.nomarker, rows, slugs, FALSE)
           x == [skill |-> "kvasir", entry |-> e]
<1>5. rs = << >> \/ rs = <<x>>
  BY DEF ImportReceipt
<1>6. IsReceipt(x, store)
  BY <1>3 DEF IsReceipt, IsTrueOf, Entry
<1>7. Receipt(p, "load", r, rs)
  BY <1>3
<1> HIDE DEF rs, e, x
<1>8. IsSequence(rs) /\ \A y \in ToSet(rs) : IsReceipt(y, store)
  BY <1>5, <1>6, OneReceipt
<1>9. StepOf(p)
  BY ReadStep DEF SessionInv
<1>10. DumpsFit(dumps')
  BY <1>1 DEF SessionInv
<1> QED
  BY <1>1, <1>7, <1>8, <1>9, <1>10, ReceiptKeepsSession

------------------------------------------------------------------------------
(* The ledger: attempts stay within the settings.                          *)
AttemptsFit(entries) == \A id \in DOMAIN entries : entries[id].attempts \in 0..MostAttempts

LEMMA LedgersAreRead ==
  ASSUME NEW file, LedgerFits(file)
  PROVE  /\ AttemptsFit(ReadLedger(file))
         /\ \A id : EntryIn(ReadLedger(file), id).attempts \in 0..MostAttempts
<1>1. NoEntry.attempts \in 0..MostAttempts
  BY AttemptsAreNumbers DEF NoEntry
<1>2. AttemptsFit(ReadLedger(file))
  <2>1. CASE ~IsLedger(file)
    <3>1. DOMAIN << >> = {}
      OBVIOUS
    <3> QED
      BY <2>1, <3>1 DEF ReadLedger, AttemptsFit
  <2>2. CASE IsLedger(file)
    <3> DEFINE of(legacy, id) == LET k == [legacy |-> legacy, id |-> id]
                                 IN  IF k \in DOMAIN file THEN file[k] ELSE NoEntry
               l == MigrateLedger(file)
    <3>1. ASSUME NEW legacy, NEW id PROVE of(legacy, id).attempts \in 0..MostAttempts
      BY <1>1, <2>2 DEF LedgerFits
    <3>2. l = [id \in {k.id : k \in DOMAIN file} |-> MergeEntries(of(TRUE, id), of(FALSE, id))]
      BY DEF MigrateLedger
    <3> HIDE DEF of, l
    <3>3. ASSUME NEW id \in DOMAIN l PROVE l[id].attempts \in 0..MostAttempts
      <4>1. l[id] = MergeEntries(of(TRUE, id), of(FALSE, id))
        BY <3>2
      <4>2. l[id].attempts \in {of(TRUE, id).attempts, of(FALSE, id).attempts}
        BY <4>1 DEF MergeEntries
      <4> QED
        BY <3>1, <4>2
    <3> QED
      BY <2>2, <3>3 DEF ReadLedger, AttemptsFit, l
  <2> QED
    BY <2>1, <2>2
<1> QED
  BY <1>1, <1>2 DEF EntryIn, AttemptsFit

LEMMA LedgersAreWritten ==
  ASSUME NEW entries, AttemptsFit(entries), NEW cap, NEW keep
  PROVE  LedgerFits(WriteCapped(entries, cap, keep))
<1> DEFINE l == CapLedger(entries, cap, keep)
<1>1. DOMAIN l \subseteq DOMAIN entries /\ \A id \in DOMAIN l : l[id] = entries[id]
  BY DEF CapLedger
<1>2. AttemptsFit(l)
  BY <1>1 DEF AttemptsFit
<1> HIDE DEF l
<1>3. LedgerFits(WriteLedger(l))
  BY <1>2 DEF WriteLedger, LedgerFits, AttemptsFit
<1> QED
  BY <1>3 DEF WriteCapped, l

LEMMA OpenedLedgerFits ==
  ASSUME NEW file, LedgerFits(file), NEW cap
  PROVE  LedgerFits(OpenLedger(file, cap))
<1>1. AttemptsFit(PurgePositions(ReadLedger(file)))
  BY LedgersAreRead DEF PurgePositions, AttemptsFit
<1> QED
  BY <1>1, LedgersAreWritten DEF OpenLedger

(* An entry put in place of another.                                       *)
LEMMA EntriesAreReplaced ==
  ASSUME NEW entries, AttemptsFit(entries), NEW id, NEW entry, entry.attempts \in 0..MostAttempts
  PROVE  AttemptsFit([i \in DOMAIN entries \cup {id} |-> IF i = id THEN entry ELSE entries[i]])
BY DEF AttemptsFit

LEMMA SpentLedgerFits ==
  ASSUME NEW file, LedgerFits(file), NEW id, NEW s \in Settings, HasAttempts(file, id, s)
  PROVE  LedgerFits(SpendAttempt(file, id, s)) /\ NextAttempt(file, id) \in 0..MostAttempts
<1>1. NextAttempt(file, id) \in 0..MostAttempts
  BY LedgersAreRead, AttemptsAreNumbers DEF HasAttempts, NextAttempt
<1> DEFINE entry == [attempts |-> NextAttempt(file, id), best |-> EntryIn(ReadLedger(file), id).best]
           l == ReadLedger(file)
<1>2. entry.attempts \in 0..MostAttempts
  BY <1>1
<1>3. AttemptsFit(l)
  BY LedgersAreRead
<1> HIDE DEF entry, l
<1>4. AttemptsFit([i \in DOMAIN l \cup {id} |-> IF i = id THEN entry ELSE l[i]])
  BY <1>2, <1>3 DEF AttemptsFit
<1> QED
  BY <1>1, <1>4, LedgersAreWritten DEF SpendAttempt, entry, l

LEMMA ExhaustedLedgerFits ==
  ASSUME NEW file, LedgerFits(file), NEW id, NEW s
  PROVE  LedgerFits(WriteExhausted(file, id, s))
BY LedgersAreRead, LedgersAreWritten DEF WriteExhausted

LEMMA RecordedLedgerFits ==
  ASSUME NEW file, LedgerFits(file), NEW id, NEW attempt \in 0..MostAttempts, NEW scores, NEW s
  PROVE  LedgerFits(RecordAttempt(file, id, attempt, scores, s))
<1> DEFINE said == [attempts |-> attempt,
                    best |-> [attempt |-> attempt, max |-> Max({scores[r] : r \in DOMAIN scores})]]
           l == ReadLedger(file)
           entry == MergeEntries(EntryIn(l, id), said)
<1>1. entry.attempts \in {EntryIn(l, id).attempts, said.attempts}
  BY DEF MergeEntries
<1>2. entry.attempts \in 0..MostAttempts
  BY <1>1, LedgersAreRead
<1>3. AttemptsFit(l)
  BY LedgersAreRead
<1>4. RecordAttempt(file, id, attempt, scores, s) =
        WriteCapped([i \in DOMAIN l \cup {id} |-> IF i = id THEN entry ELSE l[i]], s.cap, {id})
  BY DEF RecordAttempt
<1> HIDE DEF entry, l
<1>5. AttemptsFit([i \in DOMAIN l \cup {id} |-> IF i = id THEN entry ELSE l[i]])
  BY <1>2, <1>3, EntriesAreReplaced
<1> QED
  BY <1>4, <1>5, LedgersAreWritten

------------------------------------------------------------------------------
(* Parts of scrubbed text are scrubbed.                                    *)
LEMMA PartsAreScrubbed ==
  ASSUME NEW s, IsScrubbed(s), NEW t, IsSequence(t), ToSet(t) \subseteq ToSet(s)
  PROVE  IsScrubbed(t)
BY DEF IsScrubbed

LEMMA PlacesAreScrubbed ==
  ASSUME NEW s, IsScrubbed(s), NEW D \in SUBSET DOMAIN s
  PROVE  IsScrubbed(AtPlaces(s, D)) /\ ToSet(AtPlaces(s, D)) \subseteq ToSet(s)
<1>1. IsSequence(AtPlaces(s, D)) /\ ToSet(AtPlaces(s, D)) = {s[n] : n \in D}
  BY PlacesArePicked DEF IsScrubbed
<1>2. {s[n] : n \in D} \subseteq ToSet(s)
  BY DEF ToSet
<1> QED
  BY <1>1, <1>2, PartsAreScrubbed

LEMMA BatchesAreScrubbed ==
  ASSUME NEW s, IsScrubbed(s)
  PROVE  IsScrubbed(Batch(s)) /\ IsScrubbed(Rest(s)) /\ ToSet(Batch(s)) \subseteq ToSet(s)
<1>1. Len(s) \in Nat
  BY SequencesHave DEF IsScrubbed
<1>2. IsSequence(Batch(s)) /\ ToSet(Batch(s)) \subseteq ToSet(s)
  BY <1>1, PartIsSequence, SessionAssumption DEF Batch, IsScrubbed
<1>3. Len(Batch(s)) \in Nat
  BY <1>2, SequencesHave
<1>4. IsSequence(Rest(s)) /\ ToSet(Rest(s)) \subseteq ToSet(s)
  BY <1>1, <1>3, PartIsSequence DEF Rest, IsScrubbed
<1> QED
  BY <1>2, <1>4, PartsAreScrubbed

LEMMA QueuedFits ==
  ASSUME NEW q, QueueFits(q), NEW s, \A c \in s : c.body \in Scrubs, NEW by
  PROVE  QueueFits(q \cup Queued(s, by))
BY DEF QueueFits, Queued

LEMMA CandidatesAreScrubbed ==
  ASSUME NEW read, IsSequence(read),
         \A c \in ToSet(read) : "body" \in DOMAIN c /\ c.body \in DOMAIN Redacted \cup {None},
         NEW marker
  PROVE  LET safe == GateRedaction(ApplyMarkerExclusions(ExportCandidates(read), marker))
         IN  IsScrubbed(Clean(safe)) /\ IsScrubbed(Held(safe))
<1> DEFINE D == {n \in DOMAIN read : read[n].kind = "understanding" /\ read[n].body # None}
           found == ExportCandidates(read)
           E == {n \in DOMAIN found : ~IsExcluded(found[n], marker)}
           kept == ApplyMarkerExclusions(found, marker)
           safe == GateRedaction(kept)
<1>1. found = AtPlaces(read, D) /\ kept = AtPlaces(found, E)
  BY DEF ExportCandidates, ApplyMarkerExclusions, Select
<1>2. D \in SUBSET DOMAIN read /\ E \in SUBSET DOMAIN found
  OBVIOUS
<1>3. \A n \in D : "body" \in DOMAIN read[n] /\ read[n].body \in DOMAIN Redacted
  BY DEF ToSet
<1> HIDE DEF D, E, found, kept
<1>4. IsSequence(found) /\ ToSet(found) = {read[n] : n \in D}
  BY <1>1, <1>2, PlacesArePicked
<1>5. IsSequence(kept) /\ ToSet(kept) = {found[n] : n \in E}
  BY <1>1, <1>2, <1>4, PlacesArePicked
<1>6. \A c \in ToSet(kept) : "body" \in DOMAIN c /\ c.body \in DOMAIN Redacted
  <2>1. ToSet(kept) \subseteq ToSet(found)
    BY <1>2, <1>5 DEF ToSet
  <2> QED
    BY <1>3, <1>4, <2>1
<1>7. DOMAIN kept = 1..Len(kept) /\ Len(kept) \in Nat /\ \A n \in DOMAIN kept : kept[n] \in ToSet(kept)
  BY <1>5, SequencesHave
<1>8. DOMAIN safe = 1..Len(kept) /\ safe = [n \in 1..Len(kept) |-> safe[n]]
      /\ \A n \in DOMAIN safe : safe[n].body \in Scrubs
  <2>1. DOMAIN safe = 1..Len(kept) /\ safe = [n \in 1..Len(kept) |-> safe[n]]
    BY <1>7 DEF GateRedaction
  <2>2. ASSUME NEW n \in DOMAIN kept PROVE safe[n].body \in Scrubs
    <3>1. safe[n] = [kept[n] EXCEPT !.body = Redacted[kept[n].body]]
      BY DEF GateRedaction
    <3>2. "body" \in DOMAIN kept[n] /\ kept[n].body \in DOMAIN Redacted
      BY <1>6, <1>7
    <3>3. safe[n].body = Redacted[kept[n].body]
      BY <3>1, <3>2
    <3> QED
      BY <3>2, <3>3 DEF Scrubs
  <2> QED
    BY <1>7, <2>1, <2>2
<1> HIDE DEF safe
<1>9. IsScrubbed(safe)
  <2>1. IsSequence(safe)
    BY <1>7, <1>8, TableIsSequence
  <2>2. \A c \in ToSet(safe) : c.body \in Scrubs
    BY <1>8 DEF ToSet
  <2> QED
    BY <2>1, <2>2 DEF IsScrubbed
<1>10. IsScrubbed(Clean(safe)) /\ IsScrubbed(Held(safe))
  <2>1. {n \in DOMAIN safe : safe[n].body \notin Bundled} \in SUBSET DOMAIN safe
        /\ {n \in DOMAIN safe : safe[n].body \in Bundled} \in SUBSET DOMAIN safe
    OBVIOUS
  <2>2. Clean(safe) = AtPlaces(safe, {n \in DOMAIN safe : safe[n].body \notin Bundled})
        /\ Held(safe) = AtPlaces(safe, {n \in DOMAIN safe : safe[n].body \in Bundled})
    BY DEF Clean, Held, Select
  <2> QED
    BY <1>9, <2>1, <2>2, PlacesAreScrubbed
<1> QED
  BY <1>10 DEF safe, kept, found

(* What an export reads when it is given nothing is one of the dumps. *)
LEMMA InputIsADump ==
  ASSUME NEW ds, DumpsFit(ds), NEW session, NEW dry, ~InputIsRefused(ds, session, dry)
  PROVE  DefaultInput(ds, session) \in ToSet(ds)
<1>1. IsSequence(ds)
  BY DEF DumpsFit
<1>2. ASSUME NEW s, IsSequence(s), s # << >> PROVE Last(s) \in ToSet(s)
  BY <1>2, SequencesHave DEF Last
<1>3. CASE DumpsOf(ds, session) = << >>
  BY <1>1, <1>2, <1>3 DEF InputIsRefused, DefaultInput
<1>4. CASE DumpsOf(ds, session) # << >>
  <2> DEFINE D == {n \in DOMAIN ds : ds[n].session = session}
  <2>1. DumpsOf(ds, session) = AtPlaces(ds, D)
    BY <1>4 DEF DumpsOf, Select
  <2>2. IsSequence(AtPlaces(ds, D)) /\ ToSet(AtPlaces(ds, D)) = {ds[n] : n \in D}
    BY <1>1, PlacesArePicked
  <2>3. {ds[n] : n \in D} \subseteq ToSet(ds)
    BY DEF ToSet
  <2> HIDE DEF D
  <2>4. Last(DumpsOf(ds, session)) \in ToSet(ds)
    BY <1>2, <1>4, <2>1, <2>2, <2>3
  <2> QED
    BY <1>4, <2>4 DEF DefaultInput
<1> QED
  BY <1>3, <1>4

LEMMA ExportKeepsSession == ASSUME SessionInv, PreviewInv', NEW p \in Procs, Export(p) PROVE SessionInv'
<1>1. pc[p] = "idle" /\ UNCHANGED <<store, minted, markers, ledger, queue, dumps, copy, draft>>
  BY DEF Export, Begin
<1>2. StepOf(p) /\ LedgersFit(ledger', draft') /\ DumpsFit(dumps') /\ QueueFits(queue')
  BY <1>1, ExportStep DEF SessionInv
<1>3. CASE Refuse(p)
  <2>1. pc'[p] = "idle"
    BY <1>1, <1>3 DEF Refuse
  <2> QED
    BY <1>1, <1>2, <2>1, QuietStep DEF Places, Busy
<1>4. PICK r \in Requests :
       LET default == DefaultInput(dumps, Session(p))
           recorded == IF r.source = None THEN default.binding ELSE NoBinding
           binding == Bind(r.flags, recorded, Checkout)
           marker == MarkerFor(r.opts.all, Session(p), MarkerOf("kvasir", p))
           read == IF r.source = None THEN default.records ELSE r.source
           candidates == ApplyMarkerExclusions(ExportCandidates(read), marker)
           safe == GateRedaction(candidates)
       IN  \/ Refuse(p)
           \/ /\ ~(r.source = None /\ InputIsRefused(dumps, Session(p), r.opts.dry))
              /\ Becomes(p, [Called("export", r) EXCEPT !.binding = binding,
                                                        !.clean = Clean(safe), !.held = Held(safe)])
              /\ GoTo(p, "held")
  BY DEF Export
<1> DEFINE default == DefaultInput(dumps, Session(p))
           read == IF r.source = None THEN default.records ELSE r.source
           marker == MarkerFor(r.opts.all, Session(p), MarkerOf("kvasir", p))
           safe == GateRedaction(ApplyMarkerExclusions(ExportCandidates(read), marker))
<1>5. ASSUME ~(r.source = None /\ InputIsRefused(dumps, Session(p), r.opts.dry)),
             NEW binding,
             Becomes(p, [Called("export", r) EXCEPT !.binding = binding,
                                                    !.clean = Clean(safe), !.held = Held(safe)]),
             GoTo(p, "held")
      PROVE  SessionInv'
  <2>1. IsSequence(read) /\ \A c \in ToSet(read) : "body" \in DOMAIN c /\ c.body \in DOMAIN Redacted \cup {None}
    <3>1. CASE r.source = None
      <4>1. DumpsFit(dumps)
        BY DEF SessionInv
      <4>2. default \in ToSet(dumps)
        BY <1>5, <3>1, <4>1, InputIsADump
      <4> HIDE DEF default
      <4>3. Scrubs \subseteq DOMAIN Redacted
        BY SessionAssumption
      <4> QED
        BY <3>1, <4>1, <4>2, <4>3 DEF DumpsFit
    <3>2. CASE r.source # None
      BY <3>2, SessionAssumption
    <3> QED
      BY <3>1, <3>2
  <2> HIDE DEF read, marker
  <2>2. IsScrubbed(Clean(safe)) /\ IsScrubbed(Held(safe))
    BY <2>1, CandidatesAreScrubbed
  <2> HIDE DEF safe
  <2> DEFINE c == [Called("export", r) EXCEPT !.binding = binding, !.clean = Clean(safe), !.held = Held(safe)]
  <2>3. CallHas(c, store)
    <3>1. CallHas(Called("export", r), store)
      BY CalledHas
    <3> QED
      BY <2>2, <3>1 DEF CallHas, Called
  <2>4. pc'[p] = "held" /\ call'[p] = c
    BY <1>5 DEF Becomes, GoTo, SessionInv, PreviewInv, Maps
  <2> HIDE DEF c
  <2> QED
    BY <1>1, <1>2, <2>3, <2>4, QuietStep DEF Places, Busy
<1> QED
  BY <1>3, <1>4, <1>5

LEMMA DumpKeepsSession == ASSUME SessionInv, PreviewInv', NEW p \in Procs, Dump(p) PROVE SessionInv'
<1>1. pc[p] = "idle" /\ UNCHANGED <<store, minted, markers, ledger, queue, copy, draft>>
  BY DEF Dump, Begin
<1>2. StepOf(p) /\ LedgersFit(ledger', draft') /\ QueueFits(queue') /\ DumpsFit(dumps)
  BY <1>1, DumpStep DEF SessionInv
<1>3. CASE Refuse(p) /\ UNCHANGED dumps
  <2>1. pc'[p] = "idle" /\ DumpsFit(dumps')
    BY <1>1, <1>2, <1>3 DEF Refuse
  <2> QED
    BY <1>1, <1>2, <2>1, QuietStep DEF Places, Busy
<1>4. ASSUME NEW r \in Requests, r.source # None, NEW session, NEW binding,
             LET prose == [n \in DOMAIN r.source |->
                       [r.source[n] EXCEPT !.origin = None, !.slug = None, !.body = Redacted[@]]]
                 dump == [folder |-> Folder, session |-> session, records |-> prose, binding |-> binding]
             IN  dumps' = Append(Select(dumps, LAMBDA d : d.folder # Folder), dump),
             Receipt(p, "dump", r, DumpReceipt(r.opts, Session(p)))
      PROVE  SessionInv'
  <2> DEFINE prose == [n \in DOMAIN r.source |->
                         [r.source[n] EXCEPT !.origin = None, !.slug = None, !.body = Redacted[@]]]
             dump == [folder |-> Folder, session |-> session, records |-> prose, binding |-> binding]
             D == {n \in DOMAIN dumps : dumps[n].folder # Folder}
             others == AtPlaces(dumps, D)
  <2>1. dumps' = Append(others, dump)
    BY <1>4 DEF Select
  <2>2. /\ IsSequence(r.source)
        /\ \A x \in ToSet(r.source) : "body" \in DOMAIN x /\ x.body \in DOMAIN Redacted
    BY <1>4, SessionAssumption
  <2>3. Len(r.source) \in Nat /\ DOMAIN r.source = 1..Len(r.source)
        /\ \A n \in 1..Len(r.source) : r.source[n] \in ToSet(r.source)
    BY <2>2, SequencesHave
  <2>4. ASSUME NEW n \in DOMAIN prose PROVE "body" \in DOMAIN prose[n] /\ prose[n].body \in Scrubs
    <3>1. prose[n] = [r.source[n] EXCEPT !.origin = None, !.slug = None, !.body = Redacted[r.source[n].body]]
      OBVIOUS
    <3>2. "body" \in DOMAIN r.source[n] /\ r.source[n].body \in DOMAIN Redacted
      BY <2>2, <2>3
    <3> HIDE DEF prose
    <3>3. "body" \in DOMAIN prose[n] /\ prose[n].body = Redacted[r.source[n].body]
      BY <3>1, <3>2
    <3> QED
      BY <3>2, <3>3 DEF Scrubs
  <2>5. DOMAIN prose = 1..Len(r.source) /\ prose = [n \in 1..Len(r.source) |-> prose[n]]
    BY <2>3
  <2> HIDE DEF prose
  <2>6. IsSequence(prose) /\ \A x \in ToSet(prose) : "body" \in DOMAIN x /\ x.body \in Scrubs
    <3>1. IsSequence(prose)
      BY <2>3, <2>5, TableIsSequence
    <3> QED
      BY <2>4, <3>1 DEF ToSet
  <2>7. IsSequence(others) /\ ToSet(others) \subseteq ToSet(dumps)
    <3>1. IsSequence(dumps) /\ D \in SUBSET DOMAIN dumps
      BY <1>2 DEF DumpsFit
    <3>2. IsSequence(others) /\ ToSet(others) = {dumps[n] : n \in D}
      BY <3>1, PlacesArePicked
    <3> QED
      BY <3>1, <3>2 DEF ToSet
  <2>8. dump.records = prose
    OBVIOUS
  <2> HIDE DEF others, dump
  <2>9. DumpsFit(dumps')
    <3>1. IsSequence(dumps') /\ ToSet(dumps') = ToSet(others) \cup {dump}
      BY <2>1, <2>7, AppendIsSequence
    <3>2. \A d \in ToSet(dumps) :
            /\ IsSequence(d.records)
            /\ \A c \in ToSet(d.records) : "body" \in DOMAIN c /\ c.body \in Scrubs \cup {None}
      BY <1>2 DEF DumpsFit
    <3>3. \A d \in ToSet(dumps') :
            /\ IsSequence(d.records)
            /\ \A c \in ToSet(d.records) : "body" \in DOMAIN c /\ c.body \in Scrubs \cup {None}
      BY <2>6, <2>7, <2>8, <3>1, <3>2
    <3> QED
      BY <3>1, <3>3 DEF DumpsFit
  <2> DEFINE e == Entry("export", FALSE, {}, {}, TRUE)
             rs == DumpReceipt(r.opts, Session(p))
             x == [skill |-> "kvasir", entry |-> e]
  <2>10. (rs = << >> \/ rs = <<x>>) /\ IsReceipt(x, store)
    BY DEF DumpReceipt, IsReceipt, IsTrueOf, Entry
  <2>11. Receipt(p, "dump", r, rs)
    BY <1>4
  <2> HIDE DEF rs, e, x
  <2>12. IsSequence(rs) /\ \A y \in ToSet(rs) : IsReceipt(y, store)
    BY <2>10, OneReceipt
  <2> QED
    BY <1>1, <1>2, <2>9, <2>11, <2>12, ReceiptKeepsSession
<1>5. \/ Refuse(p) /\ UNCHANGED dumps
      \/ \E r \in Requests : r.source # None /\ \E session, binding :
           /\ LET prose == [n \in DOMAIN r.source |->
                       [r.source[n] EXCEPT !.origin = None, !.slug = None, !.body = Redacted[@]]]
                  dump == [folder |-> Folder, session |-> session, records |-> prose, binding |-> binding]
              IN  dumps' = Append(Select(dumps, LAMBDA d : d.folder # Folder), dump)
           /\ Receipt(p, "dump", r, DumpReceipt(r.opts, Session(p)))
  BY DEF Dump
<1> QED
  BY <1>3, <1>4, <1>5

------------------------------------------------------------------------------
(* One lemma for each step of the service. *)
LEMMA QueueHeldKeepsSession ==
  ASSUME SessionInv, PreviewInv', NEW p \in Procs, QueueHeld(p) PROVE SessionInv'
<1>1. pc[p] = "held" /\ GoTo(p, "initiative") /\ UNCHANGED <<store, minted, markers, ledger, dumps, call, copy, draft>>
  BY DEF QueueHeld, At
<1>2. StepOf(p) /\ LedgersFit(ledger', draft') /\ DumpsFit(dumps') /\ QueueFits(queue)
  BY <1>1, QueueHeldStep DEF SessionInv
<1>3. QueueFits(queue')
  <2>1. \A c \in ToSet(call[p].held) : c.body \in Scrubs
    BY <1>1, AtWorkHas DEF CallHas, IsScrubbed
  <2>2. PICK some \in SUBSET ToSet(call[p].held) : queue' = queue \cup Queued(some, "atomicity")
    BY DEF QueueHeld
  <2>3. \A c \in some : c.body \in Scrubs
    BY <2>1
  <2> QED
    BY <1>2, <2>2, <2>3, QueuedFits
<1> QED
  BY <1>1, <1>2, <1>3, GoesOnQuietly DEF Places, Busy

LEMMA CheckInitiativeKeepsSession ==
  ASSUME SessionInv, PreviewInv', NEW p \in Procs, CheckInitiative(p) PROVE SessionInv'
<1>1. pc[p] = "initiative" /\ UNCHANGED <<store, minted, markers, ledger, queue, dumps, copy, draft>>
  BY DEF CheckInitiative, At
<1>2. StepOf(p) /\ LedgersFit(ledger', draft') /\ DumpsFit(dumps') /\ QueueFits(queue')
  BY <1>1, CheckInitiativeStep DEF SessionInv
<1>3. Return(p) \/ (GoTo(p, "gate") /\ UNCHANGED call)
  BY DEF CheckInitiative
<1>4. CASE Return(p)
  BY <1>1, <1>2, <1>4, ReturnsQuietly
<1>5. CASE GoTo(p, "gate") /\ UNCHANGED call
  BY <1>1, <1>2, <1>5, GoesOnQuietly DEF Places, Busy
<1> QED
  BY <1>3, <1>4, <1>5

(* What a writer leaves fits when what it writes does.                     *)
LEMMA WritersFit ==
  ASSUME SessionInv, NEW p \in Procs, DraftStep(p), LedgerFits(ledger'), LedgerFits(draft'[p].file)
  PROVE  LedgersFit(ledger', draft')
BY DEF SessionInv, LedgersFit, DraftStep

LEMMA NoLedgerFits == LedgerFits(NoLedger) /\ LedgerFits(BadLedger) /\ LedgerFits(NoDraft.file)
BY DEF LedgerFits, IsLedger, NoDraft

LEMMA LeftFits ==
  ASSUME SessionInv, NEW p \in Procs, ledger' \in Left(p), StopWriting(p), pc'[p] \notin LedgerPlaces
  PROVE  LedgersFit(ledger', draft')
<1>1. LedgerFits(ledger')
  BY DEF SessionInv, LedgersFit, Left
<1>2. DraftStep(p) /\ draft'[p] = NoDraft
  BY WritersStop DEF SessionInv
<1> QED
  BY <1>1, <1>2, WritersFit, NoLedgerFits

LEMMA OpenGateKeepsSession ==
  ASSUME SessionInv, PreviewInv', NEW p \in Procs, OpenGate(p) PROVE SessionInv'
<1>1. pc[p] = "gate" /\ UNCHANGED <<store, minted, markers, queue, dumps, copy>>
  BY DEF OpenGate, At
<1>2. /\ StepOf(p) /\ DraftStep(p) /\ LedgersFit(ledger, draft) /\ DumpsFit(dumps') /\ QueueFits(queue')
  BY <1>1, OpenGateStep, GateDraftStep DEF SessionInv
<1>3. \/ GoTo(p, "judged") /\ UNCHANGED <<ledger, call, draft>>
      \/ Return(p) /\ UNCHANGED <<ledger, draft>>
      \/ /\ Becomes(p, [call[p] EXCEPT !.gated = call[p].clean])
         /\ \/ GoTo(p, "scoring") /\ UNCHANGED <<ledger, draft>>
            \/ /\ GoTo(p, "opening") /\ ledger' \in {ledger, NoLedger}
               /\ \E cap : StartWriting(p, OpenLedger(ledger, cap))
  BY DEF OpenGate, StartScoring
<1>4. CASE GoTo(p, "judged") /\ UNCHANGED <<ledger, call, draft>>
  BY <1>1, <1>2, <1>4, GoesOnQuietly DEF Places, Busy
<1>5. CASE Return(p) /\ UNCHANGED <<ledger, draft>>
  BY <1>1, <1>2, <1>5, ReturnsQuietly
<1>6. ASSUME Becomes(p, [call[p] EXCEPT !.gated = call[p].clean]), LedgersFit(ledger', draft'),
             \E place \in {"scoring", "opening"} : GoTo(p, place)
      PROVE  SessionInv'
  <2>1. pc'[p] \in {"scoring", "opening"} /\ call'[p] = [call[p] EXCEPT !.gated = call[p].clean]
    BY <1>6 DEF Becomes, GoTo, SessionInv, PreviewInv, Maps
  <2>2. CallHas(call[p], store) /\ IsCall(call[p])
    BY <1>1, AtWorkHas
  <2>3. CallHas([call[p] EXCEPT !.gated = call[p].clean], store)
    BY <2>2 DEF CallHas, IsCall
  <2> QED
    BY <1>1, <1>2, <1>6, <2>1, <2>3, QuietStep DEF Places, Busy
<1>7. ASSUME ledger' \in {ledger, NoLedger}, NEW cap, StartWriting(p, OpenLedger(ledger, cap)),
             GoTo(p, "opening")
      PROVE  LedgersFit(ledger', draft')
  <2>1. LedgerFits(ledger) /\ LedgerFits(ledger')
    BY <1>2, <1>7, NoLedgerFits DEF LedgersFit
  <2>2. pc'[p] \in LedgerPlaces
    BY <1>7 DEF GoTo, LedgerPlaces, SessionInv, PreviewInv, Maps
  <2>3. draft'[p].file = OpenLedger(ledger, cap)
    BY <1>7, <2>2, WritersStart DEF SessionInv
  <2> QED
    BY <1>2, <2>1, <2>3, OpenedLedgerFits, WritersFit
<1> QED
  BY <1>2, <1>3, <1>4, <1>5, <1>6, <1>7

LEMMA JudgedCallsHave ==
  ASSUME SessionInv, NEW p \in Procs, IsCall(call[p]), CallHas(call[p], store), NEW below, Judge(p, below)
  PROVE  CallHas(call'[p], store)
<1> DEFINE u == IF below THEN call[p].below \cup {call[p].judged + 1} ELSE call[p].below
           c == [call[p] EXCEPT !.judged = call[p].judged + 1, !.attempt = 0, !.below = u]
<1>1. call'[p] = c
  BY DEF Judge, Becomes, SessionInv, PreviewInv, Maps
<1> HIDE DEF u
<1>2. CallHas(c, store)
  BY AttemptsAreNumbers DEF CallHas, IsCall
<1> QED
  BY <1>1, <1>2

LEMMA SpendNextKeepsSession ==
  ASSUME SessionInv, PreviewInv', NEW p \in Procs, SpendNext(p) PROVE SessionInv'
<1>1. pc[p] = "scoring" /\ UNCHANGED <<store, minted, markers, ledger, queue, dumps, copy>>
  BY DEF SpendNext, At
<1>2. StepOf(p) /\ DraftStep(p) /\ LedgersFit(ledger, draft) /\ DumpsFit(dumps') /\ QueueFits(queue')
  BY <1>1, ScoringStep, GateDraftStep DEF SessionInv
<1>3. CallHas(call[p], store) /\ IsCall(call[p])
  BY <1>1, AtWorkHas
<1>4. call[p].settings \in Settings /\ LedgerFits(ledger) /\ LedgerFits(ledger')
  BY <1>1, <1>2, <1>3 DEF CallHas, LedgersFit
<1> DEFINE s == call[p].settings
           id == NextGated(p).subject
<1>5. \/ UNCHANGED <<pc, draft>> /\ Judge(p, FALSE)
      \/ StartWriting(p, WriteExhausted(ledger, id, s)) /\ Judge(p, FALSE) /\ GoTo(p, "noting")
      \/ /\ HasAttempts(ledger, id, s) /\ StartWriting(p, SpendAttempt(ledger, id, s))
         /\ Becomes(p, [call[p] EXCEPT !.attempt = NextAttempt(ledger, id)]) /\ GoTo(p, "spending")
  BY DEF SpendNext
<1> HIDE DEF id
<1>6. \A place : GoTo(p, place) => pc'[p] = place
  BY DEF GoTo, SessionInv, PreviewInv, Maps
<1>7. CASE UNCHANGED <<pc, draft>> /\ Judge(p, FALSE)
  <2>1. LedgersFit(ledger', draft')
    BY <1>1, <1>2, <1>7
  <2>2. CallHas(call'[p], store) /\ pc'[p] = "scoring"
    BY <1>1, <1>3, <1>7, JudgedCallsHave
  <2> QED
    BY <1>1, <1>2, <2>1, <2>2, QuietStep DEF Places, Busy
<1>8. CASE StartWriting(p, WriteExhausted(ledger, id, s)) /\ Judge(p, FALSE) /\ GoTo(p, "noting")
  <2>1. pc'[p] = "noting" /\ CallHas(call'[p], store)
    BY <1>3, <1>6, <1>8, JudgedCallsHave
  <2>2. draft'[p].file = WriteExhausted(ledger, id, s)
    BY <1>8, <2>1, WritersStart DEF LedgerPlaces, SessionInv
  <2>3. LedgersFit(ledger', draft')
    BY <1>2, <1>4, <2>2, ExhaustedLedgerFits, WritersFit
  <2> QED
    BY <1>1, <1>2, <2>1, <2>3, QuietStep DEF Places, Busy
<1>9. CASE /\ HasAttempts(ledger, id, s) /\ StartWriting(p, SpendAttempt(ledger, id, s))
           /\ Becomes(p, [call[p] EXCEPT !.attempt = NextAttempt(ledger, id)]) /\ GoTo(p, "spending")
  <2>1. pc'[p] = "spending" /\ call'[p] = [call[p] EXCEPT !.attempt = NextAttempt(ledger, id)]
    BY <1>6, <1>9 DEF Becomes, SessionInv, PreviewInv, Maps
  <2>2. draft'[p].file = SpendAttempt(ledger, id, s)
    BY <1>9, <2>1, WritersStart DEF LedgerPlaces, SessionInv
  <2>3. LedgerFits(SpendAttempt(ledger, id, s)) /\ NextAttempt(ledger, id) \in 0..MostAttempts
    BY <1>4, <1>9, SpentLedgerFits
  <2>4. LedgersFit(ledger', draft')
    BY <1>2, <1>4, <2>2, <2>3, WritersFit
  <2>5. CallHas([call[p] EXCEPT !.attempt = NextAttempt(ledger, id)], store)
    BY <1>3, <2>3 DEF CallHas, IsCall
  <2> QED
    BY <1>1, <1>2, <2>1, <2>4, <2>5, QuietStep DEF Places, Busy
<1> QED
  BY <1>5, <1>7, <1>8, <1>9

LEMMA AnswerKeepsSession ==
  ASSUME SessionInv, PreviewInv', NEW p \in Procs, Answer(p) PROVE SessionInv'
<1>1. pc[p] = "asking" /\ UNCHANGED <<store, minted, markers, ledger, queue, dumps, copy>>
  BY DEF Answer, At
<1>2. StepOf(p) /\ DraftStep(p) /\ LedgersFit(ledger, draft) /\ DumpsFit(dumps') /\ QueueFits(queue')
  BY <1>1, ScoringStep, GateDraftStep DEF SessionInv
<1>3. CallHas(call[p], store) /\ IsCall(call[p])
  BY <1>1, AtWorkHas
<1>4. LedgerFits(ledger) /\ LedgerFits(ledger')
  BY <1>1, <1>2 DEF LedgersFit
<1>5. /\ \E below : Judge(p, below)
      /\ \/ UNCHANGED draft /\ GoTo(p, "scoring")
         \/ /\ \E id, scores, s : StartWriting(p, RecordAttempt(ledger, id, call[p].attempt, scores, s))
            /\ GoTo(p, "noting")
  BY DEF Answer
<1>6. \A place : GoTo(p, place) => pc'[p] = place
  BY DEF GoTo, SessionInv, PreviewInv, Maps
<1>7. LedgersFit(ledger', draft') /\ pc'[p] \in {"scoring", "noting"}
  <2>1. CASE UNCHANGED draft /\ GoTo(p, "scoring")
    BY <1>1, <1>2, <1>6, <2>1
  <2>2. ASSUME NEW id, NEW scores, NEW s, GoTo(p, "noting"),
               StartWriting(p, RecordAttempt(ledger, id, call[p].attempt, scores, s))
        PROVE  LedgersFit(ledger', draft')
    <3>1. pc'[p] \in LedgerPlaces
      BY <1>6, <2>2 DEF LedgerPlaces
    <3>2. draft'[p].file = RecordAttempt(ledger, id, call[p].attempt, scores, s)
      BY <2>2, <3>1, WritersStart DEF SessionInv
    <3>3. call[p].attempt \in 0..MostAttempts
      BY <1>3 DEF CallHas
    <3> QED
      BY <1>2, <1>4, <3>2, <3>3, RecordedLedgerFits, WritersFit
  <2> QED
    BY <1>5, <1>6, <2>1, <2>2
<1>8. CallHas(call'[p], store)
  BY <1>3, <1>5, JudgedCallsHave
<1> QED
  BY <1>1, <1>2, <1>7, <1>8, QuietStep DEF Places, Busy

(* The writes: what a process replaces the ledger with is a draft.         *)
LEMMA LedgerKeepsSession ==
  ASSUME SessionInv, PreviewInv', NEW p \in Procs, ReplaceLedger(p) \/ TearLedger(p) \/ KeepLedger(p)
  PROVE  SessionInv'
<1>1. UNCHANGED <<store, minted, markers, queue, dumps, call, copy>>
  BY DEF ReplaceLedger, TearLedger, KeepLedger
<1>2. StepOf(p) /\ DraftStep(p) /\ LedgersFit(ledger, draft) /\ DumpsFit(dumps') /\ QueueFits(queue')
  BY <1>1, LedgerStep, GateDraftStep DEF SessionInv
<1>3. pc[p] \in OfWrites /\ pc[p] # "replacing" /\ pc[p] \notin Busy
  <2>1. CASE TearLedger(p)
    BY <2>1 DEF TearLedger, SessionInv, PreviewInv, DraftsFit, DraftFits, NoDraft, LedgerPlaces, OfWrites, Busy
  <2> QED
    BY <2>1 DEF ReplaceLedger, KeepLedger, At, OfWrites, LedgerPlaces, Busy
<1>4. pc'[p] = pc[p] \/ pc'[p] \in {"asking", "scoring"}
  BY DEF ReplaceLedger, TearLedger, KeepLedger, GoTo, SessionInv, PreviewInv, Maps
<1>5. LedgersFit(ledger', draft')
  <2>1. CASE KeepLedger(p)
    <3>1. StopWriting(p) /\ ledger' \in Left(p) /\ GoTo(p, "scoring")
      BY <2>1 DEF KeepLedger
    <3>2. pc'[p] \notin LedgerPlaces
      BY <3>1 DEF GoTo, LedgerPlaces, SessionInv, PreviewInv, Maps
    <3> QED
      BY <3>1, <3>2, LeftFits
  <2>2. CASE TearLedger(p)
    <3>1. ledger' = BadLedger /\ draft' = draft
      BY <2>2 DEF TearLedger
    <3> QED
      BY <1>2, <3>1, NoLedgerFits DEF LedgersFit
  <2>3. CASE ReplaceLedger(p)
    <3>1. ledger' = BadLedger \/ \E q \in Procs : ledger' = draft[q].file
      BY <2>3 DEF ReplaceLedger
    <3>2. LedgerFits(ledger')
      BY <1>2, <3>1, NoLedgerFits DEF LedgersFit
    <3>3. draft'[p] = NoDraft
      BY <2>3, WritersReplace DEF SessionInv
    <3> QED
      BY <1>2, <3>2, <3>3, NoLedgerFits, WritersFit
  <2> QED
    BY <2>1, <2>2, <2>3
<1>6. CallHas(call'[p], store) /\ pc[p] \in Places
  BY <1>1, <1>3, AtWorkHas DEF OfWrites, LedgerPlaces, SessionInv
<1> QED
  BY <1>1, <1>2, <1>3, <1>4, <1>5, <1>6, QuietStep DEF Places, Busy

LEMMA CloseGateKeepsSession ==
  ASSUME SessionInv, PreviewInv', NEW p \in Procs, CloseGate(p) PROVE SessionInv'
<1> DEFINE gated == call[p].gated
           chosen(keep) == AtPlaces(gated, {n \in DOMAIN gated : (n \in call[p].below) # keep})
           c == [call[p] EXCEPT !.clean = chosen(TRUE), !.held = call[p].held \o chosen(FALSE), !.gated = << >>]
<1>1. /\ pc[p] = "scoring" /\ UNCHANGED <<store, minted, markers, ledger, dumps, copy, draft>>
      /\ GoTo(p, "judged") /\ Becomes(p, c)
      /\ \E some \in SUBSET ToSet(chosen(FALSE)) : queue' = queue \cup Queued(some, "decisions")
  BY DEF CloseGate, At
<1>2. StepOf(p) /\ LedgersFit(ledger', draft') /\ DumpsFit(dumps') /\ QueueFits(queue)
  BY <1>1, GateEndsStep DEF SessionInv
<1>3. CallHas(call[p], store) /\ IsCall(call[p])
  BY <1>1, AtWorkHas
<1>4. ASSUME NEW keep PROVE IsScrubbed(chosen(keep))
  <2>1. IsScrubbed(gated)
    BY <1>3 DEF CallHas
  <2> HIDE DEF gated
  <2> QED
    BY <2>1, PlacesAreScrubbed
<1> HIDE DEF chosen
<1>5. IsScrubbed(chosen(TRUE)) /\ IsScrubbed(chosen(FALSE))
  BY <1>4
<1>6. IsScrubbed(call[p].held \o chosen(FALSE))
  <2> DEFINE h == call[p].held
             x == chosen(FALSE)
  <2>1. IsScrubbed(h) /\ IsScrubbed(x)
    BY <1>3, <1>5 DEF CallHas
  <2> HIDE DEF h, x
  <2>2. IsSequence(h \o x) /\ ToSet(h \o x) \subseteq ToSet(h) \cup ToSet(x)
    BY <2>1, ConcatIsSequence DEF IsScrubbed
  <2>3. IsScrubbed(h \o x)
    BY <2>1, <2>2 DEF IsScrubbed
  <2> QED
    BY <2>3 DEF h, x
<1>7. QueueFits(queue')
  <2>1. PICK some \in SUBSET ToSet(chosen(FALSE)) : queue' = queue \cup Queued(some, "decisions")
    BY <1>1
  <2>2. \A b \in some : b.body \in Scrubs
    BY <1>5 DEF IsScrubbed
  <2> QED
    BY <1>2, <2>1, <2>2, QueuedFits
<1>8. CallHas(c, store)
  <2> DEFINE h == call[p].held \o chosen(FALSE)
             x == chosen(TRUE)
             d == [call[p] EXCEPT !.clean = x, !.held = h, !.gated = << >>]
  <2>1. IsScrubbed(h) /\ IsScrubbed(x) /\ IsScrubbed(<< >>)
    BY <1>5, <1>6, EmptyIsSequence DEF IsScrubbed
  <2> HIDE DEF h, x
  <2>2. CallHas(d, store)
    BY <1>3, <2>1 DEF CallHas, IsCall
  <2> QED
    BY <2>2 DEF h, x
<1> HIDE DEF c
<1>9. pc'[p] = "judged" /\ call'[p] = c
  BY <1>1 DEF GoTo, Becomes, SessionInv, PreviewInv, Maps
<1> QED
  BY <1>1, <1>2, <1>7, <1>8, <1>9, QuietStep DEF Places, Busy

LEMMA GateFailsKeepsSession ==
  ASSUME SessionInv, PreviewInv', NEW p \in Procs, GateFails(p) PROVE SessionInv'
<1>1. /\ pc[p] \in {"opening", "scoring", "spending", "asking", "noting"}
      /\ UNCHANGED <<store, minted, markers, queue, dumps, copy>>
      /\ GoTo(p, "judged") /\ Becomes(p, [call[p] EXCEPT !.gated = << >>, !.below = {}])
      /\ ledger' \in Left(p) /\ StopWriting(p)
  BY DEF GateFails
<1>2. StepOf(p) /\ DumpsFit(dumps') /\ QueueFits(queue')
  BY <1>1, GateEndsStep DEF SessionInv
<1>3. CallHas(call[p], store) /\ IsCall(call[p])
  BY <1>1, AtWorkHas
<1>4. CallHas([call[p] EXCEPT !.gated = << >>, !.below = {}], store)
  BY <1>3, EmptyIsSequence DEF CallHas, IsCall, IsScrubbed
<1>5. pc'[p] = "judged" /\ call'[p] = [call[p] EXCEPT !.gated = << >>, !.below = {}]
  BY <1>1 DEF GoTo, Becomes, SessionInv, PreviewInv, Maps
<1>6. LedgersFit(ledger', draft')
  BY <1>1, <1>5, LeftFits DEF LedgerPlaces
<1> QED
  BY <1>1, <1>2, <1>4, <1>5, <1>6, QuietStep DEF Places, Busy

LEMMA ResolveGroupKeepsSession ==
  ASSUME SessionInv, PreviewInv', NEW p \in Procs, ResolveGroup(p) PROVE SessionInv'
<1>1. pc[p] = "judged" /\ UNCHANGED <<store, minted, markers, ledger, queue, dumps, copy, draft>>
  BY DEF ResolveGroup, At
<1>2. StepOf(p) /\ LedgersFit(ledger', draft') /\ DumpsFit(dumps') /\ QueueFits(queue')
  BY <1>1, ResolveGroupStep DEF SessionInv
<1>3. Return(p) \/ \E place \in {"proposing", "batch"} : GoTo(p, place) /\ UNCHANGED call
  BY DEF ResolveGroup
<1>4. CASE Return(p)
  BY <1>1, <1>2, <1>4, ReturnsQuietly
<1>5. CASE \E place \in {"proposing", "batch"} : GoTo(p, place) /\ UNCHANGED call
  BY <1>1, <1>2, <1>5, GoesOnQuietly DEF Places, Busy
<1> QED
  BY <1>3, <1>4, <1>5

LEMMA AdvanceKeepsSession ==
  ASSUME SessionInv, PreviewInv', NEW p \in Procs, Advance(p) PROVE SessionInv'
<1>1. pc[p] = "marking" /\ UNCHANGED <<store, minted, markers, ledger, queue, dumps, copy, draft>>
  BY DEF Advance, At
<1>2. StepOf(p) /\ LedgersFit(ledger', draft') /\ DumpsFit(dumps') /\ QueueFits(queue')
  BY <1>1, AdvanceStep DEF SessionInv
<1>3. Return(p) \/ \E place \in {"proposing", "batch"} : GoTo(p, place) /\ UNCHANGED call
  BY DEF Advance
<1>4. CASE Return(p)
  BY <1>1, <1>2, <1>4, ReturnsQuietly
<1>5. CASE \E place \in {"proposing", "batch"} : GoTo(p, place) /\ UNCHANGED call
  BY <1>1, <1>2, <1>5, GoesOnQuietly DEF Places, Busy
<1> QED
  BY <1>3, <1>4, <1>5

LEMMA VetoKeepsSession ==
  ASSUME SessionInv, PreviewInv', NEW p \in Procs, Veto(p) PROVE SessionInv'
<1>1. pc[p] = "veto" /\ UNCHANGED <<store, minted, markers, ledger, queue, dumps, copy, draft>>
  BY DEF Veto, At
<1>2. StepOf(p) /\ LedgersFit(ledger', draft') /\ DumpsFit(dumps') /\ QueueFits(queue')
  BY <1>1, VetoStep DEF SessionInv
<1>3. Fail(p) \/ (GoTo(p, "writing") /\ UNCHANGED call)
  BY DEF Veto
<1>4. CASE Fail(p)
  BY <1>1, <1>2, <1>4, FailsQuietly DEF Busy
<1>5. CASE GoTo(p, "writing") /\ UNCHANGED call
  <2>1. pc'[p] = "writing" /\ call'[p] = call[p]
    BY <1>5 DEF GoTo, SessionInv, PreviewInv, Maps
  <2>2. CallFits(call[p], "veto", store, minted)
    BY <1>1, AtWorkHas
  <2>3. Fresh(call[p], "writing") = Fresh(call[p], "veto")
    BY DEF Fresh, Busy
  <2>4. CallFits(call[p], "writing", store, minted')
    BY <1>1, <2>2, <2>3 DEF CallFits, Busy
  <2>5. minted' \in Nat /\ minted <= minted'
    BY <1>1 DEF SessionInv
  <2> QED
    BY <1>1, <1>2, <2>1, <2>3, <2>4, <2>5, OrdinaryStep DEF Places
<1> QED
  BY <1>3, <1>4, <1>5

LEMMA DieKeepsSession ==
  ASSUME SessionInv, PreviewInv', NEW p \in Procs, Die(p) PROVE SessionInv'
<1>1. /\ pc[p] # "idle" /\ Return(p) /\ copy' = [copy EXCEPT ![p] = << >>]
      /\ UNCHANGED <<store, minted, markers, queue, dumps>> /\ ledger' \in Left(p) /\ StopWriting(p)
  BY DEF Die
<1>2. StepOf(p) /\ DumpsFit(dumps') /\ QueueFits(queue')
  BY <1>1, DieStep DEF SessionInv
<1>3. pc'[p] = "idle"
  BY <1>1 DEF Return, GoTo, SessionInv, PreviewInv, Maps
<1>7. LedgersFit(ledger', draft')
  BY <1>1, <1>3, LeftFits DEF LedgerPlaces
<1>4. CopyFits(<< >>, pc'[p], store')
  BY <1>3, EmptyIsSequence DEF CopyFits
<1>5. Fresh(call'[p], pc'[p]) = {}
  BY <1>3 DEF Fresh, Busy
<1>6. minted' \in Nat /\ minted <= minted' /\ IsStore(store', minted') /\ Grown(store', store)
      /\ MarkersFit(markers', store')
  BY <1>1, GrownIsReflexive DEF SessionInv, IsStore
<1> QED
  BY <1>1, <1>2, <1>3, <1>4, <1>5, <1>6, <1>7, StepsKeepSession DEF Places

------------------------------------------------------------------------------
(* The proposals come last: once a call proposes, nothing is left to       *)
(* capture.                                                                *)
Late == {"proposing", "veto", "writing", "sending", "marking", "replacing"}
PhaseFits(c, place) ==
  /\ c.proposing => place \in Late
  /\ c.proposing \/ place = "proposing" => c.clean = << >>
PhaseInv == \A p \in Procs : pc[p] # "idle" => PhaseFits(call[p], pc[p])

LEMMA PhaseStep ==
  ASSUME PhaseInv, NEW p \in Procs, StepOf(p), pc'[p] = "idle" \/ PhaseFits(call'[p], pc'[p])
  PROVE  PhaseInv'
<1>1. \A q \in Procs \ {p} : pc'[q] = pc[q] /\ call'[q] = call[q]
  BY DEF StepOf
<1> QED
  BY <1>1 DEF PhaseInv, PhaseFits

LEMMA PhaseOfStarts ==
  ASSUME PreviewInv, PhaseInv, NEW p \in Procs,
         Set(p) \/ Import(p, "odin") \/ Import(p, "kvasir") \/ Load(p) \/ Dump(p) \/ Export(p)
  PROVE  PhaseInv'
<1>1. StepOf(p) /\ pc[p] = "idle"
  BY SetStep, ReadStep, DumpStep, ExportStep DEF Set, Import, Load, Dump, Export, Begin
<1>2. CASE UNCHANGED <<pc, call>>
  BY <1>1, <1>2, PhaseStep
<1>4. ASSUME NEW op, NEW r, NEW receipts, Receipt(p, op, r, receipts) PROVE PhaseInv'
  <2>1. CASE Becomes(p, [Called(op, r) EXCEPT !.receipts = receipts]) /\ GoTo(p, "marking")
    <3>1. call'[p] = [Called(op, r) EXCEPT !.receipts = receipts]
      BY <2>1 DEF Becomes, PreviewInv, Maps
    <3>2. ~call'[p].proposing /\ pc'[p] = "marking"
      BY <2>1, <3>1 DEF Called, GoTo, PreviewInv, Maps
    <3> QED
      BY <1>1, <3>2, PhaseStep DEF PhaseFits
  <2> QED
    BY <1>2, <1>4, <2>1 DEF Receipt, Refuse
<1>5. CASE Set(p)
  <2>1. PICK r, items : Becomes(p, [Called("set", r) EXCEPT !.items = items]) /\ GoTo(p, "writing")
    BY <1>5 DEF Set
  <2>2. call'[p] = [Called("set", r) EXCEPT !.items = items]
    BY <2>1 DEF Becomes, PreviewInv, Maps
  <2>3. ~call'[p].proposing /\ pc'[p] = "writing"
    BY <2>1, <2>2 DEF Called, GoTo, PreviewInv, Maps
  <2> QED
    BY <1>1, <2>3, PhaseStep DEF PhaseFits
<1>6. CASE Import(p, "odin") \/ Import(p, "kvasir") \/ Load(p)
  <2>1. \E op, r, receipts : Receipt(p, op, r, receipts)
    BY <1>6 DEF Import, Load
  <2> QED
    BY <1>4, <2>1
<1>7. CASE Dump(p)
  <2>1. Refuse(p) \/ \E r, receipts : Receipt(p, "dump", r, receipts)
    BY <1>7 DEF Dump
  <2> QED
    BY <1>2, <1>4, <2>1 DEF Refuse
<1>8. CASE Export(p)
  <2>1. \/ Refuse(p)
        \/ \E r, binding, clean, held :
             /\ Becomes(p, [Called("export", r) EXCEPT !.binding = binding, !.clean = clean, !.held = held])
             /\ GoTo(p, "held")
    BY <1>8 DEF Export
  <2>2. ASSUME NEW r, NEW binding, NEW clean, NEW held,
               Becomes(p, [Called("export", r) EXCEPT !.binding = binding, !.clean = clean, !.held = held]),
               GoTo(p, "held")
        PROVE  PhaseInv'
    <3>1. call'[p] = [Called("export", r) EXCEPT !.binding = binding, !.clean = clean, !.held = held]
      BY <2>2 DEF Becomes, PreviewInv, Maps
    <3>2. ~call'[p].proposing /\ pc'[p] = "held"
      BY <2>2, <3>1 DEF Called, GoTo, PreviewInv, Maps
    <3> QED
      BY <1>1, <3>2, PhaseStep DEF PhaseFits
  <2> QED
    BY <1>2, <2>1, <2>2 DEF Refuse
<1> QED
  BY <1>5, <1>6, <1>7, <1>8

(* Before the batches nothing is proposed. *)
LEMMA PhaseOfGate ==
  ASSUME PreviewInv, PhaseInv, NEW p \in Procs,
         \/ QueueHeld(p) \/ CheckInitiative(p) \/ OpenGate(p) \/ SpendNext(p) \/ Answer(p)
         \/ CloseGate(p) \/ GateFails(p) \/ ReplaceLedger(p) \/ TearLedger(p) \/ KeepLedger(p)
  PROVE  PhaseInv'
<1>1. StepOf(p)
  BY QueueHeldStep, CheckInitiativeStep, OpenGateStep, ScoringStep, LedgerStep, GateEndsStep
<1> DEFINE Early == {"held", "initiative", "gate", "opening", "scoring", "spending", "asking", "noting"}
<1>2. pc[p] \in Early
  <2>1. CASE TearLedger(p)
    BY <2>1 DEF TearLedger, PreviewInv, DraftsFit, DraftFits, NoDraft, LedgerPlaces
  <2> QED
    BY <2>1 DEF QueueHeld, CheckInitiative, OpenGate, SpendNext, Answer, CloseGate, GateFails,
                ReplaceLedger, KeepLedger, At
<1>3. IsCall(call[p]) /\ ~call[p].proposing
  BY <1>2, AtWork DEF PhaseInv, PhaseFits, Late
<1>4. pc'[p] # "proposing"
  <2>1. \/ UNCHANGED pc \/ Return(p)
        \/ \E place \in Early \cup {"judged"} : GoTo(p, place)
    BY DEF QueueHeld, CheckInitiative, OpenGate, StartScoring, SpendNext, Answer, CloseGate, GateFails,
           ReplaceLedger, TearLedger, KeepLedger
  <2> QED
    BY <1>2, <2>1 DEF GoTo, Return, PreviewInv, Maps
<1>5. pc'[p] = "idle" \/ ~call'[p].proposing
  <2>1. CASE Return(p)
    BY <2>1 DEF Return, GoTo, PreviewInv, Maps
  <2>2. CASE UNCHANGED call
    BY <1>3, <2>2
  <2>3. ASSUME NEW c, ~c.proposing, Becomes(p, c) PROVE ~call'[p].proposing
    BY <2>3 DEF Becomes, PreviewInv, Maps
  <2>4. CASE QueueHeld(p) \/ CheckInitiative(p)
    BY <2>1, <2>2, <2>4 DEF QueueHeld, CheckInitiative
  <2>5. CASE OpenGate(p)
    <3>1. ~[call[p] EXCEPT !.gated = call[p].clean].proposing
      BY <1>3 DEF IsCall
    <3> QED
      BY <2>1, <2>2, <2>3, <2>5, <3>1 DEF OpenGate, StartScoring
  <2>6. ASSUME NEW below, Judge(p, below) PROVE ~call'[p].proposing
    <3>1. ASSUME NEW u
          PROVE  ~[call[p] EXCEPT !.judged = call[p].judged + 1, !.attempt = 0, !.below = u].proposing
      BY <1>3 DEF IsCall
    <3> QED
      BY <2>3, <2>6, <3>1 DEF Judge
  <2>7. CASE SpendNext(p) \/ Answer(p)
    <3>1. (\E below : Judge(p, below)) \/ \E n : Becomes(p, [call[p] EXCEPT !.attempt = n])
      BY <2>7 DEF SpendNext, Answer
    <3>2. \A n : ~[call[p] EXCEPT !.attempt = n].proposing
      BY <1>3 DEF IsCall
    <3> QED
      BY <2>3, <2>6, <3>1, <3>2
  <2>8. CASE CloseGate(p)
    <3>1. \E x, y : Becomes(p, [call[p] EXCEPT !.clean = x, !.held = call[p].held \o y, !.gated = << >>])
      BY <2>8 DEF CloseGate
    <3>2. \A x, y : ~[call[p] EXCEPT !.clean = x, !.held = call[p].held \o y, !.gated = << >>].proposing
      BY <1>3 DEF IsCall
    <3> QED
      BY <2>3, <3>1, <3>2
  <2>9. CASE GateFails(p)
    <3>1. Becomes(p, [call[p] EXCEPT !.gated = << >>, !.below = {}])
      BY <2>9 DEF GateFails
    <3>2. ~[call[p] EXCEPT !.gated = << >>, !.below = {}].proposing
      BY <1>3 DEF IsCall
    <3> QED
      BY <2>3, <3>1, <3>2
  <2>10. CASE ReplaceLedger(p) \/ TearLedger(p) \/ KeepLedger(p)
    BY <2>2, <2>10 DEF ReplaceLedger, TearLedger, KeepLedger
  <2> QED
    BY <2>4, <2>5, <2>7, <2>8, <2>9, <2>10
<1> QED
  BY <1>1, <1>4, <1>5, PhaseStep DEF PhaseFits

LEMMA PhaseOfBatches ==
  ASSUME PreviewInv, PhaseInv, NEW p \in Procs, ResolveGroup(p) \/ Preflight(p) \/ PreflightHeld(p)
  PROVE  PhaseInv'
<1>1. StepOf(p)
  BY ResolveGroupStep, PreflightStep, PreflightHeldStep
<1>2. pc[p] \in {"judged", "batch", "proposing"}
  BY DEF ResolveGroup, Preflight, PreflightHeld, At
<1>3. IsCall(call[p]) /\ PhaseFits(call[p], pc[p])
  BY <1>2, AtWork DEF PhaseInv
<1>4. CASE Return(p)
  <2>1. pc'[p] = "idle"
    BY <1>4 DEF Return, GoTo, PreviewInv, Maps
  <2> QED
    BY <1>1, <2>1, PhaseStep
<1>5. CASE ResolveGroup(p)
  <2>1. pc[p] = "judged" /\ \/ Return(p)
                            \/ /\ GoTo(p, IF call[p].clean = << >> THEN "proposing" ELSE "batch")
                               /\ UNCHANGED call
    BY <1>5 DEF ResolveGroup, At
  <2>2. CASE GoTo(p, IF call[p].clean = << >> THEN "proposing" ELSE "batch") /\ UNCHANGED call
    <3>1. pc'[p] = (IF call[p].clean = << >> THEN "proposing" ELSE "batch") /\ call'[p] = call[p]
      BY <2>2 DEF GoTo, PreviewInv, Maps
    <3>2. ~call[p].proposing
      BY <1>3, <2>1 DEF PhaseFits, Late
    <3>3. PhaseFits(call'[p], pc'[p])
      BY <3>1, <3>2 DEF PhaseFits
    <3> QED
      BY <1>1, <3>3, PhaseStep
  <2> QED
    BY <1>4, <2>1, <2>2
<1>6. CASE Preflight(p)
  <2>1. pc[p] = "batch" /\ ~call[p].proposing
    BY <1>3, <1>6 DEF Preflight, At, PhaseFits, Late
  <2>2. \/ Return(p)
        \/ \E x, items : /\ pc' = pc \/ GoTo(p, "veto")
                         /\ \/ Becomes(p, [call[p] EXCEPT !.clean = x, !.items = items])
                            \/ Becomes(p, [[call[p] EXCEPT !.clean = x, !.items = items] EXCEPT !.items = << >>])
    BY <1>6 DEF Preflight
  <2>3. \A x, items : /\ ~[call[p] EXCEPT !.clean = x, !.items = items].proposing
                      /\ ~[[call[p] EXCEPT !.clean = x, !.items = items] EXCEPT !.items = << >>].proposing
    BY <1>3, <2>1 DEF IsCall
  <2>4. ASSUME pc' = pc \/ GoTo(p, "veto"), NEW c, ~c.proposing, Becomes(p, c) PROVE PhaseInv'
    <3>1. pc'[p] \in {"batch", "veto"} /\ call'[p] = c
      BY <2>1, <2>4 DEF GoTo, Becomes, PreviewInv, Maps
    <3> QED
      BY <1>1, <2>4, <3>1, PhaseStep DEF PhaseFits
  <2> QED
    BY <1>4, <2>2, <2>3, <2>4
<1>7. CASE PreflightHeld(p)
  <2>1. pc[p] = "proposing" /\ call[p].clean = << >>
    BY <1>3, <1>7 DEF PreflightHeld, At, PhaseFits
  <2>2. PICK x, y, z : /\ Becomes(p, [call[p] EXCEPT !.held = x, !.items = y, !.proposing = TRUE,
                                                     !.seen = call[p].seen \cup z])
                       /\ GoTo(p, "marking") \/ GoTo(p, "veto")
    BY <1>7 DEF PreflightHeld
  <2>3. call'[p].clean = << >> /\ pc'[p] \in {"marking", "veto"}
    <3>1. call'[p] = [call[p] EXCEPT !.held = x, !.items = y, !.proposing = TRUE,
                                     !.seen = call[p].seen \cup z]
      BY <2>2 DEF Becomes, PreviewInv, Maps
    <3>2. call'[p].clean = << >>
      BY <1>3, <2>1, <3>1 DEF IsCall
    <3> QED
      BY <2>2, <3>2 DEF GoTo, PreviewInv, Maps
  <2> QED
    BY <1>1, <2>3, PhaseStep DEF PhaseFits, Late
<1> QED
  BY <1>5, <1>6, <1>7

LEMMA PhaseOfWrites ==
  ASSUME PreviewInv, PhaseInv, NEW p \in Procs,
         Veto(p) \/ Apply(p) \/ Send(p) \/ ReadMarker(p) \/ ReplaceMarker(p) \/ Advance(p)
  PROVE  PhaseInv'
<1>1. StepOf(p)
  BY VetoStep, ApplyStep, SendStep, ReadMarkerStep, ReplaceMarkerStep, AdvanceStep
<1>2. pc[p] \in Late \ {"proposing"}
  BY DEF Veto, Apply, Send, ReadMarker, ReplaceMarker, Advance, At, Late
<1>3. IsCall(call[p]) /\ PhaseFits(call[p], pc[p])
  BY <1>2, AtWork DEF PhaseInv, Late
<1>4. CASE Return(p)
  <2>1. pc'[p] = "idle"
    BY <1>4 DEF Return, GoTo, PreviewInv, Maps
  <2> QED
    BY <1>1, <2>1, PhaseStep
<1>5. ASSUME NEW place \in Late \ {"proposing"}, GoTo(p, place), NEW c, (call' = call /\ c = call[p]) \/ Becomes(p, c),
             c.proposing = call[p].proposing, c.clean = call[p].clean
      PROVE  PhaseInv'
  <2>1. pc'[p] = place /\ call'[p] = c
    BY <1>5 DEF GoTo, Becomes, PreviewInv, Maps
  <2>2. PhaseFits(c, place)
    BY <1>3, <1>5 DEF PhaseFits
  <2> QED
    BY <1>1, <2>1, <2>2, PhaseStep
<1>6. CASE Fail(p)
  BY <1>4, <1>5, <1>6 DEF Fail, Late
<1>7. CASE Veto(p)
  BY <1>5, <1>6, <1>7 DEF Veto, Late
<1>8. CASE Apply(p)
  <2>1. Fail(p) \/ \E x, y : /\ Becomes(p, [call[p] EXCEPT !.sent = x, !.dropped = call[p].dropped \cup y])
                             /\ GoTo(p, "sending")
    BY <1>8 DEF Apply
  <2>2. ASSUME NEW x, NEW y
        PROVE  /\ [call[p] EXCEPT !.sent = x, !.dropped = call[p].dropped \cup y].proposing = call[p].proposing
               /\ [call[p] EXCEPT !.sent = x, !.dropped = call[p].dropped \cup y].clean = call[p].clean
    BY <1>3 DEF IsCall
  <2> QED
    BY <1>5, <1>6, <2>1, <2>2 DEF Late
<1>9. CASE Send(p)
  <2>1. Fail(p) \/ \E x : Becomes(p, [call[p] EXCEPT !.receipts = x]) /\ GoTo(p, "marking")
    BY <1>9 DEF Send
  <2>2. ASSUME NEW x
        PROVE  /\ [call[p] EXCEPT !.receipts = x].proposing = call[p].proposing
               /\ [call[p] EXCEPT !.receipts = x].clean = call[p].clean
    BY <1>3 DEF IsCall
  <2> QED
    BY <1>5, <1>6, <2>1, <2>2 DEF Late
<1>10. CASE ReadMarker(p)
  BY <1>5, <1>10 DEF ReadMarker, Late
<1>11. CASE ReplaceMarker(p)
  <2>1. Becomes(p, [call[p] EXCEPT !.receipts = Tail(call[p].receipts)]) /\ GoTo(p, "marking")
    BY <1>11 DEF ReplaceMarker
  <2> DEFINE c == [call[p] EXCEPT !.receipts = Tail(call[p].receipts)]
  <2>2. c.proposing = call[p].proposing /\ c.clean = call[p].clean
    BY <1>3 DEF IsCall
  <2> HIDE DEF c
  <2> QED
    BY <1>5, <2>1, <2>2 DEF Late, c
<1>12. CASE Advance(p)
  <2>1. \/ Return(p)
        \/ call[p].clean # << >> /\ GoTo(p, "batch") /\ UNCHANGED call
        \/ call[p].clean = << >> /\ GoTo(p, "proposing") /\ UNCHANGED call
    BY <1>12 DEF Advance
  <2>2. CASE call[p].clean # << >> /\ GoTo(p, "batch") /\ UNCHANGED call
    <3>1. pc'[p] = "batch" /\ call'[p] = call[p]
      BY <2>2 DEF GoTo, PreviewInv, Maps
    <3> QED
      BY <1>1, <1>3, <2>2, <3>1, PhaseStep DEF PhaseFits
  <2>3. CASE call[p].clean = << >> /\ GoTo(p, "proposing") /\ UNCHANGED call
    <3>1. pc'[p] = "proposing" /\ call'[p] = call[p]
      BY <2>3 DEF GoTo, PreviewInv, Maps
    <3> QED
      BY <1>1, <2>3, <3>1, PhaseStep DEF PhaseFits, Late
  <2> QED
    BY <1>4, <2>1, <2>2, <2>3
<1> QED
  BY <1>7, <1>8, <1>9, <1>10, <1>11, <1>12

LEMMA PhasesAreKept == PreviewInv /\ PhaseInv /\ [Next]_vars => PhaseInv'
<1> SUFFICES ASSUME PreviewInv, PhaseInv, [Next]_vars PROVE PhaseInv'
  OBVIOUS
<1>1. ASSUME NEW p \in Procs, Die(p) PROVE PhaseInv'
  <2>1. pc'[p] = "idle"
    BY <1>1 DEF Die, Return, GoTo, PreviewInv, Maps
  <2> QED
    BY <1>1, <2>1, DieStep, PhaseStep
<1>2. CASE Next
  <2>1. PICK p \in Procs :
          \/ Set(p) \/ Import(p, "odin") \/ Import(p, "kvasir") \/ Load(p) \/ Dump(p) \/ Export(p)
          \/ Serve(p) \/ Die(p)
    BY <1>2 DEF Next
  <2> QED
    BY <1>1, <2>1, PhaseOfStarts, PhaseOfGate, PhaseOfBatches, PhaseOfWrites DEF Serve
<1>3. CASE UNCHANGED vars
  BY <1>3 DEF vars, PhaseInv, PhaseFits
<1> QED
  BY <1>2, <1>3

(* What a preflight makes of a batch: a version of the memory that holds   *)
(* the subject, or a create under an id of its own.                        *)
LEMMA VersionsAreHeld ==
  ASSUME NEW st, NEW chunk, NEW c \in ToSet(chunk)
  PROVE  LET uuid == VersionMap(c, HeldFor(st, chunk))
         IN  uuid = None \/ (uuid \in DOMAIN st /\ Head(st[uuid]).subject = c.subject)
<1> DEFINE held == HeldFor(st, chunk)
<1>1. held[c.subject] = Holders(st, c.subject)
  BY DEF HeldFor
<1> HIDE DEF held
<1>2. VersionMap(c, held) = None \/ VersionMap(c, held) \in Holders(st, c.subject)
  BY <1>1 DEF VersionMap
<1> QED
  BY <1>2 DEF held, Holders

LEMMA ItemsAreSet ==
  ASSUME NEW chunk, IsScrubbed(chunk), NEW held, NEW n \in Nat, NEW status \in Statuses,
         NEW items, items = SetItems(chunk, held, n, status)
  PROVE  /\ IsSequence(items) /\ n + Creates(items) \in Nat /\ n <= n + Creates(items)
         /\ \A i \in ToSet(items) :
              /\ i.uuid = None => i.create \in (n + 1)..(n + Creates(items))
              /\ DOMAIN i = {"uuid", "create", "subject", "body", "status"}
              /\ i.body \in Scrubs /\ i.status = status
              /\ \E c \in ToSet(chunk) : i.uuid = VersionMap(c, held) /\ i.subject = c.subject
<1> DEFINE news == {k \in DOMAIN chunk : VersionMap(chunk[k], held) = None}
<1>1. Len(chunk) \in Nat /\ DOMAIN chunk = 1..Len(chunk)
      /\ \A k \in 1..Len(chunk) : chunk[k] \in ToSet(chunk)
  BY SequencesHave DEF IsScrubbed
<1>2. DOMAIN items = 1..Len(chunk) /\ items = [k \in 1..Len(chunk) |-> items[k]]
  BY <1>1 DEF SetItems
<1>3. ASSUME NEW k \in DOMAIN items
      PROVE  /\ items[k].uuid = VersionMap(chunk[k], held) /\ items[k].body = chunk[k].body
             /\ items[k].status = status /\ items[k].subject = chunk[k].subject
             /\ DOMAIN items[k] = {"uuid", "create", "subject", "body", "status"}
             /\ items[k].create = IF k \in news THEN n + Cardinality({m \in 1..k : m \in news}) ELSE None
  <2>1. {m \in 1..k : m \in news} = {m \in 1..k : VersionMap(chunk[m], held) = None}
    BY <1>1, <1>2
  <2>2. k \in news <=> VersionMap(chunk[k], held) = None
    BY <1>1, <1>2
  <2>3. items[k] = [uuid |-> VersionMap(chunk[k], held),
                    create |-> IF VersionMap(chunk[k], held) = None
                               THEN n + Cardinality({m \in 1..k : VersionMap(chunk[m], held) = None}) ELSE None,
                    subject |-> chunk[k].subject, body |-> chunk[k].body, status |-> status]
    BY <1>1, <1>2 DEF SetItems
  <2> HIDE DEF news
  <2> QED
    BY <2>1, <2>2, <2>3
<1>4. IsSequence(items)
  BY <1>1, <1>2, TableIsSequence
<1>5. /\ n + Creates(items) \in Nat /\ n <= n + Creates(items)
      /\ \A i \in ToSet(items) : i.uuid = None => i.create \in (n + 1)..(n + Creates(items))
  <2>1. news \in SUBSET DOMAIN items /\ \A k \in DOMAIN items : items[k].uuid = None <=> k \in news
    BY <1>1, <1>2, <1>3
  <2> HIDE DEF news
  <2> QED
    BY <1>3, <1>4, <2>1, NewIdsAreNew
<1> HIDE DEF news
<1>6. ASSUME NEW i \in ToSet(items)
      PROVE  /\ DOMAIN i = {"uuid", "create", "subject", "body", "status"}
             /\ i.body \in Scrubs /\ i.status = status
             /\ \E c \in ToSet(chunk) : i.uuid = VersionMap(c, held) /\ i.subject = c.subject
  <2>1. PICK k \in DOMAIN items : items[k] = i
    BY DEF ToSet
  <2>2. chunk[k] \in ToSet(chunk) /\ chunk[k].body \in Scrubs
    BY <1>1, <1>2 DEF IsScrubbed
  <2> QED
    BY <1>3, <2>1, <2>2
<1> QED
  BY <1>4, <1>5, <1>6

(* A call that was given a batch goes to its preview. *)
LEMMA BatchKeepsSession ==
  ASSUME SessionInv, PreviewInv', NEW p \in Procs, StepOf(p), pc[p] # "replacing",
         UNCHANGED <<store, markers, copy>>, LedgersFit(ledger', draft'), DumpsFit(dumps'), QueueFits(queue'),
         NEW c, CallHas(c, store), pc'[p] = "veto", call'[p] = c,
         minted' = minted + Creates(c.items), minted' \in Nat, minted <= minted',
         IsSequence(c.items),
         \A i \in ToSet(c.items) :
           /\ i.uuid = None => i.create \in (minted + 1)..minted'
           /\ DOMAIN i = {"uuid", "create", "subject", "body", "status"}
           /\ i.body \in Scrubs /\ i.status \in Statuses
           /\ c.proposing => i.uuid = None
           /\ i.uuid # None => i.uuid \in DOMAIN store /\ Head(store[i.uuid]).subject = i.subject
  PROVE  SessionInv'
<1>1. ItemsFit(c, store)
  BY SessionAssumption DEF ItemsFit
<1>2. Fresh(c, "veto") \subseteq (minted + 1)..minted'
  BY DEF Fresh
<1>3. Fresh(c, "veto") \subseteq (1..minted') \ DOMAIN store
  <2>1. DOMAIN store \subseteq 1..minted /\ minted \in Nat
    BY DEF SessionInv, IsStore
  <2> QED
    BY <1>2, <2>1
<1>4. CallFits(c, "veto", store, minted')
  BY <1>1, <1>3 DEF CallFits
<1>5. Fresh(call'[p], pc'[p]) \subseteq Fresh(call[p], pc[p]) \cup (minted + 1)..minted'
  BY <1>2
<1> QED
  BY <1>4, <1>5, OrdinaryStep DEF Places

LEMMA PreflightKeepsSession ==
  ASSUME SessionInv, PhaseInv, PreviewInv', NEW p \in Procs, Preflight(p) PROVE SessionInv'
<1>1. pc[p] = "batch" /\ UNCHANGED <<store, markers, ledger, dumps, copy, draft>>
  BY DEF Preflight, At
<1>2. StepOf(p) /\ LedgersFit(ledger', draft') /\ DumpsFit(dumps') /\ QueueFits(queue)
  BY <1>1, PreflightStep DEF SessionInv
<1>3. IsCall(call[p]) /\ CallHas(call[p], store) /\ ~call[p].proposing /\ minted \in Nat
  BY <1>1, AtWorkHas DEF PhaseInv, PhaseFits, Late, SessionInv
<1> DEFINE clean == call[p].clean
           chunk == Batch(clean)
<1>4. IsScrubbed(chunk) /\ IsScrubbed(Rest(clean))
  BY <1>3, BatchesAreScrubbed DEF CallHas
<1>5. PICK answered \in BOOLEAN :
       LET seen == IF answered /\ ~call[p].opts.dry THEN store ELSE << >>
           items == SetItems(chunk, HeldFor(seen, chunk), minted, "approved")
           alike == {c \in ToSet(chunk) : \E id \in DOMAIN store :
                       Current(store, id).body = c.body /\ Current(store, id).subject # c.subject}
           rest == [call[p] EXCEPT !.clean = Rest(clean), !.items = items]
       IN  /\ \E some \in SUBSET alike : queue' = queue \cup Queued(some, "dedup")
           /\ IF SubjectsCollide(chunk) THEN Return(p) /\ UNCHANGED minted
              ELSE IF call[p].opts.dry
              THEN /\ UNCHANGED minted
                   /\ IF Rest(clean) = << >> THEN Return(p)
                      ELSE Becomes(p, [rest EXCEPT !.items = << >>]) /\ UNCHANGED pc
              ELSE Becomes(p, rest) /\ minted' = minted + Creates(items) /\ GoTo(p, "veto")
  BY DEF Preflight
<1> DEFINE seen == IF answered /\ ~call[p].opts.dry THEN store ELSE << >>
           items == SetItems(chunk, HeldFor(seen, chunk), minted, "approved")
           rest == [call[p] EXCEPT !.clean = Rest(clean), !.items = items]
<1>6. QueueFits(queue')
  <2>1. PICK some \in SUBSET ToSet(chunk) : queue' = queue \cup Queued(some, "dedup")
    BY <1>5
  <2>2. \A c \in some : c.body \in Scrubs
    BY <1>4 DEF IsScrubbed
  <2> QED
    BY <1>2, <2>1, <2>2, QueuedFits
<1>7. \/ Return(p) /\ UNCHANGED minted
      \/ Becomes(p, [rest EXCEPT !.items = << >>]) /\ UNCHANGED <<pc, minted>>
      \/ Becomes(p, rest) /\ minted' = minted + Creates(items) /\ GoTo(p, "veto")
  BY <1>5
<1> HIDE DEF seen
<1>8. CASE Return(p) /\ UNCHANGED minted
  BY <1>1, <1>2, <1>6, <1>8, ReturnsQuietly
<1>9. CASE Becomes(p, [rest EXCEPT !.items = << >>]) /\ UNCHANGED <<pc, minted>>
  <2>1. pc'[p] = "batch" /\ call'[p] = [rest EXCEPT !.items = << >>]
    BY <1>1, <1>9 DEF Becomes, SessionInv, PreviewInv, Maps
  <2> HIDE DEF items
  <2>2. CallHas([rest EXCEPT !.items = << >>], store)
    BY <1>3, <1>4 DEF CallHas, IsCall
  <2> QED
    BY <1>1, <1>2, <1>6, <1>9, <2>1, <2>2, QuietStep DEF Places, Busy
<1>10. CASE Becomes(p, rest) /\ minted' = minted + Creates(items) /\ GoTo(p, "veto")
  <2>1. pc'[p] = "veto" /\ call'[p] = rest
    BY <1>10 DEF Becomes, GoTo, SessionInv, PreviewInv, Maps
  <2>2. /\ IsSequence(items) /\ minted + Creates(items) \in Nat /\ minted <= minted + Creates(items)
        /\ \A i \in ToSet(items) :
              /\ i.uuid = None => i.create \in (minted + 1)..(minted + Creates(items))
              /\ DOMAIN i = {"uuid", "create", "subject", "body", "status"}
              /\ i.body \in Scrubs /\ i.status = "approved"
              /\ \E c \in ToSet(chunk) : i.uuid = VersionMap(c, HeldFor(seen, chunk)) /\ i.subject = c.subject
    <3> HIDE DEF chunk
    <3> QED
      BY <1>3, <1>4, ItemsAreSet DEF Statuses
  <2>3. ASSUME NEW i \in ToSet(items), i.uuid # None
        PROVE  i.uuid \in DOMAIN store /\ Head(store[i.uuid]).subject = i.subject
    <3>1. i.uuid \in DOMAIN seen /\ Head(seen[i.uuid]).subject = i.subject
      <4> HIDE DEF items, chunk
      <4> QED
        BY <2>2, <2>3, VersionsAreHeld
    <3>2. seen = store \/ DOMAIN seen = {}
      BY DEF seen
    <3> QED
      BY <3>1, <3>2
  <2> HIDE DEF items
  <2>4. CallHas(rest, store) /\ rest.items = items /\ ~rest.proposing
    BY <1>3, <1>4 DEF CallHas, IsCall
  <2> HIDE DEF rest
  <2> QED
    BY <1>1, <1>2, <1>6, <1>10, <2>1, <2>2, <2>3, <2>4, BatchKeepsSession DEF Statuses
<1> QED
  BY <1>7, <1>8, <1>9, <1>10

(* What persists of the proposals is new. *)
LEMMA PersistableIsNew ==
  ASSUME NEW batch, IsScrubbed(batch), NEW held, NEW seen,
         NEW chunk, chunk = Persistable(batch, held, seen) \/ chunk = << >>
  PROVE  IsScrubbed(chunk) /\ \A c \in ToSet(chunk) : VersionMap(c, held) = None
<1>1. CASE chunk = << >>
  BY <1>1, EmptyIsSequence DEF IsScrubbed
<1>2. CASE chunk = Persistable(batch, held, seen)
  <2>1. PICK new \in SUBSET DOMAIN batch :
          chunk = AtPlaces(batch, new) /\ \A n \in new : VersionMap(batch[n], held) = None
    <3> DEFINE twin(n) == \E m \in 1..(n - 1) : batch[m].subject = batch[n].subject
               new == {n \in DOMAIN batch : VersionMap(batch[n], held) = None
                                    /\ batch[n].subject \notin seen /\ ~twin(n)}
    <3>1. chunk = AtPlaces(batch, new)
      BY <1>2 DEF Persistable
    <3>2. new \in SUBSET DOMAIN batch /\ \A n \in new : VersionMap(batch[n], held) = None
      OBVIOUS
    <3> QED
      BY <3>1, <3>2
  <2>2. IsScrubbed(chunk)
    BY <2>1, PlacesAreScrubbed
  <2>3. ToSet(chunk) = {batch[n] : n \in new}
    BY <2>1, PlacesArePicked DEF IsScrubbed
  <2> QED
    BY <2>1, <2>2, <2>3
<1> QED
  BY <1>1, <1>2

LEMMA PreflightHeldKeepsSession ==
  ASSUME SessionInv, PreviewInv', NEW p \in Procs, PreflightHeld(p) PROVE SessionInv'
<1>1. pc[p] = "proposing" /\ UNCHANGED <<store, markers, ledger, queue, dumps, copy, draft>>
  BY DEF PreflightHeld, At
<1>2. StepOf(p) /\ LedgersFit(ledger', draft') /\ DumpsFit(dumps') /\ QueueFits(queue')
  BY <1>1, PreflightHeldStep DEF SessionInv
<1>3. IsCall(call[p]) /\ CallHas(call[p], store) /\ minted \in Nat
  BY <1>1, AtWorkHas DEF SessionInv
<1> DEFINE batch == Batch(call[p].held)
           held == HeldFor(store, batch)
<1>4. IsScrubbed(batch) /\ IsScrubbed(Rest(call[p].held))
  BY <1>3, BatchesAreScrubbed DEF CallHas
<1>5. PICK answered \in BOOLEAN :
       LET chunk == IF answered THEN Persistable(batch, held, call[p].seen) ELSE << >>
           items == SetItems(chunk, held, minted, "proposed")
       IN  /\ Becomes(p, [call[p] EXCEPT !.held = Rest(call[p].held), !.items = items, !.proposing = TRUE,
                                         !.seen = call[p].seen \cup {i.subject : i \in ToSet(items)}])
           /\ minted' = minted + Creates(items)
           /\ GoTo(p, IF items = << >> THEN "marking" ELSE "veto")
  BY DEF PreflightHeld
<1> DEFINE chunk == IF answered THEN Persistable(batch, held, call[p].seen) ELSE << >>
           items == SetItems(chunk, held, minted, "proposed")
           seen == call[p].seen \cup {i.subject : i \in ToSet(items)}
           c == [call[p] EXCEPT !.held = Rest(call[p].held), !.items = items, !.proposing = TRUE, !.seen = seen]
<1>6. IsScrubbed(chunk) /\ \A x \in ToSet(chunk) : VersionMap(x, held) = None
  BY <1>4, PersistableIsNew
<1>7. /\ call'[p] = c /\ minted' = minted + Creates(items)
      /\ pc'[p] = IF items = << >> THEN "marking" ELSE "veto"
  BY <1>5 DEF Becomes, GoTo, SessionInv, PreviewInv, Maps
<1> HIDE DEF chunk, held
<1>8. /\ IsSequence(items) /\ minted + Creates(items) \in Nat /\ minted <= minted + Creates(items)
      /\ \A i \in ToSet(items) :
            /\ i.uuid = None => i.create \in (minted + 1)..(minted + Creates(items))
            /\ DOMAIN i = {"uuid", "create", "subject", "body", "status"}
            /\ i.body \in Scrubs /\ i.status = "proposed"
            /\ \E x \in ToSet(chunk) : i.uuid = VersionMap(x, held) /\ i.subject = x.subject
  BY <1>3, <1>6, ItemsAreSet DEF Statuses
<1> HIDE DEF items
<1>9. \A i \in ToSet(items) : i.uuid = None
  BY <1>6, <1>8
<1> HIDE DEF seen
<1>10. CallHas(c, store) /\ c.items = items
  BY <1>3, <1>4 DEF CallHas, IsCall
<1> HIDE DEF c
<1>11. CASE items = << >>
  <2>1. Creates(items) = 0
    <3>1. {n \in DOMAIN << >> : items[n].create # None} = {}
      OBVIOUS
    <3> QED
      BY <1>11, <3>1, FS_EmptySet DEF Creates
  <2>2. minted' = minted
    BY <1>3, <1>7, <2>1
  <2> QED
    BY <1>1, <1>2, <1>7, <1>10, <1>11, <2>2, QuietStep DEF Places, Busy
<1>12. CASE items # << >>
  BY <1>1, <1>2, <1>7, <1>8, <1>9, <1>10, <1>12, BatchKeepsSession DEF Statuses
<1> QED
  BY <1>11, <1>12

(* The markers exclude no item that is new. *)
LEMMA MarkersAreTrue ==
  ASSUME NEW m, NEW st, MarkersFit(m, st), m = markers, NEW p \in Procs, NEW skill \in {"odin", "kvasir"}
  PROVE  AreTrueOf(MarkerOf(skill, p), st)
<1>1. CASE Session(p) = NoSession
  <2>1. Entries(None) = << >>
    BY DEF Entries, IsReadable
  <2> QED
    BY <1>1, <2>1, EmptyIsSequence DEF MarkerOf, AreTrueOf
<1>2. CASE Session(p) # NoSession
  <2>1. <<skill, Session(p)>> \in DOMAIN m
    BY <1>2 DEF MarkersFit
  <2> QED
    BY <1>2, <2>1 DEF MarkersFit, MarkerOf
<1> QED
  BY <1>1, <1>2

LEMMA ExcludedIdsAreIds ==
  ASSUME NEW m, NEW st, AreTrueOf(m, st)
  PROVE  None \notin ExclusionIds(m)
<1> SUFFICES ASSUME NEW e \in ToSet(Marked(m)), NEW i \in e.items, i.id = None PROVE FALSE
  BY DEF ExclusionIds, ExclusionItems
<1> DEFINE D == {n \in DOMAIN Entries(m) : ~Entries(m)[n].nomarker}
<1>1. Marked(m) = AtPlaces(Entries(m), D) /\ D \in SUBSET DOMAIN Entries(m)
  BY DEF Marked, Select
<1>2. IsSequence(Entries(m))
  BY DEF AreTrueOf
<1> HIDE DEF D
<1>3. ToSet(Marked(m)) = {Entries(m)[n] : n \in D}
  BY <1>1, <1>2, PlacesArePicked
<1>4. e \in ToSet(Entries(m))
  BY <1>1, <1>3 DEF ToSet
<1> QED
  BY <1>4 DEF AreTrueOf, IsTrueOf

LEMMA LoadedExcludesIds ==
  ASSUME SessionInv, NEW p \in Procs PROVE None \notin ExclusionIds(Loaded(p))
<1>1. AreTrueOf(MarkerOf("odin", p), store)
  BY MarkersAreTrue DEF SessionInv
<1>2. AreTrueOf(None, store)
  BY EmptyIsSequence DEF AreTrueOf, Entries, IsReadable
<1>3. AreTrueOf(Loaded(p), store)
  BY <1>1, <1>2 DEF Loaded, MarkerFor
<1> QED
  BY <1>3, ExcludedIdsAreIds

(* What is sent: the items that are no echoes, scrubbed. *)
LEMMA SentItemsFit ==
  ASSUME NEW items, IsSequence(items), NEW m, None \notin ExclusionIds(m),
         \A i \in ToSet(items) : DOMAIN i = {"uuid", "create", "subject", "body", "status"}
                                 /\ i.body \in DOMAIN Redacted,
         NEW sent, sent = Scrubbed(ApplyExportMarker(items, m))
  PROVE  /\ IsScrubbed(sent)
         /\ \A s \in ToSet(sent) : \E i \in ToSet(items) : Same(s, i)
         /\ \A i \in ToSet(items) : i.uuid = None => \E s \in ToSet(sent) : Same(s, i)
<1> DEFINE D == {n \in DOMAIN items : ~IsEcho(items[n], m)}
           kept == ApplyExportMarker(items, m)
<1>1. kept = AtPlaces(items, D) /\ D \in SUBSET DOMAIN items
  BY DEF ApplyExportMarker, Select
<1>2. \A n \in DOMAIN items : items[n].uuid = None => n \in D
  BY DEF IsEcho
<1> HIDE DEF D, kept
<1>3. IsSequence(kept) /\ ToSet(kept) = {items[n] : n \in D}
  BY <1>1, PlacesArePicked
<1>4. /\ \A k \in ToSet(kept) : k \in ToSet(items)
      /\ \A i \in ToSet(items) : i.uuid = None => i \in ToSet(kept)
  BY <1>1, <1>2, <1>3 DEF ToSet
<1>5. Len(kept) \in Nat /\ DOMAIN kept = 1..Len(kept) /\ \A n \in 1..Len(kept) : kept[n] \in ToSet(kept)
  BY <1>3, SequencesHave
<1>6. DOMAIN sent = 1..Len(kept) /\ sent = [n \in 1..Len(kept) |-> sent[n]]
  BY <1>5 DEF Scrubbed, kept
<1>7. ASSUME NEW n \in 1..Len(kept) PROVE sent[n].body \in Scrubs /\ Same(sent[n], kept[n])
  <2>1. sent[n] = [kept[n] EXCEPT !.body = Redacted[kept[n].body]]
    BY <1>5 DEF Scrubbed, kept
  <2>2. DOMAIN kept[n] = {"uuid", "create", "subject", "body", "status"} /\ kept[n].body \in DOMAIN Redacted
    BY <1>4, <1>5
  <2>3. sent[n].body = Redacted[kept[n].body] /\ Same(sent[n], kept[n])
    BY <2>1, <2>2 DEF Same
  <2> QED
    BY <2>2, <2>3 DEF Scrubs
<1>8. IsSequence(sent)
  BY <1>5, <1>6, TableIsSequence
<1>9. IsScrubbed(sent)
  BY <1>6, <1>7, <1>8 DEF IsScrubbed, ToSet
<1>10. ASSUME NEW s \in ToSet(sent) PROVE \E i \in ToSet(items) : Same(s, i)
  <2>1. PICK n \in 1..Len(kept) : s = sent[n]
    BY <1>6 DEF ToSet
  <2> QED
    BY <1>4, <1>5, <1>7, <2>1
<1>11. ASSUME NEW i \in ToSet(items), i.uuid = None PROVE \E s \in ToSet(sent) : Same(s, i)
  <2>1. PICK n \in 1..Len(kept) : i = kept[n]
    BY <1>4, <1>5, <1>11 DEF ToSet
  <2>2. sent[n] \in ToSet(sent)
    BY <1>6 DEF ToSet
  <2> QED
    BY <1>7, <2>1, <2>2
<1> QED
  BY <1>9, <1>10, <1>11

LEMMA ApplyKeepsSession ==
  ASSUME SessionInv, PreviewInv', NEW p \in Procs, Apply(p) PROVE SessionInv'
<1>1. pc[p] = "writing" /\ UNCHANGED <<store, minted, markers, ledger, queue, dumps, copy, draft>>
  BY DEF Apply, At
<1>2. StepOf(p) /\ LedgersFit(ledger', draft') /\ DumpsFit(dumps') /\ QueueFits(queue')
  BY <1>1, ApplyStep DEF SessionInv
<1>3. IsCall(call[p]) /\ CallFits(call[p], "writing", store, minted) /\ minted \in Nat
  BY <1>1, AtWorkHas DEF SessionInv
<1>4. CASE Fail(p)
  BY <1>1, <1>2, <1>4, FailsQuietly DEF Busy
<1> DEFINE sent == Scrubbed(ApplyExportMarker(call[p].items, Loaded(p)))
<1>5. ASSUME NEW dropped, GoTo(p, "sending"),
             Becomes(p, [call[p] EXCEPT !.sent = sent, !.dropped = call[p].dropped \cup dropped])
      PROVE  SessionInv'
  <2> DEFINE d == call[p].dropped \cup dropped
             c == [call[p] EXCEPT !.sent = sent, !.dropped = d]
  <2>1. pc'[p] = "sending" /\ call'[p] = c
    BY <1>5 DEF Becomes, GoTo, SessionInv, PreviewInv, Maps
  <2>2. ItemsFit(call[p], store) /\ CallHas(call[p], store)
        /\ Fresh(call[p], "writing") \subseteq (1..minted) \ DOMAIN store
    BY <1>3 DEF CallFits, Busy
  <2>3. None \notin ExclusionIds(Loaded(p))
    BY LoadedExcludesIds
  <2>4. /\ IsScrubbed(sent)
        /\ \A s \in ToSet(sent) : \E i \in ToSet(call[p].items) : Same(s, i)
        /\ \A i \in ToSet(call[p].items) : i.uuid = None => \E s \in ToSet(sent) : Same(s, i)
    BY <2>2, <2>3, SentItemsFit DEF ItemsFit
  <2> HIDE DEF sent, d
  <2>5. /\ c.sent = sent /\ c.items = call[p].items /\ c.op = call[p].op /\ c.proposing = call[p].proposing
        /\ CallHas(c, store)
    BY <1>3, <2>2 DEF CallHas, IsCall
  <2> HIDE DEF c
  <2>6. ItemsFit(c, store)
    BY <2>2, <2>5 DEF ItemsFit
  <2>7. SentFits(c)
    BY <2>4, <2>5 DEF SentFits
  <2>8. Fresh(c, "sending") = Fresh(call[p], "writing")
    BY <2>5 DEF Fresh, Busy
  <2>9. CallFits(c, "sending", store, minted)
    BY <2>2, <2>5, <2>6, <2>7, <2>8 DEF CallFits
  <2> QED
    BY <1>1, <1>2, <1>3, <2>1, <2>8, <2>9, OrdinaryStep DEF Places
<1> QED
  BY <1>4, <1>5 DEF Apply

(* What a batch that the store does not refuse makes of it. *)
LEMMA BatchesAreStored ==
  ASSUME SessionInv, NEW p \in Procs, pc[p] = "sending", ~StoreRefuses(store, call[p].sent),
         NEW st, st = PutAll(store, call[p].sent)
  PROVE  /\ IsStore(st, minted) /\ Grown(st, store)
         /\ DOMAIN st \subseteq DOMAIN store \cup Fresh(call[p], pc[p])
         /\ \A n \in DOMAIN call[p].sent :
              LET s == call[p].sent[n]
              IN  Target(s) \in DOMAIN st /\ Version(s) \in ToSet(st[Target(s)])
<1> DEFINE sent == call[p].sent
<1>1. /\ minted \in Nat /\ IsStore(store, minted) /\ ItemsFit(call[p], store) /\ SentFits(call[p])
      /\ Fresh(call[p], "sending") \subseteq (1..minted) \ DOMAIN store
  BY AtWorkHas DEF SessionInv, CallFits, Busy
<1>2. IsSequence(sent) /\ Len(sent) \in Nat /\ DOMAIN sent = 1..Len(sent)
      /\ \A n \in 1..Len(sent) : sent[n] \in ToSet(sent)
  BY <1>1, SequencesHave DEF SentFits, IsScrubbed
<1>3. Stored(store, sent, Len(sent), st)
  BY <1>1, <1>2, PutAllStores DEF IsStore
<1>4. ASSUME NEW n \in 1..Len(sent)
      PROVE  /\ Target(sent[n]) \in DOMAIN store \cup Fresh(call[p], "sending")
             /\ sent[n].body \in Scrubs /\ sent[n].status \in Statuses
  <2>1. PICK i \in ToSet(call[p].items) : Same(sent[n], i)
    BY <1>1, <1>2 DEF SentFits
  <2>2. sent[n].body \in Scrubs /\ sent[n].status \in Statuses
    BY <1>1, <1>2, <2>1 DEF SentFits, IsScrubbed, ItemsFit, Same
  <2>3. CASE sent[n].uuid # None
    BY <1>2, <2>2, <2>3 DEF StoreRefuses, Target
  <2>4. CASE sent[n].uuid = None
    <3>1. i.uuid = None /\ Target(sent[n]) = i.create
      BY <2>1, <2>4 DEF Same, Target
    <3> QED
      BY <2>1, <2>2, <3>1 DEF Fresh, Busy
  <2> QED
    BY <2>3, <2>4
<1> HIDE DEF sent
<1>5. DOMAIN st \subseteq DOMAIN store \cup Fresh(call[p], "sending")
  BY <1>3, <1>4 DEF Stored
<1>6. Grown(st, store)
  BY <1>3 DEF Stored, Grown
<1>7. IsStore(st, minted)
  <2>1. DOMAIN st \subseteq 1..minted
    BY <1>1, <1>5 DEF IsStore
  <2>2. ASSUME NEW id \in DOMAIN st, NEW v \in ToSet(st[id]) PROVE v.body \in Scrubs /\ v.status \in Statuses
    <3>1. CASE id \in DOMAIN store /\ v \in ToSet(store[id])
      BY <1>1, <3>1 DEF IsStore
    <3>2. CASE \E m \in 1..Len(sent) : v = Version(sent[m])
      BY <1>4, <3>2 DEF Version
    <3> QED
      BY <1>3, <3>1, <3>2 DEF Stored
  <2> QED
    BY <1>3, <2>1, <2>2 DEF IsStore, Stored
<1>8. \A n \in DOMAIN sent : Target(sent[n]) \in DOMAIN st /\ Version(sent[n]) \in ToSet(st[Target(sent[n])])
  BY <1>2, <1>3 DEF Stored
<1> QED
  BY <1>5, <1>6, <1>7, <1>8 DEF sent

(* A receipt of memories that are there is true. *)
LEMMA ReceiptOfStored ==
  ASSUME NEW n \in Nat, NEW st, IsStore(st, n), NEW nomarker, NEW items,
         \A i \in items : i.id \in DOMAIN st /\ \E v \in ToSet(st[i.id]) : v.subject = i.subject,
         NEW skill \in {"odin", "kvasir"}
  PROVE  IsReceipt([skill |-> skill, entry |-> Entry("export", nomarker, items, {}, FALSE)], st)
<1> DEFINE e == Entry("export", nomarker, items, {}, FALSE)
<1>1. e.items = items
  BY DEF Entry
<1>2. ASSUME NEW i \in items
      PROVE  i.id # None /\ i.id \in DOMAIN st /\ \E k \in DOMAIN st[i.id] : st[i.id][k].subject = i.subject
  <2>1. i.id \in Nat
    BY DEF IsStore
  <2>2. \E k \in DOMAIN st[i.id] : st[i.id][k].subject = i.subject
    BY DEF ToSet
  <2> QED
    BY <2>1, <2>2, SessionAssumption
<1> HIDE DEF e
<1>3. IsTrueOf(e, st)
  BY <1>1, <1>2 DEF IsTrueOf
<1> QED
  BY <1>3 DEF IsReceipt, e

(* The receipts of a batch that was stored name what it stored. *)
LEMMA SentReceiptsAreTrue ==
  ASSUME SessionInv, NEW p \in Procs, pc[p] = "sending", NEW confirmed,
         confirmed = [n \in DOMAIN call[p].sent |-> Target(call[p].sent[n])],
         NEW st, IsStore(st, minted), Grown(st, store),
         ~SetOptions(call[p]).dry =>
           \A n \in DOMAIN call[p].sent :
             LET s == call[p].sent[n]
             IN  Target(s) \in DOMAIN st /\ Version(s) \in ToSet(st[Target(s)]),
         NEW rs, rs = SendReceipt(call[p].sent, confirmed, SetOptions(call[p]), Session(p))
                        \o (IF call[p].op = "export"
                            THEN ExportReceipt(call[p].items, call[p].opts, Session(p)) ELSE << >>)
  PROVE  IsSequence(rs) /\ \A r \in ToSet(rs) : IsReceipt(r, st)
<1> DEFINE sent == call[p].sent
           opts == SetOptions(call[p])
           rs1 == SendReceipt(sent, confirmed, opts, Session(p))
           rs2 == IF call[p].op = "export"
                  THEN ExportReceipt(call[p].items, call[p].opts, Session(p)) ELSE << >>
<1>0. minted \in Nat /\ IsStore(store, minted) /\ ItemsFit(call[p], store) /\ SentFits(call[p])
  BY AtWorkHas DEF SessionInv, CallFits, Busy
<1>1. IsSequence(rs1) /\ \A r \in ToSet(rs1) : IsReceipt(r, st)
  <2> DEFINE items == {[id |-> confirmed[n], subject |-> sent[n].subject] : n \in DOMAIN sent}
             r1 == [skill |-> "odin", entry |-> Entry("export", FALSE, items, {}, FALSE)]
  <2>1. rs1 = << >> \/ (~opts.dry /\ rs1 = <<r1>>)
    BY DEF SendReceipt
  <2>2. CASE rs1 = << >>
    BY <2>2, EmptyIsSequence
  <2>3. CASE ~opts.dry /\ rs1 = <<r1>>
    <3>1. ASSUME NEW i \in items PROVE i.id \in DOMAIN st /\ \E v \in ToSet(st[i.id]) : v.subject = i.subject
      <4>1. PICK n \in DOMAIN sent : i.id = Target(sent[n]) /\ i.subject = sent[n].subject
        OBVIOUS
      <4>2. Target(sent[n]) \in DOMAIN st /\ Version(sent[n]) \in ToSet(st[Target(sent[n])])
        BY <2>3
      <4>3. Version(sent[n]).subject = sent[n].subject
        BY DEF Version
      <4> QED
        BY <4>1, <4>2, <4>3
    <3> HIDE DEF items, rs1
    <3>2. IsReceipt(r1, st)
      BY <1>0, <3>1, ReceiptOfStored
    <3> HIDE DEF r1
    <3> QED
      BY <2>3, <3>2, OneReceipt
  <2> QED
    BY <2>1, <2>2, <2>3
<1>2. IsSequence(rs2) /\ \A r \in ToSet(rs2) : IsReceipt(r, st)
  <2> DEFINE items == {[id |-> IF i.uuid # None THEN i.uuid ELSE i.create, subject |-> i.subject] :
                          i \in ToSet(call[p].items)}
             r2 == [skill |-> "kvasir", entry |-> Entry("export", FALSE, items, {}, FALSE)]
  <2>1. rs2 = << >> \/ (call[p].op = "export" /\ rs2 = <<r2>>)
    BY DEF ExportReceipt
  <2>2. CASE rs2 = << >>
    BY <2>2, EmptyIsSequence
  <2>3. CASE call[p].op = "export" /\ rs2 = <<r2>>
    <3>0. ~SetOptions(call[p]).dry
      BY <2>3 DEF SetOptions
    <3>1. ASSUME NEW i \in ToSet(call[p].items), i.uuid # None
          PROVE  i.uuid \in DOMAIN st /\ \E v \in ToSet(st[i.uuid]) : v.subject = i.subject
      <4>1. i.uuid \in DOMAIN store /\ Head(store[i.uuid]).subject = i.subject
        BY <1>0, <2>3, <3>1 DEF ItemsFit
      <4>2. Head(store[i.uuid]) \in ToSet(store[i.uuid])
        BY <1>0, <4>1, TailIsSequence DEF IsStore, Histories
      <4> QED
        BY <4>1, <4>2 DEF Grown, Continues
    <3>2. ASSUME NEW i \in ToSet(call[p].items), i.uuid = None
          PROVE  i.create \in DOMAIN st /\ \E v \in ToSet(st[i.create]) : v.subject = i.subject
      <4>1. PICK s \in ToSet(sent) : Same(s, i)
        BY <1>0, <3>2 DEF SentFits
      <4>2. Target(s) = i.create /\ Version(s).subject = i.subject
        BY <3>2, <4>1 DEF Same, Target, Version
      <4>3. Target(s) \in DOMAIN st /\ Version(s) \in ToSet(st[Target(s)])
        BY <3>0, <4>1 DEF ToSet
      <4> QED
        BY <4>2, <4>3
    <3>3. \A i \in items : i.id \in DOMAIN st /\ \E v \in ToSet(st[i.id]) : v.subject = i.subject
      BY <3>1, <3>2
    <3> HIDE DEF items, rs2
    <3>4. IsReceipt(r2, st)
      BY <1>0, <3>3, ReceiptOfStored
    <3> HIDE DEF r2
    <3> QED
      BY <2>3, <3>4, OneReceipt
  <2> QED
    BY <2>1, <2>2, <2>3
<1>3. rs = rs1 \o rs2
  OBVIOUS
<1> HIDE DEF rs1, rs2
<1>4. IsSequence(rs) /\ ToSet(rs) \subseteq ToSet(rs1) \cup ToSet(rs2)
  BY <1>1, <1>2, <1>3, ConcatIsSequence
<1> QED
  BY <1>1, <1>2, <1>4

LEMMA SendKeepsSession ==
  ASSUME SessionInv, PreviewInv', NEW p \in Procs, Send(p) PROVE SessionInv'
<1>1. pc[p] = "sending" /\ UNCHANGED <<minted, markers, ledger, queue, dumps, copy, draft>>
  BY DEF Send, At
<1>2. StepOf(p) /\ LedgersFit(ledger', draft') /\ DumpsFit(dumps') /\ QueueFits(queue')
  BY <1>1, SendStep DEF SessionInv
<1>3. IsCall(call[p]) /\ CallHas(call[p], store) /\ minted \in Nat /\ IsStore(store, minted)
  BY <1>1, AtWorkHas DEF SessionInv
<1> DEFINE confirmed == [n \in DOMAIN call[p].sent |-> Target(call[p].sent[n])]
           rs == SendReceipt(call[p].sent, confirmed, SetOptions(call[p]), Session(p))
                   \o (IF call[p].op = "export"
                       THEN ExportReceipt(call[p].items, call[p].opts, Session(p)) ELSE << >>)
<1>4. CASE Fail(p) /\ UNCHANGED store
  BY <1>1, <1>2, <1>4, FailsQuietly DEF Busy
<1>5. ASSUME ~StoreRefuses(store, call[p].sent),
             store' = IF SetOptions(call[p]).dry THEN store ELSE PutAll(store, call[p].sent),
             \/ Fail(p)
             \/ Becomes(p, [call[p] EXCEPT !.receipts = rs]) /\ GoTo(p, "marking")
      PROVE  SessionInv'
  <2> DEFINE st == IF SetOptions(call[p]).dry THEN store ELSE PutAll(store, call[p].sent)
  <2>1. /\ IsStore(st, minted) /\ Grown(st, store) /\ DOMAIN st \subseteq DOMAIN store \cup Fresh(call[p], pc[p])
        /\ ~SetOptions(call[p]).dry =>
             \A n \in DOMAIN call[p].sent :
               LET s == call[p].sent[n]
               IN  Target(s) \in DOMAIN st /\ Version(s) \in ToSet(st[Target(s)])
    <3>1. CASE SetOptions(call[p]).dry
      BY <1>3, <3>1, GrownIsReflexive
    <3>2. CASE ~SetOptions(call[p]).dry
      <4>1. st = PutAll(store, call[p].sent)
        BY <3>2
      <4> HIDE DEF st
      <4> QED
        BY <1>1, <1>5, <4>1, BatchesAreStored
    <3> QED
      BY <3>1, <3>2
  <2> HIDE DEF st
  <2>2. IsSequence(rs) /\ \A r \in ToSet(rs) : IsReceipt(r, st)
    <3> HIDE DEF rs
    <3>1. rs = SendReceipt(call[p].sent, confirmed, SetOptions(call[p]), Session(p))
                   \o (IF call[p].op = "export"
                       THEN ExportReceipt(call[p].items, call[p].opts, Session(p)) ELSE << >>)
      BY DEF rs
    <3> QED
      BY <1>1, <2>1, <3>1, SentReceiptsAreTrue
  <2> HIDE DEF rs, confirmed
  <2>3. store' = st
    BY <1>5 DEF st
  <2>4. CallHas(call[p], st)
    BY <1>3, <2>1, ReceiptsStayTrue DEF CallHas, IsReceipt
  <2>5. CallHas([call[p] EXCEPT !.receipts = rs], st)
    BY <1>3, <2>2, <2>4 DEF CallHas, IsCall
  <2>6. pc'[p] = "idle" \/ (pc'[p] = "marking" /\ CallHas(call'[p], st))
    <3>1. CASE Return(p)
      BY <3>1 DEF Return, GoTo, SessionInv, PreviewInv, Maps
    <3>2. CASE GoTo(p, "marking") /\ UNCHANGED call
      BY <2>4, <3>2 DEF GoTo, SessionInv, PreviewInv, Maps
    <3>3. CASE Becomes(p, [call[p] EXCEPT !.receipts = rs]) /\ GoTo(p, "marking")
      <4>1. pc'[p] = "marking" /\ call'[p] = [call[p] EXCEPT !.receipts = rs]
        BY <3>3 DEF Becomes, GoTo, SessionInv, PreviewInv, Maps
      <4> QED
        BY <2>5, <4>1
    <3> QED
      BY <1>5, <3>1, <3>2, <3>3 DEF Fail
  <2>7. Fresh(call'[p], pc'[p]) = {} /\ pc'[p] \in Places \ {"replacing"} /\ pc'[p] \notin Busy
    BY <2>6 DEF Fresh, Busy, Places
  <2>8. pc'[p] # "idle" => CallFits(call'[p], pc'[p], st, minted)
    BY <2>6, <2>7 DEF CallFits, Busy
  <2>9. MarkersFit(markers, st)
    <3>1. MarkersFit(markers, store)
      BY DEF SessionInv
    <3> QED
      BY <2>1, <3>1, ReceiptsStayTrue DEF MarkersFit, AreTrueOf
  <2>10. copy' = [copy EXCEPT ![p] = copy[p]] /\ CopyFits(copy[p], pc'[p], st)
    <3>1. copy' = [copy EXCEPT ![p] = copy[p]] /\ CopyFits(copy[p], pc[p], store)
      BY <1>1 DEF SessionInv
    <3> QED
      BY <1>1, <2>1, <2>7, <3>1, ReceiptsStayTrue DEF CopyFits
  <2>11. /\ minted' \in Nat /\ minted <= minted' /\ IsStore(store', minted')
         /\ pc'[p] # "idle" => CallFits(call'[p], pc'[p], store', minted')
    BY <1>1, <1>3, <2>1, <2>3, <2>8
  <2>12. /\ Grown(store', store) /\ DOMAIN store' \subseteq DOMAIN store \cup Fresh(call[p], pc[p])
         /\ MarkersFit(markers', store') /\ CopyFits(copy[p], pc'[p], store')
         /\ pc'[p] \in Places /\ copy' = [copy EXCEPT ![p] = copy[p]]
    BY <1>1, <2>1, <2>3, <2>7, <2>9, <2>10
  <2>13. Fresh(call'[p], pc'[p]) \subseteq Fresh(call[p], pc[p]) \cup (minted + 1)..minted'
    BY <2>7
  <2> QED
    BY <1>2, <2>11, <2>12, <2>13, StepsKeepSession
<1>6. \/ Fail(p) /\ UNCHANGED store
      \/ /\ ~StoreRefuses(store, call[p].sent)
         /\ store' = IF SetOptions(call[p]).dry THEN store ELSE PutAll(store, call[p].sent)
         /\ Fail(p) \/ (Becomes(p, [call[p] EXCEPT !.receipts = rs]) /\ GoTo(p, "marking"))
  BY DEF Send
<1> QED
  BY <1>4, <1>5, <1>6

LEMMA ReadMarkerKeepsSession ==
  ASSUME SessionInv, PreviewInv', NEW p \in Procs, ReadMarker(p) PROVE SessionInv'
<1>1. /\ pc[p] = "marking" /\ UNCHANGED <<store, minted, markers, ledger, queue, dumps, call, draft>>
      /\ call[p].receipts # << >> /\ GoTo(p, "replacing")
  BY DEF ReadMarker, At
<1>2. StepOf(p) /\ LedgersFit(ledger', draft') /\ DumpsFit(dumps') /\ QueueFits(queue') /\ MarkersFit(markers, store)
  BY <1>1, ReadMarkerStep DEF SessionInv
<1>3. IsCall(call[p]) /\ CallHas(call[p], store) /\ minted \in Nat /\ IsStore(store, minted)
  BY <1>1, AtWorkHas DEF SessionInv
<1> DEFINE r == Head(call[p].receipts)
           m == MarkerOf(r.skill, p)
           cp == Recorded(m, r.entry)
<1>4. r.skill \in {"odin", "kvasir"} /\ IsTrueOf(r.entry, store)
  <2>1. r \in ToSet(call[p].receipts)
    BY <1>1, <1>3, TailIsSequence DEF CallHas
  <2> QED
    BY <1>3, <2>1 DEF CallHas, IsReceipt
<1>5. AreTrueOf(m, store)
  BY <1>2, <1>4, MarkersAreTrue
<1>6. copy' = [copy EXCEPT ![p] = cp]
  BY DEF ReadMarker
<1> HIDE DEF r
<1>7. CopyFits(cp, "replacing", store)
  <2>1. cp = Append(Entries(m), r.entry) /\ IsSequence(Entries(m))
    BY <1>5 DEF Recorded, AreTrueOf
  <2> HIDE DEF cp
  <2>2. IsSequence(cp) /\ cp # << >> /\ ToSet(cp) = ToSet(Entries(m)) \cup {r.entry}
    BY <2>1, AppendIsSequence
  <2> QED
    BY <1>4, <1>5, <2>2 DEF CopyFits, AreTrueOf
<1> HIDE DEF cp
<1>8. pc'[p] = "replacing" /\ call'[p] = call[p]
  BY <1>1 DEF GoTo, SessionInv, PreviewInv, Maps
<1>9. Fresh(call'[p], pc'[p]) = {}
  BY <1>8 DEF Fresh, Busy
<1>10. CallFits(call'[p], pc'[p], store, minted)
  BY <1>3, <1>8, <1>9 DEF CallFits, Busy
<1>11. /\ minted' \in Nat /\ minted <= minted' /\ IsStore(store', minted')
       /\ Grown(store', store) /\ DOMAIN store' \subseteq DOMAIN store \cup Fresh(call[p], pc[p])
       /\ pc'[p] \in Places /\ CallFits(call'[p], pc'[p], store', minted')
  BY <1>1, <1>3, <1>8, <1>10, GrownIsReflexive DEF Places
<1>12. MarkersFit(markers', store') /\ CopyFits(cp, pc'[p], store')
  BY <1>1, <1>2, <1>7, <1>8
<1> QED
  BY <1>2, <1>6, <1>9, <1>11, <1>12, StepsKeepSession

LEMMA ReplaceMarkerKeepsSession ==
  ASSUME SessionInv, PreviewInv', NEW p \in Procs, ReplaceMarker(p) PROVE SessionInv'
<1>1. /\ pc[p] = "replacing" /\ UNCHANGED <<store, minted, ledger, queue, dumps, draft>>
      /\ copy' = [copy EXCEPT ![p] = << >>]
      /\ Becomes(p, [call[p] EXCEPT !.receipts = Tail(call[p].receipts)]) /\ GoTo(p, "marking")
  BY DEF ReplaceMarker, At
<1>2. StepOf(p) /\ LedgersFit(ledger', draft') /\ DumpsFit(dumps') /\ QueueFits(queue')
  BY <1>1, ReplaceMarkerStep DEF SessionInv
<1>3. /\ IsCall(call[p]) /\ CallHas(call[p], store) /\ minted \in Nat /\ IsStore(store, minted)
      /\ MarkersFit(markers, store) /\ CopyFits(copy[p], "replacing", store)
  BY <1>1, AtWorkHas DEF SessionInv
<1>4. AreTrueOf(copy[p], store)
  <2>1. Entries(copy[p]) = copy[p] \/ Entries(copy[p]) = << >>
    BY DEF Entries
  <2> QED
    BY <1>3, <2>1, EmptyIsSequence DEF AreTrueOf, CopyFits
<1>5. MarkersFit(markers', store)
  <2>1. PICK key : markers' = markers \/ markers' = [markers EXCEPT ![key] = copy[p]]
    BY DEF ReplaceMarker
  <2>2. DOMAIN markers' = DOMAIN markers
    BY <2>1
  <2>3. \A k \in DOMAIN markers : markers'[k] = markers[k] \/ markers'[k] = copy[p]
    BY <2>1
  <2> QED
    BY <1>3, <1>4, <2>2, <2>3 DEF MarkersFit
<1> DEFINE rest == Tail(call[p].receipts)
           c == [call[p] EXCEPT !.receipts = rest]
<1>6. CallHas(c, store)
  <2>1. IsSequence(rest) /\ ToSet(rest) \subseteq ToSet(call[p].receipts)
    <3>1. IsSequence(call[p].receipts)
      BY <1>3 DEF CallHas
    <3>2. CASE call[p].receipts = << >>
      BY <3>1, <3>2, EmptyIsSequence
    <3> QED
      BY <3>1, <3>2, TailIsSequence
  <2> HIDE DEF rest
  <2> QED
    BY <1>3, <2>1 DEF CallHas, IsCall
<1> HIDE DEF rest
<1>7. pc'[p] = "marking" /\ call'[p] = c
  BY <1>1 DEF GoTo, Becomes, rest, SessionInv, PreviewInv, Maps
<1> HIDE DEF c
<1>8. Fresh(call'[p], pc'[p]) = {}
  BY <1>7 DEF Fresh, Busy
<1>9. CallFits(call'[p], pc'[p], store, minted)
  BY <1>6, <1>7, <1>8 DEF CallFits, Busy
<1>10. CopyFits(<< >>, "marking", store)
  BY EmptyIsSequence DEF CopyFits
<1>11. /\ minted' \in Nat /\ minted <= minted' /\ IsStore(store', minted')
       /\ Grown(store', store) /\ DOMAIN store' \subseteq DOMAIN store \cup Fresh(call[p], pc[p])
       /\ pc'[p] \in Places /\ CallFits(call'[p], pc'[p], store', minted')
  BY <1>1, <1>3, <1>7, <1>9, GrownIsReflexive DEF Places
<1>12. MarkersFit(markers', store') /\ CopyFits(<< >>, pc'[p], store')
  BY <1>1, <1>5, <1>7, <1>10
<1> QED
  BY <1>1, <1>2, <1>8, <1>11, <1>12, StepsKeepSession

------------------------------------------------------------------------------
LEMMA SessionsStart == Init => SessionInv /\ PhaseInv
<1> SUFFICES ASSUME Init PROVE SessionInv /\ PhaseInv
  OBVIOUS
<1>1. PreviewInv /\ PhaseInv
  BY PreviewsStart DEF Init, PhaseInv
<1>2. store = OldStore /\ minted = Cardinality(DOMAIN OldStore)
      /\ markers \in OldMarkers /\ ledger \in OldLedgers /\ queue = {} /\ dumps = OldDumps
  BY DEF Init
<1>3. minted \in Nat /\ IsStore(store, minted)
  <2>1. IsSequence(OldStore)
    BY SessionAssumption
  <2>2. Len(OldStore) \in Nat /\ DOMAIN OldStore = 1..Len(OldStore)
    BY <2>1, SequencesHave
  <2>3. minted \in Nat /\ DOMAIN OldStore \subseteq 1..minted
    <3> DEFINE L == Len(OldStore)
    <3>1. Cardinality(1..L) = IF 1 > L THEN 0 ELSE L - 1 + 1
      BY <2>2, FS_Interval
    <3>2. minted = L
      BY <1>2, <2>2, <3>1
    <3> QED
      BY <2>2, <3>2
  <2> QED
    BY <1>2, <2>2, <2>3, SessionAssumption DEF IsStore, Histories, Statuses
<1>4. MarkersFit(markers, store)
  BY <1>2, SessionAssumption DEF MarkersFit
<1>5. LedgersFit(ledger, draft)
  <2>1. LedgerFits(ledger)
    BY <1>2, SessionAssumption DEF LedgerFits
  <2>2. \A p \in Procs : draft[p] = NoDraft
    BY DEF Init
  <2> QED
    BY <2>1, <2>2, NoLedgerFits DEF LedgersFit
<1>6. DumpsFit(dumps) /\ QueueFits(queue)
  BY <1>2, SessionAssumption DEF DumpsFit, QueueFits
<1>7. \A p \in Procs : pc[p] = "idle" /\ copy[p] = << >>
  BY DEF Init
<1>8. \A p \in Procs : CopyFits(copy[p], pc[p], store)
  BY <1>7, EmptyIsSequence DEF CopyFits
<1>9. \A p \in Procs : Fresh(call[p], pc[p]) = {}
  BY <1>7 DEF Fresh, Busy
<1>10. DOMAIN copy = Procs /\ copy = [p \in Procs |-> copy[p]]
  BY DEF Init
<1> QED
  BY <1>1, <1>3, <1>4, <1>5, <1>6, <1>7, <1>8, <1>9, <1>10 DEF SessionInv, Places

LEMMA SessionsAreKept == SessionInv /\ PhaseInv /\ [Next]_vars => (SessionInv /\ PhaseInv)'
<1> SUFFICES ASSUME SessionInv, PhaseInv, [Next]_vars PROVE SessionInv' /\ PhaseInv'
  OBVIOUS
<1>1. PreviewInv /\ PreviewInv' /\ PhaseInv'
  BY PreviewsAreKept, PhasesAreKept DEF SessionInv
<1>2. CASE Next
  <2>1. PICK p \in Procs :
          \/ Set(p) \/ Import(p, "odin") \/ Import(p, "kvasir") \/ Load(p) \/ Dump(p) \/ Export(p)
          \/ Serve(p) \/ Die(p)
    BY <1>2 DEF Next
  <2>2. CASE Set(p) \/ Import(p, "odin") \/ Import(p, "kvasir") \/ Load(p) \/ Dump(p) \/ Export(p)
    BY <1>1, <2>2, SetKeepsSession, ImportKeepsSession, LoadKeepsSession, DumpKeepsSession, ExportKeepsSession
  <2>3. CASE Serve(p)
    BY <1>1, <2>3, QueueHeldKeepsSession, CheckInitiativeKeepsSession, OpenGateKeepsSession,
       SpendNextKeepsSession, AnswerKeepsSession, LedgerKeepsSession, CloseGateKeepsSession, GateFailsKeepsSession,
       ResolveGroupKeepsSession, PreflightKeepsSession, PreflightHeldKeepsSession, VetoKeepsSession,
       ApplyKeepsSession, SendKeepsSession, ReadMarkerKeepsSession, ReplaceMarkerKeepsSession,
       AdvanceKeepsSession
       DEF Serve
  <2>4. CASE Die(p)
    BY <1>1, <2>4, DieKeepsSession
  <2> QED
    BY <1>1, <2>1, <2>2, <2>3, <2>4
<1>3. CASE UNCHANGED vars
  <2>1. /\ UNCHANGED <<store, minted, markers, ledger, queue, dumps, pc, call, copy, draft>>
    BY <1>3 DEF vars
  <2> QED
    BY <1>1, <2>1 DEF SessionInv
<1> QED
  BY <1>1, <1>2, <1>3

LEMMA SessionsHold == Spec => [](SessionInv /\ PhaseInv)
BY SessionsStart, SessionsAreKept, PTL DEF Spec

(* What is stored was scrubbed, whoever wrote it: no secret of a record    *)
(* gets to the store, the queue or a dump, and no gate spends more attempts*)
(* than the settings allow.                                                *)
THEOREM SessionTypeCorrect == Spec => []TypeOK
<1>1. SessionInv => TypeOK
  <2> SUFFICES ASSUME SessionInv PROVE TypeOK
    OBVIOUS
  <2>1. ASSUME NEW id \in DOMAIN store, NEW n \in DOMAIN store[id]
        PROVE  store[id][n].body \in Scrubs /\ store[id][n].status \in {"approved", "proposed"}
    BY DEF SessionInv, IsStore, ToSet, Statuses
  <2>2. DOMAIN store \subseteq 1..minted
    BY DEF SessionInv, IsStore
  <2>3. ASSUME NEW p \in Procs
        PROVE  /\ pc[p] \in Places /\ (call[p] = NoCall) = (pc[p] = "idle")
               /\ (copy[p] # << >>) = (pc[p] = "replacing")
               /\ (draft[p] # NoDraft) = (pc[p] \in {"opening", "spending", "noting"})
    <3>1. pc[p] \in Places /\ CopyFits(copy[p], pc[p], store) /\ Placed(call[p], pc[p])
      BY DEF SessionInv, PreviewInv
    <3>2. call[p] = NoCall <=> pc[p] = "idle"
      BY <3>1 DEF Placed, NoCall, IsCall
    <3>3. copy[p] # << >> <=> pc[p] = "replacing"
      BY <3>1 DEF CopyFits
    <3>4. draft[p] # NoDraft <=> pc[p] \in {"opening", "spending", "noting"}
      BY DEF SessionInv, PreviewInv, DraftsFit, DraftFits, NoDraft, LedgerPlaces
    <3> QED
      BY <3>1, <3>2, <3>3, <3>4
  <2>4. IsLedger(ledger) => \A k \in DOMAIN ledger : ledger[k].attempts \in 0..MostAttempts
    BY DEF SessionInv, LedgersFit, LedgerFits
  <2>5. \A d \in ToSet(dumps) : \A c \in ToSet(d.records) : c.body \in Scrubs \cup {None}
    BY DEF SessionInv, DumpsFit
  <2>6. \A e \in queue : e.body \in Scrubs
    BY DEF SessionInv, QueueFits
  <2> QED
    BY <2>1, <2>2, <2>3, <2>4, <2>5, <2>6 DEF TypeOK
<1> QED
  BY <1>1, SessionsHold, PTL

(* _mark_send_receipt, _mark_export_receipt: every receipt of a marker is  *)
(* true, in whatever order the processes send, die and write their markers.*)
THEOREM ReceiptsAreTrue == Spec => []ReceiptsNameWhatIsStored
<1>1. SessionInv => ReceiptsNameWhatIsStored
  BY DEF SessionInv, MarkersFit, AreTrueOf, IsTrueOf, ReceiptsNameWhatIsStored
<1> QED
  BY <1>1, SessionsHold, PTL

(* Only a request changes the store. *)
LEMMA OnlySendsStore ==
  ASSUME NEW p \in Procs, OneStep(p)
  PROVE  Send(p) \/ UNCHANGED store
<1>1. CASE Set(p) \/ Import(p, "odin") \/ Import(p, "kvasir") \/ Load(p) \/ Dump(p) \/ Export(p) \/ Die(p)
  BY <1>1 DEF Set, Import, Load, Dump, Export, Die
<1>2. CASE Serve(p)
  <2>1. CASE QueueHeld(p) \/ CheckInitiative(p) \/ OpenGate(p) \/ SpendNext(p) \/ Answer(p)
    BY <2>1 DEF QueueHeld, CheckInitiative, OpenGate, SpendNext, Answer
  <2>4. CASE ReplaceLedger(p) \/ TearLedger(p) \/ KeepLedger(p)
    BY <2>4 DEF ReplaceLedger, TearLedger, KeepLedger
  <2>2. CASE CloseGate(p) \/ GateFails(p) \/ ResolveGroup(p) \/ Preflight(p) \/ PreflightHeld(p)
    BY <2>2 DEF CloseGate, GateFails, ResolveGroup, Preflight, PreflightHeld
  <2>3. CASE Veto(p) \/ Apply(p) \/ ReadMarker(p) \/ ReplaceMarker(p) \/ Advance(p)
    BY <2>3 DEF Veto, Apply, ReadMarker, ReplaceMarker, Advance
  <2> QED
    BY <1>2, <2>1, <2>2, <2>3, <2>4 DEF Serve
<1> QED
  BY <1>1, <1>2 DEF OneStep

(* _persist_proposed: a proposal is a create when it is sent, whoever      *)
(* stored its subject since the proposals' preflight.                      *)
THEOREM ProposalsAreNew == Spec => ProposalsOnlyCreate
<1> DEFINE Creating ==
      \A p \in Procs : Steps(p) /\ call[p] # NoCall /\ call[p].proposing =>
         \A id \in DOMAIN store : store'[id] = store[id]
<1>1. SessionInv /\ [Next]_vars => [Creating]_vars
  <2> SUFFICES ASSUME SessionInv, Next, NEW p \in Procs, Steps(p), call[p] # NoCall, call[p].proposing,
                      NEW id \in DOMAIN store
               PROVE  store'[id] = store[id]
    OBVIOUS
  <2>1. PICK q \in Procs : OneStep(q) /\ StepOf(q)
    BY EveryStep DEF SessionInv
  <2>3. q = p
    BY <2>1 DEF StepOf, Steps
  <2>4. CASE Send(p)
    <3>1. pc[p] = "sending" /\ (UNCHANGED store \/ store' = PutAll(store, call[p].sent))
      BY <2>4 DEF Send, At
    <3> DEFINE sent == call[p].sent
    <3>2. /\ IsStore(store, minted) /\ ItemsFit(call[p], store) /\ SentFits(call[p])
          /\ Fresh(call[p], "sending") \subseteq (1..minted) \ DOMAIN store
      BY <3>1, AtWorkHas DEF SessionInv, CallFits, Busy
    <3>3. IsSequence(sent) /\ Len(sent) \in Nat /\ \A n \in 1..Len(sent) : sent[n] \in ToSet(sent)
      BY <3>2, SequencesHave DEF SentFits, IsScrubbed
    <3>4. ASSUME NEW n \in 1..Len(sent) PROVE Target(sent[n]) \notin DOMAIN store
      <4>1. PICK i \in ToSet(call[p].items) : Same(sent[n], i)
        BY <3>2, <3>3 DEF SentFits
      <4>2. i.uuid = None /\ Target(sent[n]) = i.create
        BY <3>2, <4>1 DEF ItemsFit, Same, Target
      <4> QED
        BY <3>2, <4>1, <4>2 DEF Fresh, Busy
    <3>5. Stored(store, sent, Len(sent), PutAll(store, sent))
      BY <3>2, <3>3, PutAllStores DEF IsStore
    <3>6. id \notin {Target(sent[m]) : m \in 1..Len(sent)}
      BY <3>4
    <3> QED
      BY <3>1, <3>5, <3>6 DEF Stored
  <2> QED
    BY <2>1, <2>3, <2>4, OnlySendsStore
<1> QED
  BY <1>1, SessionsHold, PTL DEF Spec, ProposalsOnlyCreate
------------------------------------------------------------------------------
(* The cap of the ledger                                                   *)

(* The entry being worked on is written, whatever the cap.                 *)
LEMMA EntryInHandIsWritten ==
  ASSUME NEW entries, NEW cap, NEW id \in DOMAIN entries
  PROVE  LET key == [legacy |-> FALSE, id |-> id]
             file == WriteCapped(entries, cap, {id})
         IN  key \in DOMAIN file /\ file[key] = entries[id]
<1> DEFINE l == CapLedger(entries, cap, {id})
           key == [legacy |-> FALSE, id |-> id]
<1>1. id \in DOMAIN l /\ l[id] = entries[id]
  BY DEF CapLedger
<1> HIDE DEF l
<1>2. key \in DOMAIN WriteLedger(l) /\ WriteLedger(l)[key] = l[id]
  BY <1>1 DEF WriteLedger
<1> QED
  BY <1>1, <1>2 DEF WriteCapped, l

(* While the attempt is on its way to the file: it was counted on from what*)
(* the file said, which is still what it says when nobody else has written.*)
IsSpent(c, d, l) ==
  LET id == c.gated[c.judged + 1].subject
  IN  /\ c.attempt \in 1..c.settings.attempts
      /\ d.hold = "own" =>
           c.attempt = NextAttempt(l, id) /\ d.file = SpendAttempt(l, id, c.settings)
SpendInv == \A p \in Procs : pc[p] = "spending" => IsSpent(call[p], draft[p], ledger)

LEMMA AttemptsAreCounted ==
  ASSUME SessionInv, NEW p \in Procs, SpendNext(p), pc'[p] = "spending"
  PROVE  IsSpent(call'[p], draft'[p], ledger')
<1> DEFINE s == call[p].settings
           id == NextGated(p).subject
           n == NextAttempt(ledger, id)
           c == [call[p] EXCEPT !.attempt = n]
<1>1. pc[p] = "scoring" /\ UNCHANGED ledger
  BY DEF SpendNext, At
<1>2. CallHas(call[p], store) /\ IsCall(call[p])
  BY <1>1, AtWorkHas
<1>3. s \in Settings /\ s.attempts \in Nat
  BY <1>2, AttemptsAreNumbers DEF CallHas
<1>4. /\ HasAttempts(ledger, id, s) /\ StartWriting(p, SpendAttempt(ledger, id, s))
      /\ call' = [call EXCEPT ![p] = c]
  <2>1. pc' # pc /\ ~GoTo(p, "noting")
    BY <1>1 DEF GoTo, SessionInv, PreviewInv, Maps
  <2> HIDE DEF id, s
  <2> QED
    BY <2>1 DEF SpendNext, Becomes, id, s
<1>5. draft'[p].file = SpendAttempt(ledger, id, s)
  <2>1. pc'[p] \in LedgerPlaces
    BY DEF LedgerPlaces
  <2> QED
    BY <1>4, <2>1, WritersStart DEF SessionInv
<1>6. n \in 1..s.attempts
  <2> DEFINE spent == EntryIn(ReadLedger(ledger), id).attempts
  <2>1. spent \in 0..MostAttempts
    BY LedgersAreRead DEF SessionInv, LedgersFit
  <2>2. spent \in Nat /\ spent < s.attempts /\ n = spent + 1
    BY <1>4, <2>1, AttemptsAreNumbers DEF HasAttempts, NextAttempt
  <2> HIDE DEF spent, n
  <2> QED
    BY <1>3, <2>2
<1>7. call'[p] = c
  BY <1>4 DEF SessionInv, PreviewInv, Maps
<1> HIDE DEF n, c
<1>8. c.attempt = n /\ c.settings = s /\ c.gated = call[p].gated /\ c.judged = call[p].judged
  BY <1>2 DEF IsCall, c
<1>9. id = call'[p].gated[call'[p].judged + 1].subject
  BY <1>7, <1>8 DEF NextGated
<1> HIDE DEF id, s
<1> QED
  BY <1>1, <1>5, <1>6, <1>7, <1>8, <1>9 DEF IsSpent, n

(* How a process comes to spend, and from there to ask. *)
LEMMA OnlySpendingSpends ==
  ASSUME PreviewInv, NEW p \in Procs, OneStep(p)
  PROVE  /\ pc'[p] = "spending" => SpendNext(p) \/ TearLedger(p)
         /\ pc[p] = "spending" /\ pc'[p] = "asking" => ReplaceLedger(p)
<1>1. \A place : GoTo(p, place) => pc'[p] = place
  BY DEF GoTo, PreviewInv, Maps
<1>2. CASE \/ Set(p) \/ Import(p, "odin") \/ Import(p, "kvasir") \/ Load(p) \/ Dump(p) \/ Export(p)
           \/ QueueHeld(p) \/ CheckInitiative(p) \/ ResolveGroup(p) \/ Preflight(p) \/ PreflightHeld(p)
           \/ Veto(p) \/ Apply(p) \/ Send(p) \/ ReadMarker(p) \/ ReplaceMarker(p) \/ Advance(p)
  BY <1>2, OtherSteps DEF OffLedger
<1>3. CASE OpenGate(p) \/ Answer(p)
  <2>1. \/ Return(p) \/ UNCHANGED pc
        \/ \E place \in {"judged", "opening", "scoring", "noting"} : GoTo(p, place)
    BY <1>3 DEF OpenGate, StartScoring, Answer
  <2>2. pc[p] \in {"gate", "asking"}
    BY <1>3 DEF OpenGate, Answer, At
  <2> QED
    BY <1>1, <2>1, <2>2 DEF Return
<1>4. CASE CloseGate(p) \/ GateFails(p) \/ Die(p)
  <2>1. GoTo(p, "judged") \/ GoTo(p, "idle")
    BY <1>4 DEF CloseGate, GateFails, Die, Return
  <2> QED
    BY <1>1, <2>1
<1>5. CASE ReplaceLedger(p)
  <2>1. GoTo(p, "asking") \/ GoTo(p, "scoring")
    BY <1>5 DEF ReplaceLedger
  <2> QED
    BY <1>1, <1>5, <2>1
<1>6. CASE TearLedger(p) \/ SpendNext(p)
  <2>1. UNCHANGED pc \/ pc[p] = "scoring"
    BY <1>6 DEF TearLedger, SpendNext, At
  <2> QED
    BY <1>6, <2>1
<1>7. CASE KeepLedger(p)
  BY <1>1, <1>7 DEF KeepLedger
<1> QED
  BY <1>2, <1>3, <1>4, <1>5, <1>6, <1>7 DEF OneStep, Serve

LEMMA SpendingIsKept == SessionInv /\ SpendInv /\ [Next]_vars => SpendInv'
<1> SUFFICES ASSUME SessionInv, SpendInv, [Next]_vars, NEW q \in Procs, pc'[q] = "spending"
             PROVE  IsSpent(call'[q], draft'[q], ledger')
  BY DEF SpendInv, IsSpent
<1>1. CASE Next
  <2>1. PICK p \in Procs : OneStep(p) /\ StepOf(p) /\ DraftStep(p)
    BY <1>1, EveryStep DEF SessionInv
  <2>2. CASE q # p
    <3>1. pc[q] = "spending" /\ call'[q] = call[q]
      BY <2>1, <2>2 DEF StepOf
    <3>2. IsSpent(call[q], draft[q], ledger)
      BY <3>1 DEF SpendInv
    <3>3. draft'[q].hold = "own" => draft'[q] = draft[q] /\ ledger' = ledger
      BY <2>1, <2>2 DEF DraftStep
    <3> QED
      BY <3>1, <3>2, <3>3 DEF IsSpent
  <2>3. CASE q = p /\ SpendNext(q)
    BY <2>3, AttemptsAreCounted
  <2>4. CASE q = p /\ TearLedger(q)
    <3>1. pc' = pc /\ call' = call /\ draft' = draft /\ draft[q].hold = "moved"
      BY <2>4 DEF TearLedger
    <3>2. IsSpent(call[q], draft[q], ledger)
      BY <3>1 DEF SpendInv
    <3> QED
      BY <3>1, <3>2 DEF IsSpent
  <2> QED
    BY <2>1, <2>2, <2>3, <2>4, OnlySpendingSpends DEF SessionInv
<1>2. CASE UNCHANGED vars
  <2>1. pc' = pc /\ call' = call /\ draft' = draft /\ ledger' = ledger
    BY <1>2 DEF vars
  <2> QED
    BY <2>1 DEF SpendInv
<1> QED
  BY <1>1, <1>2

(* The ledger that replaces the old one has the attempt when its writer is *)
(* still alone with the temporary file.                                    *)
LEMMA OwnDraftsAreMoved ==
  ASSUME PreviewInv, NEW p \in Procs, ReplaceLedger(p), draft[p].hold = "own"
  PROVE  ledger' = draft[p].file
<1>1. {q \in Procs \ {p} : draft[q].hold = "shared"} = {}
  BY DEF PreviewInv, DraftsFit, OwnAlone
<1> QED
  BY <1>1 DEF ReplaceLedger

LEMMA SpentLedgersHaveIt ==
  ASSUME NEW file, NEW id, NEW s
  PROVE  LET key == [legacy |-> FALSE, id |-> id]
             new == SpendAttempt(file, id, s)
         IN  key \in DOMAIN new /\ new[key].attempts = NextAttempt(file, id)
<1> DEFINE l == ReadLedger(file)
           key == [legacy |-> FALSE, id |-> id]
           entry == [attempts |-> NextAttempt(file, id), best |-> EntryIn(l, id).best]
           entries == [i \in DOMAIN l \cup {id} |-> IF i = id THEN entry ELSE l[i]]
<1>1. SpendAttempt(file, id, s) = WriteCapped(entries, s.cap, {id})
  BY DEF SpendAttempt
<1>2. id \in DOMAIN entries /\ entries[id] = entry /\ entry.attempts = NextAttempt(file, id)
  OBVIOUS
<1> HIDE DEF entries, entry
<1>3. key \in DOMAIN WriteCapped(entries, s.cap, {id}) /\ WriteCapped(entries, s.cap, {id})[key] = entry
  BY <1>2, EntryInHandIsWritten
<1> QED
  BY <1>1, <1>2, <1>3

(* next_attempt, cap_ledger: whatever the ledger held, whatever its cap,    *)
(* for any processes, and with the file read and replaced in two steps, the *)
(* model is asked about a record with an attempt within the setting, which  *)
(* is on file and counted on from it: a ledger at its cap does not evict    *)
(* the entry it has just counted (issue 182 in cap_ledger).  Only another   *)
(* gate whose read and write overlap with these two can undo it.            *)
THEOREM NoQuestionIsFree == Spec => AttemptsAreSpentFirst
<1> DEFINE OnFile ==
      \A p \in Procs : pc[p] = "spending" /\ pc'[p] = "asking" =>
        LET key == [legacy |-> FALSE, id |-> NextGated(p).subject]
        IN  /\ call[p].attempt \in 1..call[p].settings.attempts
            /\ draft[p].hold = "own" =>
                 /\ call[p].attempt = NextAttempt(ledger, key.id)
                 /\ key \in DOMAIN ledger' /\ ledger'[key].attempts = call[p].attempt
<1>1. Init => SpendInv
  BY DEF Init, SpendInv
<1>2. SessionInv /\ SpendInv /\ [Next]_vars => [OnFile]_vars
  <2> SUFFICES ASSUME SessionInv, SpendInv, Next, NEW p \in Procs, pc[p] = "spending", pc'[p] = "asking"
               PROVE  LET key == [legacy |-> FALSE, id |-> NextGated(p).subject]
                      IN  /\ call[p].attempt \in 1..call[p].settings.attempts
                          /\ draft[p].hold = "own" =>
                               /\ call[p].attempt = NextAttempt(ledger, key.id)
                               /\ key \in DOMAIN ledger' /\ ledger'[key].attempts = call[p].attempt
    OBVIOUS
  <2> DEFINE id == NextGated(p).subject
             s == call[p].settings
  <2>1. PICK q \in Procs : OneStep(q) /\ StepOf(q)
    BY EveryStep DEF SessionInv
  <2>2. q = p
    BY <2>1 DEF StepOf
  <2>3. ReplaceLedger(p)
    BY <2>1, <2>2, OnlySpendingSpends DEF SessionInv
  <2>4. /\ call[p].attempt \in 1..s.attempts
        /\ draft[p].hold = "own" =>
             call[p].attempt = NextAttempt(ledger, id) /\ draft[p].file = SpendAttempt(ledger, id, s)
    BY DEF SpendInv, IsSpent, NextGated
  <2>5. draft[p].hold = "own" => ledger' = SpendAttempt(ledger, id, s)
    BY <2>3, <2>4, OwnDraftsAreMoved DEF SessionInv
  <2> HIDE DEF id
  <2>6. LET key == [legacy |-> FALSE, id |-> id]
        IN  draft[p].hold = "own" => key \in DOMAIN ledger' /\ ledger'[key].attempts = NextAttempt(ledger, id)
    BY <2>5, SpentLedgersHaveIt
  <2> QED
    BY <2>4, <2>6 DEF id
<1> QED
  BY <1>1, <1>2, SpendingIsKept, SessionsHold, PTL DEF Spec, AttemptsAreSpentFirst

(* The first n of an order of a set: those with fewer than n before them.  *)
First(S, R, n) == {a \in S : Cardinality({b \in S : <<b, a>> \in R}) < n}

(* The first n of a finite set are at most n, and before all the others.   *)
LEMMA FirstOnesAreFew ==
  ASSUME NEW S, IsFiniteSet(S), NEW R, NEW n \in Nat,
         \A a, b \in S : a # b => <<a, b>> \in R \/ <<b, a>> \in R,
         \A a \in S : <<a, a>> \notin R,
         \A a, b, c \in S : <<a, b>> \in R /\ <<b, c>> \in R => <<a, c>> \in R
  PROVE  /\ IsFiniteSet(First(S, R, n)) /\ Cardinality(First(S, R, n)) <= n
         /\ \A a \in First(S, R, n), b \in S \ First(S, R, n) : <<a, b>> \in R
<1> DEFINE below(a) == {b \in S : <<b, a>> \in R}
           size(a) == Cardinality(below(a))
           first == {a \in S : size(a) < n}
<1>1. ASSUME NEW a \in S
      PROVE  IsFiniteSet(below(a)) /\ size(a) \in Nat /\ a \notin below(a)
  <2>1. below(a) \in SUBSET S /\ a \notin below(a)
    OBVIOUS
  <2> HIDE DEF below
  <2>2. IsFiniteSet(below(a))
    BY <2>1, FS_Subset
  <2> QED
    BY <2>1, <2>2, FS_CardinalityType
<1>2. ASSUME NEW a \in S, NEW b \in S, <<a, b>> \in R
      PROVE  size(a) < size(b)
  <2>1. below(a) \cup {a} \in SUBSET below(b)
    BY <1>2
  <2>2. /\ IsFiniteSet(below(a)) /\ IsFiniteSet(below(b)) /\ a \notin below(a)
        /\ Cardinality(below(a)) \in Nat /\ Cardinality(below(b)) \in Nat
    BY <1>1
  <2> HIDE DEF below
  <2>3. Cardinality(below(a) \cup {a}) = Cardinality(below(a)) + 1
    BY <2>2, FS_AddElement
  <2>4. Cardinality(below(a) \cup {a}) <= Cardinality(below(b))
    BY <2>1, <2>2, FS_Subset
  <2> QED
    BY <2>2, <2>3, <2>4
<1>3. first \in SUBSET S
  OBVIOUS
<1>4. IsFiniteSet(first)
  <2> HIDE DEF first
  <2> QED
    BY <1>3, FS_Subset
<1>5. ASSUME NEW a \in first, NEW b \in S \ first
      PROVE  <<a, b>> \in R
  <2>1. a # b /\ a \in S /\ b \in S /\ size(a) < n /\ ~(size(b) < n)
    BY <1>5
  <2>2. size(a) \in Nat /\ size(b) \in Nat
    BY <1>1, <2>1
  <2> HIDE DEF size, first
  <2>3. <<b, a>> \notin R
    BY <1>2, <2>1, <2>2
  <2> QED
    BY <2>1, <2>3
<1>6. Cardinality(first) <= n
  <2>1. CASE first = {}
    <3> HIDE DEF first
    <3> QED
      BY <2>1, FS_EmptySet
  <2>2. CASE first # {}
    <3> DEFINE left(a) == n - size(a)
               L == {left(a) : a \in first}
    <3>1. \A a \in first : a \in S /\ size(a) < n /\ size(a) \in Nat
      BY <1>1
    <3> HIDE DEF size, first
    <3>2. L \in SUBSET Nat /\ L # {}
      BY <2>2, <3>1
    <3>3. PICK k \in L : \A m \in L : k <= m
      <4> HIDE DEF L
      <4> QED
        BY <3>2, LeastNumber
    <3>4. PICK a \in first : k = left(a)
      OBVIOUS
    <3>5. ASSUME NEW b \in first, b # a PROVE b \in below(a)
      <4>1. size(b) <= size(a)
        <5>1. left(b) \in L /\ left(a) <= left(b)
          BY <3>3, <3>4
        <5>2. size(b) \in Nat /\ size(a) \in Nat
          BY <3>1
        <5> QED
          BY <5>1, <5>2
      <4>2. <<a, b>> \notin R
        BY <1>2, <3>1, <4>1
      <4> QED
        BY <3>1, <3>5, <4>2
    <3>6. first \in SUBSET (below(a) \cup {a})
      BY <3>5
    <3>7. IsFiniteSet(below(a)) /\ size(a) = Cardinality(below(a)) /\ size(a) \in Nat /\ size(a) < n
      BY <1>1, <3>1 DEF size
    <3> HIDE DEF below
    <3>8. /\ IsFiniteSet(below(a) \cup {a})
          /\ Cardinality(below(a) \cup {a}) \in {Cardinality(below(a)), Cardinality(below(a)) + 1}
      BY <3>7, FS_AddElement
    <3>9. Cardinality(first) <= Cardinality(below(a) \cup {a})
      BY <3>6, <3>8, FS_Subset
    <3>10. /\ Cardinality(first) \in Nat /\ Cardinality(below(a) \cup {a}) \in Nat
      BY <1>4, <3>8, FS_CardinalityType
    <3> QED
      BY <3>7, <3>8, <3>9, <3>10
  <2> QED
    BY <2>1, <2>2
<1>7. first = First(S, R, n)
  BY DEF First
<1> HIDE DEF first
<1> QED
  BY <1>4, <1>5, <1>6, <1>7

(* cap_ledger: however many entries a session has made, at most cap of them*)
(* are written; the one in hand is, and an entry that is dropped has spent *)
(* at least as much as any other that stays, so that what is forgotten is  *)
(* what had the fewest attempts left.  Digests differ, and so do their     *)
(* places.                                                                 *)
THEOREM TheLeastSpentStay ==
  ASSUME NEW entries, IsFiniteSet(DOMAIN entries),
         \A i \in DOMAIN entries : entries[i].attempts \in Nat /\ Rank[i] \in Nat,
         \A i, j \in DOMAIN entries : Rank[i] = Rank[j] => i = j,
         NEW cap \in Nat \ {0}, NEW id, NEW keep \in {{}, {id}}
  PROVE  LET kept == DOMAIN CapLedger(entries, cap, keep)
         IN  /\ Cardinality(kept) <= cap
             /\ keep \cap DOMAIN entries \subseteq kept
             /\ \A a \in DOMAIN entries \ kept, b \in kept \ keep :
                   entries[b].attempts <= entries[a].attempts
<1> DEFINE before(a, b) == \/ entries[a].attempts < entries[b].attempts
                           \/ entries[a].attempts = entries[b].attempts /\ Rank[a] < Rank[b]
           others == DOMAIN entries \ keep
           hand == keep \cap DOMAIN entries
           R == {p \in others \X others : before(p[1], p[2])}
           room == cap - Cardinality(hand)
           least == {a \in others : Cardinality({b \in others : <<b, a>> \in R}) < room}
           kept == DOMAIN CapLedger(entries, cap, keep)
<1>1. CASE Cardinality(DOMAIN entries) <= cap
  <2>1. CapLedger(entries, cap, keep) = entries
    BY <1>1 DEF CapLedger
  <2> QED
    BY <1>1, <2>1
<1>2. CASE ~(Cardinality(DOMAIN entries) <= cap)
  <2>1. IsFiniteSet(others) /\ others \in SUBSET DOMAIN entries
    <3>1. others \in SUBSET DOMAIN entries
      OBVIOUS
    <3> QED
      BY <3>1, FS_Subset
  <2>2. IsFiniteSet(hand) /\ Cardinality(hand) \in {0, 1} /\ room \in Nat
    <3>1. hand = {} \/ hand = {id}
      OBVIOUS
    <3> HIDE DEF hand
    <3>2. IsFiniteSet(hand) /\ Cardinality(hand) \in {0, 1}
      <4>1. CASE hand = {}
        BY <4>1, FS_EmptySet
      <4>2. CASE hand = {id}
        <5>1. IsFiniteSet({id}) /\ Cardinality({id}) = 1
          BY FS_Singleton
        <5> QED
          BY <4>2, <5>1
      <4> QED
        BY <3>1, <4>1, <4>2
    <3> QED
      BY <3>2
  <2>3. \A a, b : <<a, b>> \in R <=> a \in others /\ b \in others /\ before(a, b)
    OBVIOUS
  <2>4. kept = least \cup hand
    <3>1. \A a \in others : {b \in others : <<b, a>> \in R} = {b \in others : before(b, a)}
      BY <2>3
    <3> DEFINE fewer == {a \in others : Cardinality({b \in others : before(b, a)})
                                          + Cardinality(hand) < cap}
    <3>2. kept = fewer \cup hand
      BY <1>2 DEF CapLedger
    <3>3. ASSUME NEW a \in others PROVE a \in fewer <=> a \in least
      <4> DEFINE B == {b \in others : before(b, a)}
      <4>1. B \in SUBSET others
        OBVIOUS
      <4> HIDE DEF B
      <4>2. Cardinality(B) \in Nat
        BY <2>1, <4>1, FS_Subset, FS_CardinalityType
      <4>3. Cardinality(B) + Cardinality(hand) < cap <=> Cardinality(B) < room
        BY <2>2, <4>2
      <4>4. B = {b \in others : <<b, a>> \in R}
        BY <3>1 DEF B
      <4> QED
        BY <4>3, <4>4 DEF B
    <3> QED
      BY <3>2, <3>3
  <2>5. \A a \in others : entries[a].attempts \in Nat /\ Rank[a] \in Nat
    OBVIOUS
  <2>6. \A a, b \in others : Rank[a] = Rank[b] => a = b
    OBVIOUS
  <2>7. \A a, b \in others : a # b => before(a, b) \/ before(b, a)
    BY <2>5, <2>6
  <2>8. \A a \in others : ~before(a, a)
    BY <2>5
  <2>9. \A a, b, c \in others : before(a, b) /\ before(b, c) => before(a, c)
    BY <2>5
  <2>10. \A a, b \in others : before(a, b) => entries[a].attempts <= entries[b].attempts
    BY <2>5
  <2> HIDE DEF before, others, hand, room
  <2>11. /\ \A a, b \in others : a # b => <<a, b>> \in R \/ <<b, a>> \in R
         /\ \A a \in others : <<a, a>> \notin R
         /\ \A a, b, c \in others : <<a, b>> \in R /\ <<b, c>> \in R => <<a, c>> \in R
    BY <2>3, <2>7, <2>8, <2>9
  <2> HIDE DEF R
  <2>12. /\ IsFiniteSet(least) /\ Cardinality(least) <= room
         /\ \A a \in least, b \in others \ least : <<a, b>> \in R
    <3>1. least = First(others, R, room)
      BY DEF First
    <3> HIDE DEF least
    <3> QED
      BY <2>1, <2>2, <2>11, <3>1, FirstOnesAreFew
  <2> HIDE DEF least
  <2>13. Cardinality(kept) <= cap
    <3>1. /\ Cardinality(least \cup hand) =
               Cardinality(least) + Cardinality(hand) - Cardinality(least \cap hand)
          /\ Cardinality(least) \in Nat /\ Cardinality(least \cap hand) \in Nat
      <4>1. least \cap hand \in SUBSET hand
        OBVIOUS
      <4>2. IsFiniteSet(least \cap hand)
        BY <2>2, <4>1, FS_Subset
      <4> QED
        BY <2>2, <2>12, <4>2, FS_Union, FS_CardinalityType
    <3>2. Cardinality(least) <= cap - Cardinality(hand)
      BY <2>12 DEF room
    <3> QED
      BY <2>2, <2>4, <3>1, <3>2
  <2>14. ASSUME NEW a \in DOMAIN entries \ kept, NEW b \in kept \ keep
         PROVE  entries[b].attempts <= entries[a].attempts
    <3>1. hand \subseteq keep /\ \A i \in DOMAIN entries : i \in hand \/ i \in others
      BY DEF hand, others
    <3>2. b \in least /\ a \in others \ least
      BY <2>4, <2>14, <3>1
    <3>3. a \in others /\ b \in others
      BY <3>2 DEF least
    <3>4. <<b, a>> \in R
      BY <2>12, <3>2
    <3>5. before(b, a)
      BY <2>3, <3>4
    <3> QED
      BY <2>10, <3>3, <3>5
  <2>15. keep \cap DOMAIN entries \subseteq kept
    BY <2>4 DEF hand
  <2> QED
    BY <2>13, <2>14, <2>15
<1> QED
  BY <1>1, <1>2
=============================================================================
