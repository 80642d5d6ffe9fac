------------------------------ MODULE Dossier ------------------------------
(***************************************************************************)
(* The dossier skill (dossier_composer.py) and the procedure its SKILL.md  *)
(* puts around it: preview a selection, have it approved, fetch the bundle *)
(* of the same selection into the scratch folder, compose it as often as   *)
(* wanted under different focuses, and delete the scratch folder.  Between *)
(* two of these steps the checkout may change branch and the store may     *)
(* capture another memory.                                                 *)
(*                                                                         *)
(* The Host answers a preview and a bundle from the store at that moment.  *)
(***************************************************************************)
EXTENDS Composition, SessionScan

CONSTANTS Checkouts,  \* the working copies a session may start in
          BranchTicketSets, \* the tickets the name of another branch may hold
          Args,       \* the anchors a call may give, as flags and in its --body
          Stores,     \* the bundles the store may answer at first
          NewItem,    \* the memory a capture adds to the slice
          Judgements, \* the judgements the agent may write, or None
          Evidence,   \* the near-miss evidence it may write, or None
          MaxRuns,    \* bound: compositions started
          MaxCaptures,\* bound: captures while the skill is used
          MaxSwitches \* bound: branch switches while the skill is used

ASSUME InputsAreTyped ==
  /\ \A b \in Stores : IsBundle(b)
  /\ IsItem(NewItem)
  /\ \A c \in Checkouts : "branchTickets" \in DOMAIN c
  /\ "none" \in DOMAIN Affinity
  /\ \A j \in Judgements \ {None} : j.groups \in Seq(ToSet(j.groups))
  /\ MaxCaptures \in Nat /\ MaxSwitches \in Nat

VARIABLES checkout, \* the working copy heimdallr scans
          store,    \* the bundle the store answers now
          approved, \* [scope, count] of the preview the practitioner approved
          saved,    \* [scope, bundle] in the scratch folder
          run,      \* the compose in progress
          artefact, \* the dossier at --out
          changes   \* captures and switches so far
vars == <<checkout, store, approved, saved, run, artefact, changes>>

Idle == [stage |-> "idle", judged |-> None, evidence |-> None, focus |-> "none",
         precedes |-> {}, ordered |-> << >>, cycles |-> {}, broken |-> {}]

Init ==
  /\ checkout \in Checkouts
  /\ store \in Stores
  /\ approved = None /\ saved = None /\ artefact = None
  /\ run = Idle
  /\ changes = [runs |-> 0, captures |-> 0, switches |-> 0]

-----------------------------------------------------------------------------
(* build_bundle_body: a key of --body wins over its flag; the contract     *)
(* takes one ticket. *)
Given(args, field) == IF args.body[field] # None THEN args.body[field] ELSE args.flags[field]
TicketsGiven(args) ==
  IF args.body.ticket # None THEN {args.body.ticket} ELSE args.flags.tickets
AnchorsAreRefused(args) ==
  \/ args.widenDepth \notin 1..5
  \/ Cardinality(TicketsGiven(args)) > 1
(* _heimdallr_autofill: fills what nobody gave, a ticket only when the     *)
(* branch names exactly one.                                               *)
Autofilled(value, found) == IF value = None THEN found ELSE value
OnlyTicket(tickets) == IF Cardinality(tickets) = 1 THEN CHOOSE t \in tickets : TRUE ELSE None
AnchorBody(args) ==
  LET scan == Scanned(checkout, None)
      given == [repo |-> Given(args, "repo"), ticket |-> OnlyTicket(TicketsGiven(args))]
  IN  IF args.heimdallr
      THEN [repo |-> Autofilled(given.repo, scan.repository),
            ticket |-> Autofilled(given.ticket, OnlyTicket(BranchTickets(scan)))]
      ELSE given
(* _resolve_read_credentials: a loopback base, the read token, and no      *)
(* write token anywhere.                                                   *)
RequestIsRefused(args) == args.writeToken \/ ~args.readToken \/ ~args.loopback \/ AnchorsAreRefused(args)

(* cmd_preview, and the practitioner's approval of what it shows. *)
Preview(args) ==
  /\ run.stage = "idle" /\ saved = None
  /\ ~RequestIsRefused(args)
  /\ approved' = [scope |-> AnchorBody(args), count |-> store.count]
  /\ UNCHANGED <<checkout, store, saved, run, artefact, changes>>

(* _require_ignored_path: only a gitignored file of a work tree is written.*)
DestinationIsRefused(args) == ~args.ignored
(* cmd_bundle: the destination is checked before anything is fetched. *)
Fetch(args) ==
  /\ run.stage = "idle" /\ approved # None /\ saved = None
  /\ ~DestinationIsRefused(args)
  /\ ~RequestIsRefused(args)
  /\ saved' = [scope |-> AnchorBody(args), bundle |-> store]
  /\ UNCHANGED <<checkout, store, approved, run, artefact, changes>>

(* The comparison of step 3: a bundle that is not the one approved is      *)
(* thrown away and previewed again.                                        *)
IsApproved == saved.scope = approved.scope /\ saved.bundle.count = approved.count
(* Step 6, also after a refusal: the scratch folder is deleted. *)
DeleteScratch ==
  /\ run.stage = "idle" /\ saved # None
  /\ saved' = None /\ approved' = None
  /\ UNCHANGED <<checkout, store, run, artefact, changes>>

-----------------------------------------------------------------------------
(* cmd_compose.  Its inputs are refused before the bundle is read. *)
InputsAreRefused(judged, evidence) ==
  \/ judged # None /\ (~judged.private \/ \E f \in judged.findings : f.category = "near-miss-tag")
  \/ evidence # None /\ EvidenceIsRefused(evidence)
StartCompose(judged, evidence, focus) ==
  /\ run.stage = "idle" /\ saved # None /\ IsApproved /\ changes.runs < MaxRuns
  /\ ~InputsAreRefused(judged, evidence)
  /\ ValidBundle(saved.bundle)
  /\ run' = [Idle EXCEPT !.stage = "ordering", !.judged = judged, !.evidence = evidence,
                         !.focus = focus, !.precedes = Precedes(saved.bundle)]
  /\ changes' = [changes EXCEPT !.runs = @ + 1]
  /\ UNCHANGED <<checkout, store, approved, saved, artefact>>

Remaining == Keys(saved.bundle) \ ToSet(run.ordered)
NextReady == Ready(Keys(saved.bundle), run.precedes, run.ordered)
(* topological_order: the earliest of the items nothing unread precedes. *)
EmitReady ==
  /\ run.stage = "ordering" /\ NextReady # {}
  /\ run' = [run EXCEPT !.ordered = Append(@, Earliest(saved.bundle, NextReady))]
  /\ UNCHANGED <<checkout, store, approved, saved, artefact, changes>>

(* A mutant: the cycle is stated and the item is not emitted. *)
StateOnly(reach) ==
  LET cycles == IF run.cycles = {} THEN Cycles(Remaining, reach) ELSE run.cycles
  IN  run' = [run EXCEPT !.cycles = cycles]
(* The break point: the earliest item of a cycle that nothing left over    *)
(* leads into.  The cycles are those of the items the first pass left.     *)
BreakAt(reach) ==
  LET breakpoint == Earliest(saved.bundle, Unfed(Remaining, reach))
      cycles == IF run.cycles = {} THEN Cycles(Remaining, reach) ELSE run.cycles
      unstated == {c \in cycles : breakpoint \in c /\ ~\E s \in run.broken : s[1] = c}
  IN  run' = [run EXCEPT !.ordered = Append(@, breakpoint),
                         !.cycles = cycles,
                         !.broken = @ \cup {<<c, breakpoint>> : c \in unstated}]
BreakCycle ==
  /\ run.stage = "ordering" /\ NextReady = {} /\ Remaining # {}
  /\ \E pairs \in {run.precedes \cap (Remaining \X Remaining)} :
       \E reach \in {Closure(pairs)} : BreakAt(reach)
  /\ UNCHANGED <<checkout, store, approved, saved, artefact, changes>>

(* compose, from the ordered items to the document. *)
Groups == IF run.judged = None THEN << >> ELSE run.judged.groups
CallerFindings ==
  (IF run.judged = None THEN {} ELSE run.judged.findings)
    \cup (IF run.evidence = None THEN {} ELSE {AsCallerFinding(f) : f \in NearMisses(run.evidence)})
ComposeIsRefused ==
  \/ GroupsAreRefused(saved.bundle, Groups)
  \/ \E f \in CallerFindings : FindingIsRefused(saved.bundle, f)
DeriveFindings ==
  ObservedFindings(saved.bundle)
    \cup {Finding("provenance-cycle", c) : c \in run.cycles}
    \cup UncertainFindings(saved.bundle, Groups)
    \cup {Finding(f.category, f.memories) : f \in CallerFindings}
Ordered == run.stage = "ordering" /\ Remaining = {}
WriteClaims(claims, surfaced) ==
  LET omissions == Omissions(saved.bundle, claims, run.focus)
  IN  /\ Reconciles(saved.bundle, surfaced, omissions)
      /\ artefact' = [bundle |-> saved.bundle,
                      claims |-> Rendered(saved.bundle, run.ordered, surfaced),
                      omitted |-> omissions,
                      findings |-> DeriveFindings]
Write ==
  /\ Ordered /\ ~ComposeIsRefused
  /\ \E claims \in {Claims(saved.bundle, Groups)} :
       \E surfaced \in {Surfaced(saved.bundle, claims, run.focus)} : WriteClaims(claims, surfaced)
  /\ run' = Idle
  /\ UNCHANGED <<checkout, store, approved, saved, changes>>
(* A refusal, or a write that fails: the document at --out stays what it   *)
(* was, as _write_private replaces it in one step.                         *)
EndWithoutDocument ==
  /\ Ordered
  /\ run' = Idle
  /\ UNCHANGED <<checkout, store, approved, saved, artefact, changes>>

-----------------------------------------------------------------------------
SwitchBranch(tickets) ==
  /\ run.stage = "idle" /\ changes.switches < MaxSwitches
  /\ checkout' = [checkout EXCEPT !.branchTickets = tickets]
  /\ changes' = [changes EXCEPT !.switches = @ + 1]
  /\ UNCHANGED <<store, approved, saved, run, artefact>>
Capture ==
  /\ run.stage = "idle" /\ changes.captures < MaxCaptures
  /\ store' = [store EXCEPT !.items = Append(@, NewItem), !.count = @ + 1]
  /\ changes' = [changes EXCEPT !.captures = @ + 1]
  /\ UNCHANGED <<checkout, approved, saved, run, artefact>>

Compose == EmitReady \/ BreakCycle \/ Write \/ EndWithoutDocument
Next ==
  \/ \E args \in Args : Preview(args) \/ Fetch(args)
  \/ \E j \in Judgements, e \in Evidence, f \in DOMAIN Affinity : StartCompose(j, e, f)
  \/ EmitReady \/ BreakCycle \/ Write \/ EndWithoutDocument
  \/ DeleteScratch
  \/ \E t \in BranchTicketSets : SwitchBranch(t)
  \/ Capture
Spec == Init /\ [][Next]_vars
(* The composer is one process that runs to its end. *)
FairSpec == Spec /\ WF_vars(Compose)

-----------------------------------------------------------------------------
(* Every variable holds a value of its kind. *)
TypeOK ==
  /\ checkout.branchTickets \in {c.branchTickets : c \in Checkouts} \cup BranchTicketSets
  /\ run.stage \in {"idle", "ordering"} /\ run.focus \in DOMAIN Affinity
  /\ saved # None => approved # None /\ ToSet(run.ordered) \subseteq Keys(saved.bundle)
  /\ Len(run.ordered) = Cardinality(ToSet(run.ordered))
  /\ changes.captures \in 0..MaxCaptures /\ changes.switches \in 0..MaxSwitches

(* An item reads after everything it rests on and after the earlier        *)
(* versions of its memory, unless both stand on one reported cycle; when   *)
(* the order is complete, every reported cycle states an item of its own   *)
(* at which it was broken.  topological_order breaks a cycle by its        *)
(* business key, which must not let an item that merely hangs off a cycle  *)
(* read too early. *)
ReadsAfterWhatItRestsOn ==
  run.stage = "ordering" =>
    /\ \A p \in run.precedes :
         \/ p[2] \notin ToSet(run.ordered)
         \/ \E m, n \in DOMAIN run.ordered :
              m < n /\ run.ordered[m] = p[1] /\ run.ordered[n] = p[2]
         \/ \E c \in run.cycles : {p[1], p[2]} \subseteq c
    /\ Remaining = {} => \A c \in run.cycles : \E s \in run.broken : s[1] = c /\ s[2] \in c

(* Nothing selected is lost on the way to a document: every item of the    *)
(* bundle is cited by exactly one claim or listed as omitted, every        *)
(* omission of the bundle is still listed, and a claim shows the           *)
(* conditions of each of its origins. *)
IsWhole(document) ==
  LET cited(k) == {n \in DOMAIN document.claims : k \in document.claims[n].cited}
      listed == {o.key : o \in document.omitted}
  IN  /\ \A k \in Keys(document.bundle) :
           \/ Cardinality(cited(k)) = 1 /\ k \notin listed
           \/ cited(k) = {} /\ k \in listed
      /\ OmittedKeys(document.bundle.omitted) \subseteq listed
      /\ \A k \in Keys(document.bundle), n \in DOMAIN document.claims :
           n \in cited(k) => ItemOf(document.bundle, k).conditions \subseteq document.claims[n].conditions
(* The document at --out loses nothing of the bundle it was made from: a   *)
(* consolidation, the lens of a focus and a claim of mixed kinds must not  *)
(* lose an item between them. *)
NothingSelectedIsLost == artefact # None => IsWhole(artefact)

(* A composition that has started ends, whatever cycles the bundle holds:  *)
(* topological_order makes progress at every break. *)
ComposingEnds == run.stage = "ordering" ~> run.stage = "idle"
=============================================================================
