---------------------------- MODULE KvasirExport ----------------------------
(***************************************************************************)
(* The decisions of the kvasir client (understanding_client.py): which     *)
(* input an export reads, what of it becomes a candidate, what binds it,   *)
(* what is held back and what is sent.                                     *)
(*                                                                         *)
(* A record of the material is [kind, subject, body, origin, slug, scope]; *)
(* a candidate is such a record.  A dump is [folder, session, records,     *)
(* binding], a binding [tickets, initiative, scope].                       *)
(***************************************************************************)
EXTENDS ContextClient, DecisionsGate

CONSTANTS
    CredentialShaped,   \* the names the redactor would change
    Bundled,            \* the bodies the atomicity detector finds bundled
    ToBeDecided         \* the initiative that stands for none

Heimdallr == INSTANCE SessionScan

(* resolve_input: an explicit input, else the newest dump of this session, *)
(* else the newest of any, which a write refuses.                          *)
DumpsOf(dumps, session) ==
  IF session = NoSession THEN << >> ELSE Select(dumps, LAMBDA d : d.session = session)
DefaultInput(dumps, session) ==
  IF DumpsOf(dumps, session) # << >> THEN Last(DumpsOf(dumps, session)) ELSE Last(dumps)
InputIsRefused(dumps, session, dry) ==
  DumpsOf(dumps, session) = << >> /\ (dumps = << >> \/ ~dry)

(* export_candidates: understandings with a statement; a table or a text   *)
(* too short to carry a fact is set aside.                                 *)
ExportCandidates(records) ==
  Select(records, LAMBDA r : r.kind = "understanding" /\ r.body # None)
(* _apply_marker_exclusions: what came from a memory or a unit the marker  *)
(* names is dropped; what only shares a subject is kept.                   *)
IsExcluded(c, marker) == c.origin \in ExclusionIds(marker) \/ c.slug \in ExclusionSlugs(marker)
ApplyMarkerExclusions(candidates, marker) ==
  Select(candidates, LAMBDA c : ~IsExcluded(c, marker))
(* reconcile_source_scope: one export writes one scope. *)
ScopesOf(candidates) == {c.scope : c \in ToSet(candidates)} \ {None}
ScopeIsRefused(candidates, binding) ==
  /\ ScopesOf(candidates) # {}
  /\ IF binding.scope = None
     THEN {c.scope : c \in ToSet(candidates)} # ScopesOf(candidates) \/ Cardinality(ScopesOf(candidates)) > 1
     ELSE ScopesOf(candidates) # {binding.scope}
(* gate_redaction and gate_atomicity. *)
GateRedaction(candidates) ==
  [n \in DOMAIN candidates |-> [candidates[n] EXCEPT !.body = Redacted[@]]]
Clean(candidates) == Select(candidates, LAMBDA c : c.body \notin Bundled)
Held(candidates) == Select(candidates, LAMBDA c : c.body \in Bundled)

(* The binding: flags, then the dump's metadata, then the checkout; of its *)
(* tickets those of the branch, else one a commit names.                   *)
FirstGiven(values) ==
  LET given == SelectSeq(values, LAMBDA v : v \notin {None, {}})
  IN  IF given = << >> THEN Last(values) ELSE Head(given)
AutofillTickets(scan) ==
  IF Heimdallr!BranchTickets(scan) # {} THEN Heimdallr!BranchTickets(scan)
  ELSE IF scan.tickets = {} THEN {} ELSE {(CHOOSE f \in scan.tickets : TRUE).ticket}
Bind(flags, recorded, scan) ==
  [tickets |-> FirstGiven(<<flags.tickets, recorded.tickets, AutofillTickets(scan)>>),
   initiative |-> FirstGiven(<<flags.initiative, recorded.initiative, scan.initiative>>),
   scope |-> FirstGiven(<<flags.scope, recorded.scope>>)]
NoBinding == [tickets |-> {}, initiative |-> None, scope |-> None]
(* initiative_exists, and the group that resolves to another initiative.   *)
InitiativeIsKnown(binding, initiatives) ==
  binding.initiative \in initiatives \cup {None, ToBeDecided}
InitiativeMismatch(binding, group) ==
  binding.initiative # None /\ ~group.created /\ group.initiative # None
    /\ group.initiative # binding.initiative

(* build_version_map: the memory of the group with a candidate's subject.  *)
VersionMap(candidate, held) == IF held[candidate.subject] = {} THEN None
                               ELSE CHOOSE id \in held[candidate.subject] : TRUE
SubjectsCollide(chunk) ==
  \E m, n \in DOMAIN chunk : m # n /\ chunk[m].subject = chunk[n].subject
(* set_items: an update of the match or a create under a new id. *)
SetItems(chunk, held, minted, status) ==
  [n \in DOMAIN chunk |->
     LET uuid == VersionMap(chunk[n], held)
         creates == {m \in 1..n : VersionMap(chunk[m], held) = None}
     IN  [uuid |-> uuid,
          create |-> IF uuid = None THEN minted + Cardinality(creates) ELSE None,
          subject |-> chunk[n].subject, body |-> chunk[n].body, status |-> status]]
(* A mutant: what the group has is proposed as well. *)
PersistableOrNot(chunk, held, seen) ==
  Select(chunk, LAMBDA c : c.subject \in DOMAIN held \ seen)
(* _persist_proposed_batch: only the first of a subject the group has not. *)
Persistable(chunk, held, seen) ==
  LET twin(n) == \E m \in 1..(n - 1) : chunk[m].subject = chunk[n].subject
      new == {n \in DOMAIN chunk : VersionMap(chunk[n], held) = None
                                    /\ chunk[n].subject \notin seen /\ ~twin(n)}
  IN  AtPlaces(chunk, new)

(* _mark_export_receipt: the items of a write that succeeded. *)
ExportReceipt(items, opts, session) ==
  IF opts.nomarker \/ session = NoSession \/ items = << >> THEN << >>
  ELSE <<[skill |-> "kvasir",
          entry |-> Entry("export", FALSE,
                          {[id |-> IF i.uuid # None THEN i.uuid ELSE i.create, subject |-> i.subject] :
                             i \in ToSet(items)}, {}, FALSE)]>>
DumpReceipt(opts, session) ==
  IF opts.nomarker \/ session = NoSession THEN << >>
  ELSE <<[skill |-> "kvasir", entry |-> Entry("export", FALSE, {}, {}, TRUE)]>>
(* _mark_import: ids of records from the store, slugs of units. *)
ImportReceipt(verb, rows, slugs, selected, opts, session) ==
  IF session = NoSession \/ (rows = {} /\ slugs = {} /\ ~selected /\ ~opts.nomarker) THEN << >>
  ELSE <<[skill |-> "kvasir", entry |-> Entry(verb, opts.nomarker, rows, slugs, selected)]>>

(* gate_decisions: only a score that fails every role holds a candidate,   *)
(* and only when the setting says hold.                                    *)
VerdictHolds(scores, settings) ==
  PassingRoles(scores, settings) = {} /\ settings.below = "hold"

(* refuse_unsafe_target, of a folder [root, directory, repository, marked, *)
(* holds].                                                                 *)
UnsafeTarget(f) == f.root \/ ~f.directory \/ f.repository \/ (~f.marked /\ f.holds)
(* scrub_binding: a value the redactor changes is withheld. *)
ScrubBinding(binding) ==
  [tickets |-> binding.tickets \ CredentialShaped,
   initiative |-> IF binding.initiative \in CredentialShaped THEN None ELSE binding.initiative,
   scope |-> binding.scope]
=============================================================================
