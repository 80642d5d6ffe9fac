--------------------------- MODULE DecisionsGate ---------------------------
(***************************************************************************)
(* The decisions gate (decisions_gate.py): each record is scored by a      *)
(* model against the rubric's roles, and a ledger file bounds how often a  *)
(* record may be scored.                                                   *)
(*                                                                         *)
(* The file is NoLedger, BadLedger, or a function from keys to entries: a  *)
(* key is [legacy, id], legacy when it holds the identity itself and not   *)
(* its digest; an entry is [attempts, best], best an [attempt, max] or     *)
(* NoBest.  Probabilities are numbers.                                     *)
(*                                                                         *)
(* Settings are [enabled, roles, below, attempts, cap, least, timeout,     *)
(* path, endpoint], the endpoint a [parsed, plain, host, loopback, https,  *)
(* key].                                                                   *)
(***************************************************************************)
EXTENDS Naturals, FiniteSets, FiniteSetsExt

CONSTANTS
    NoLedger, BadLedger, NoBest,
    Positions,      \* the identities made of a position, index:0 and so on
    Rank,           \* identity -> the place of its digest among all digests
    RubricRoles,    \* the roles the rubric file defines well, or the empty set
    MaxQuestions    \* how many roles one request may ask about

(* What config, load_rubric and resolve_url refuse before a record is read.*)
ConfigIsBad(s) ==
  \/ s.roles = {} \/ s.below \notin {"hold", "mark"}
  \/ s.least \notin 0..100 \/ s.attempts < 1 \/ s.cap < 1 \/ s.timeout < 1
EndpointIsBad(e) ==
  \/ ~e.parsed \/ ~e.plain \/ ~e.host
  \/ ~(e.loopback \/ (e.https /\ e.key))
PathIsBad(path) == path # "below the origin"
RubricIsBad(s) ==
  \/ RubricRoles = {}
  \/ ~(s.roles \subseteq RubricRoles) \/ Cardinality(s.roles) > MaxQuestions
IsRefused(s) ==
  \/ ConfigIsBad(s)
  \/ /\ s.enabled
     /\ RubricIsBad(s) \/ EndpointIsBad(s.endpoint) \/ PathIsBad(s.path)

-----------------------------------------------------------------------------
(* The earlier of two equal attempts stays. *)
BestAttempt(previous, candidate) ==
  IF previous # NoBest /\ (candidate = NoBest \/ candidate.max <= previous.max)
  THEN previous ELSE candidate
MergeEntries(a, b) ==
  [attempts |-> IF a.attempts >= b.attempts THEN a.attempts ELSE b.attempts,
   best |-> BestAttempt(a.best, b.best)]

NoEntry == [attempts |-> 0, best |-> NoBest]
EntryIn(ledger, id) == IF id \in DOMAIN ledger THEN ledger[id] ELSE NoEntry

(* read_ledger: an unreadable file counts as an empty one, a legacy key is *)
(* replaced by its digest and merged with the entry that is there.         *)
IsLedger(file) == file # NoLedger /\ file # BadLedger
MigrateLedger(file) ==
  LET of(legacy, id) == LET k == [legacy |-> legacy, id |-> id]
                        IN  IF k \in DOMAIN file THEN file[k] ELSE NoEntry
  IN  [id \in {k.id : k \in DOMAIN file} |-> MergeEntries(of(TRUE, id), of(FALSE, id))]
ReadLedger(file) == IF IsLedger(file) THEN MigrateLedger(file) ELSE << >>
IsMigrated(file) == IsLedger(file) /\ \E k \in DOMAIN file : k.legacy

(* cap_ledger: the least spent entries stay, in the order of their digests,*)
(* and the one being worked on whatever it has spent.                      *)
CapLedger(ledger, cap, keep) ==
  LET before(a, b) == \/ ledger[a].attempts < ledger[b].attempts
                      \/ ledger[a].attempts = ledger[b].attempts /\ Rank[a] < Rank[b]
      others == DOMAIN ledger \ keep
      kept == keep \cap DOMAIN ledger
      least == {a \in others : Cardinality({b \in others : before(b, a)}) + Cardinality(kept) < cap}
  IN  IF Cardinality(DOMAIN ledger) <= cap THEN ledger
      ELSE [id \in least \cup kept |-> ledger[id]]
WriteLedger(ledger) ==
  [k \in {[legacy |-> FALSE, id |-> id] : id \in DOMAIN ledger} |-> ledger[k.id]]
(* A mutant: the cap may drop the entry in hand. *)
WriteUnkept(ledger, cap, keep) == WriteLedger(CapLedger(ledger, cap, {}))
WriteCapped(ledger, cap, keep) == WriteLedger(CapLedger(ledger, cap, keep))

(* The start of a round: entries kept by position are purged, an unreadable*)
(* file is moved aside, and the file is written when anything changed.     *)
PurgePositions(ledger) == [id \in DOMAIN ledger \ Positions |-> ledger[id]]
OpeningChanges(file) ==
  file = BadLedger \/ IsMigrated(file) \/ DOMAIN ReadLedger(file) \cap Positions # {}
OpenLedger(file, cap) == WriteCapped(PurgePositions(ReadLedger(file)), cap, {})

(* next_attempt: an attempt is spent before the model is asked, none is    *)
(* left when all are spent; then only keys that were legacy are rewritten. *)
HasAttempts(file, id, s) == EntryIn(ReadLedger(file), id).attempts < s.attempts
NextAttempt(file, id) == EntryIn(ReadLedger(file), id).attempts + 1
SpendAttempt(file, id, s) ==
  LET ledger == ReadLedger(file)
      entry == [attempts |-> NextAttempt(file, id), best |-> EntryIn(ledger, id).best]
  IN  WriteCapped([i \in DOMAIN ledger \cup {id} |-> IF i = id THEN entry ELSE ledger[i]], s.cap, {id})
WriteExhausted(file, id, s) == WriteCapped(ReadLedger(file), s.cap, {id})
(* record_attempt: what the model said, kept when it is the best so far.   *)
RecordAttempt(file, id, attempt, scores, s) ==
  LET ledger == ReadLedger(file)
      said == [attempts |-> attempt,
               best |-> [attempt |-> attempt, max |-> Max({scores[r] : r \in DOMAIN scores})]]
  IN  WriteCapped([i \in DOMAIN ledger \cup {id} |->
                     IF i = id THEN MergeEntries(EntryIn(ledger, id), said) ELSE ledger[i]],
                  s.cap, {id})

(* call_model: the roles a record passes for. *)
PassingRoles(scores, s) == {r \in s.roles : scores[r] > s.least}
=============================================================================
