--------------------------- MODULE SessionMarker ---------------------------
(***************************************************************************)
(* The session marker (session_marker.py): one file for each skill and     *)
(* session that lists what the session has imported and exported, so that  *)
(* a later export leaves out what it already knows to be stored.           *)
(*                                                                         *)
(* A marker is None (no file), Unreadable, or the sequence of its entries. *)
(* An entry is [verb, nomarker, items, slugs, loose]: items a set of       *)
(* [id, subject], slugs of [slug, subject], loose when it has a selector,  *)
(* a folder or a path.                                                     *)
(***************************************************************************)
EXTENDS Naturals, FiniteSets, Sequences, SequencesExt

CONSTANTS None, Unreadable, NoSession

(* What a sequence has at some places, in its order; SelectSeq, said with  *)
(* places, about which the prover can reason.                              *)
AtPlaces(s, places) ==
  [k \in 1..Cardinality(places) |->
     s[CHOOSE n \in places : Cardinality({m \in places : m <= n}) = k]]
Select(s, Test(_)) == AtPlaces(s, {n \in DOMAIN s : Test(s[n])})

(* resolve_session: an explicit --session wins, then the first variable of *)
(* the chain of harnesses that is set. *)
ResolveSession(explicit, chain) ==
  IF explicit # NoSession THEN explicit
  ELSE LET set == SelectSeq(chain, LAMBDA s : s # NoSession)
       IN  IF set = << >> THEN NoSession ELSE Head(set)

Entry(verb, nomarker, items, slugs, loose) ==
  [verb |-> verb, nomarker |-> nomarker, items |-> items, slugs |-> slugs, loose |-> loose]
IsReadable(marker) == marker # None /\ marker # Unreadable
Entries(marker) == IF IsReadable(marker) THEN marker ELSE << >>
Marked(marker) == Select(Entries(marker), LAMBDA e : ~e.nomarker)

(* exclusion_set, exclusion_slugs: entries under --nomarker exclude nothing.*)
ExclusionItems(marker) == UNION {e.items : e \in ToSet(Marked(marker))}
ExclusionIds(marker) == {i.id : i \in ExclusionItems(marker)}
ExclusionSubjects(marker) == {i.subject : i \in ExclusionItems(marker)}
ExclusionSlugs(marker) == UNION {{s.slug : s \in e.slugs} : e \in ToSet(Marked(marker))}
(* The subject an id was first recorded with. *)
FirstSubject(marker, id) ==
  LET of(e) == {i \in e.items : i.id = id}
      first == SelectInSeq(Marked(marker), LAMBDA e : of(e) # {})
  IN  (CHOOSE i \in of(Marked(marker)[first]) : TRUE).subject

(* record_import, append_export: the entry is appended, an unreadable file *)
(* is moved aside first; the boundary moves when something was recorded    *)
(* without --nomarker. *)
MovesBoundary(e) == ~e.nomarker /\ (e.items # {} \/ e.slugs # {} \/ e.loose)
Recorded(marker, entry) == Append(Entries(marker), entry)
Status(marker, entry) ==
  IF entry.nomarker THEN "skipped"
  ELSE IF ~MovesBoundary(entry) THEN "history"
  ELSE IF \E e \in ToSet(Entries(marker)) : MovesBoundary(e) THEN "extended" ELSE "set"
(* boundary_line: the last entry that moved it. *)
Boundary(marker) ==
  LET moves == {n \in DOMAIN Entries(marker) : MovesBoundary(Entries(marker)[n])}
  IN  IF moves = {} THEN 0 ELSE CHOOSE n \in moves : \A m \in moves : m <= n
=============================================================================
