--------------------------- MODULE ContextClient ---------------------------
(***************************************************************************)
(* The odin client (context_memory_client.py), the one program of the      *)
(* skills that writes to the store: what it refuses, what it leaves out of *)
(* a batch as an echo, what it scrubs and what it receipts.                *)
(*                                                                         *)
(* An item is [uuid, create, subject, body, status]; uuid names the memory *)
(* to version, create the id a new one is to have.  An environment is      *)
(* [origin, token, machineToken, redactor].                                *)
(***************************************************************************)
EXTENDS SessionMarker

CONSTANTS
    Redacted,   \* body -> the body with its secrets replaced
    MaxBatch    \* MAX_CANDIDATES

(* base_url: an HTTP origin on this machine and nothing more. *)
BaseIsRefused(env) == env.origin # "loopback"
(* _request: the variable, else, for a write, the machine's credential file.*)
HasWriteToken(env) == env.token \/ env.machineToken
RequestIsRefused(env) == BaseIsRefused(env) \/ ~HasWriteToken(env)

(* _load_export_marker: --all and no session mean no marker at all. *)
MarkerFor(all, session, marker) == IF all \/ session = NoSession THEN None ELSE marker
(* An item is an echo when it versions a memory the marker names and has   *)
(* the subject that was first recorded for it.                             *)
IsEcho(item, marker) ==
  /\ item.uuid \in ExclusionIds(marker)
  /\ item.subject = FirstSubject(marker, item.uuid)
Echoes(items, marker) == Select(items, LAMBDA i : IsEcho(i, marker))
ApplyExportMarker(items, marker) == Select(items, LAMBDA i : ~IsEcho(i, marker))

(* A mutant: what is sent is what was given. *)
AsGiven(items) == [n \in DOMAIN items |-> [items[n] EXCEPT !.body = @]]
(* scrub_or_refuse: a redactor that cannot run stops every write. *)
Scrubbed(items) == [n \in DOMAIN items |-> [items[n] EXCEPT !.body = Redacted[@]]]
ScrubIsRefused(env) == ~env.redactor

(* cmd_set up to the request. *)
SetIsRefused(items, marker, env) ==
  \/ marker = Unreadable
  \/ ApplyExportMarker(items, marker) = << >> /\ items # << >>
  \/ Len(ApplyExportMarker(items, marker)) > MaxBatch
  \/ ScrubIsRefused(env) \/ RequestIsRefused(env)

(* A mutant: a preview is receipted like a write. *)
ReceiptOfAny(sent, confirmed, opts, session) ==
  IF opts.nomarker \/ session = NoSession \/ sent = << >> THEN << >>
  ELSE <<[skill |-> "odin",
          entry |-> Entry("export", FALSE,
                          {[id |-> confirmed[n], subject |-> sent[n].subject] : n \in DOMAIN sent},
                          {}, FALSE)]>>
(* _mark_send_receipt: the ids the answer confirms, with the subjects that *)
(* were sent; nothing for a dry run, under --nomarker or without a session.*)
SendReceipt(sent, confirmed, opts, session) ==
  IF opts.dry \/ opts.nomarker \/ session = NoSession \/ sent = << >> THEN << >>
  ELSE <<[skill |-> "odin",
          entry |-> Entry("export", FALSE,
                          {[id |-> confirmed[n], subject |-> sent[n].subject] : n \in DOMAIN sent},
                          {}, FALSE)]>>
(* _mark_query: the rows of a recall; a selector is recorded as well. *)
QueryReceipt(rows, selected, opts, session) ==
  IF session = NoSession \/ (rows = {} /\ ~selected) THEN << >>
  ELSE <<[skill |-> "odin", entry |-> Entry("import", opts.nomarker, rows, {}, selected)]>>
=============================================================================
