---------------------------- MODULE SessionScan ----------------------------
(***************************************************************************)
(* Heimdallr, the offline scan of the checkout a session works in          *)
(* (find_session_metadata.py): the repository, the tickets and the branch  *)
(* it reports, and what it withholds.  The dossier and the export fill     *)
(* fields nobody gave from it.                                             *)
(*                                                                         *)
(* A checkout is [git, redactor, inHome, root, origin, branch,             *)
(* branchTickets, commitsRead, commitTickets].  A repository, a ticket, a  *)
(* branch and a path are values; CredentialShaped holds those the redactor *)
(* would change or whose name is a credential key.                         *)
(***************************************************************************)
EXTENDS FiniteSets

CONSTANTS None, CredentialShaped

(* _shown_root, _repository_withheld and the branch of scan: a value is    *)
(* reported only when the redactor could be loaded and leaves it alone.    *)
Shown(c, value) == IF c.redactor /\ value \notin CredentialShaped THEN value ELSE None
RootShown(c) == IF c.inHome THEN Shown(c, c.root) ELSE None
(* A branch whose name carried a withheld ticket is not shown either.      *)
BranchShown(c) ==
  IF c.branchTickets \cap CredentialShaped = {} THEN Shown(c, c.branch) ELSE None

(* find_tickets: branch first, so a ticket in both was seen in the branch. *)
Candidates(c) ==
  {[ticket |-> t, seenIn |-> "branch"] : t \in c.branchTickets}
    \cup {[ticket |-> t, seenIn |-> "commit"] :
            t \in (IF c.commitsRead THEN c.commitTickets ELSE {}) \ c.branchTickets}
FindTickets(c) ==
  IF c.redactor THEN {f \in Candidates(c) : f.ticket \notin CredentialShaped} ELSE {}

NoScan == [repository |-> None, tickets |-> {}, withheld |-> FALSE, initiative |-> None,
           branch |-> None, root |-> None]
(* scan: the initiative only when it was passed in. *)
Scan(c, initiative) ==
  [repository |-> Shown(c, c.origin),
   tickets |-> FindTickets(c),
   withheld |-> c.redactor /\ FindTickets(c) # Candidates(c),
   initiative |-> initiative,
   branch |-> BranchShown(c),
   root |-> RootShown(c)]
(* What a client gets of it: nothing when git cannot be run, or when this  *)
(* is no checkout.                                                         *)
Scanned(c, initiative) == IF c.git THEN Scan(c, initiative) ELSE NoScan
BranchTickets(scan) == {f.ticket : f \in {g \in scan.tickets : g.seenIn = "branch"}}
=============================================================================
