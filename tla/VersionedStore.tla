--------------------------- MODULE VersionedStore ---------------------------
(***************************************************************************)
(* What the memory store promises its clients, with no transactions, locks *)
(* or indexes in sight: every memory is an append-only history of claims   *)
(* that never repeats itself, and a write succeeds only on the histories   *)
(* its writer had read (an optimistic compare-and-set over a whole batch). *)
(***************************************************************************)
EXTENDS Naturals, Sequences

CONSTANTS Writer, Memory, Claim

VARIABLES
    history,  \* history[m]: the claims of m, oldest first; <<>> when m does not exist
    seen      \* seen[w][m]: how many versions of m the writer w planned on

vars == <<history, seen>>

NothingSeen == [m \in Memory |-> 0]

TypeOK ==
    /\ history \in [Memory -> Seq(Claim)]
    /\ seen \in [Writer -> [Memory -> Nat]]

(***************************************************************************)
(* A history that does not repeat a claim in two successive versions.      *)
(***************************************************************************)
NoRepeat(h) == \A n \in 1 .. (Len(h) - 1) : h[n] # h[n + 1]

(* `longer' continues `shorter': nothing in the past is rewritten.         *)
Continues(shorter, longer) ==
    /\ Len(shorter) < Len(longer)
    /\ \A n \in 1 .. Len(shorter) : longer[n] = shorter[n]

Init ==
    /\ history \in [Memory -> Seq(Claim)]
    /\ \A m \in Memory : NoRepeat(history[m])
    /\ seen = [w \in Writer |-> NothingSeen]

(* A writer reads the memories it is about to write.                       *)
Read(w) ==
    /\ \E S \in SUBSET Memory :
         seen' = [seen EXCEPT ![w] =
                    [m \in Memory |-> IF m \in S THEN Len(history[m]) ELSE 0]]
    /\ UNCHANGED history

(* A writer gives up, or is refused: nothing is written.                   *)
GiveUp(w) ==
    /\ seen' = [seen EXCEPT ![w] = NothingSeen]
    /\ UNCHANGED history

(* A batch takes effect at once, on exactly the histories that were read.  *)
Commit(w) ==
    /\ history' \in [Memory -> Seq(Claim)]
    /\ \A m \in Memory :
         history'[m] # history[m] =>
            /\ seen[w][m] = Len(history[m])
            /\ Continues(history[m], history'[m])
            /\ NoRepeat(history'[m])
    /\ seen' = [seen EXCEPT ![w] = NothingSeen]

Next == \E w \in Writer : Read(w) \/ GiveUp(w) \/ Commit(w)

Spec == Init /\ [][Next]_vars

=============================================================================
