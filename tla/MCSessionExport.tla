-------------------------- MODULE MCSessionExport --------------------------
(* A small session for SessionExport: two processes of it, a store with one *)
(* memory, and calls that reach the gate, the batches and the proposals.   *)
EXTENDS SessionExport, TLC

CONSTANTS p1, p2

(* The records a session may have: one that came from the memory and has    *)
(* changed, one the detector finds bundled, and new ones. *)
MCRecord(subject, body, origin, slug) ==
  [kind |-> "understanding", subject |-> subject, body |-> body, origin |-> origin,
   slug |-> slug, scope |-> None]
MCFresh == MCRecord("retry", "secret", None, "unit")
MCAgain == MCRecord("retry", "plain", None, None)
MCChanged == MCRecord("login", "changed", 1, None)
MCBundled == MCRecord("login", "bundled", None, None)
MCLow == MCRecord("queue", "low", None, None)

MCRedacted == [b \in {"plain", "changed", "bundled", "low", "secret", "masked"} |->
                 IF b = "secret" THEN "masked" ELSE b]
MCWorth == [b \in DOMAIN MCRedacted |-> [r \in {"dev"} |-> IF b = "low" THEN 10 ELSE 90]]

MCGate(enabled, cap, loopback) ==
  [enabled |-> enabled, roles |-> {"dev"}, below |-> "hold", attempts |-> 1, cap |-> cap,
   least |-> 50, timeout |-> 1, path |-> "below the origin",
   endpoint |-> [parsed |-> TRUE, plain |-> TRUE, host |-> TRUE, loopback |-> loopback,
                 https |-> FALSE, key |-> FALSE]]
MCOpts(dry, all, nomarker) == [dry |-> dry, all |-> all, nomarker |-> nomarker]
MCEnv == [origin |-> "loopback", token |-> TRUE, machineToken |-> FALSE, redactor |-> TRUE]
MCFlags(tickets) == [tickets |-> tickets, initiative |-> None, scope |-> None]
MCRequest(opts, cap, loopback, source) ==
  [opts |-> opts, env |-> MCEnv, settings |-> MCGate(cap > 0, cap, loopback), flags |-> MCFlags({"T1"}),
   source |-> source]

(* A write through the gate, a set of everything, a preview, a write of     *)
(* what the session dumped, two records of one subject, a gate that is far. *)
MCPlain == MCOpts(FALSE, FALSE, FALSE)
MCRequests ==
  {MCRequest(MCPlain, 1, TRUE, <<MCBundled, MCLow>>),
   MCRequest(MCOpts(FALSE, TRUE, TRUE), 0, TRUE, <<MCChanged, MCFresh>>),
   MCRequest(MCOpts(TRUE, FALSE, FALSE), 1, TRUE, <<MCFresh, MCChanged>>),
   MCRequest(MCPlain, 0, TRUE, None),
   MCRequest(MCPlain, 2, TRUE, <<MCFresh, MCAgain>>),
   MCRequest(MCPlain, 1, FALSE, <<MCFresh>>)}

MCStore == <<<<[subject |-> "login", body |-> "plain", status |-> "approved"]>>>>
MCImported == <<Entry("import", FALSE, {[id |-> 1, subject |-> "login"]},
                      {[slug |-> "unit", subject |-> "retry"]}, FALSE)>>
MCKeys == {<<skill, "one">> : skill \in {"odin", "kvasir"}}
MCMarkers == {[k \in MCKeys |-> None],
              [k \in MCKeys |-> IF k[1] = "odin" THEN MCImported ELSE Unreadable]}
MCLedgers == {NoLedger, BadLedger, [k \in {[legacy |-> TRUE, id |-> "queue"]} |->
                                      [attempts |-> 1, best |-> NoBest]]}
MCFolder == [root |-> FALSE, directory |-> TRUE, repository |-> FALSE, marked |-> TRUE, holds |-> TRUE]
MCDumps == <<[folder |-> MCFolder, session |-> "one", records |-> <<MCBundled>>,
              binding |-> [tickets |-> {"T1"}, initiative |-> None, scope |-> None]]>>
MCChain == [p \in Procs |-> <<NoSession, "one">>]
MCRank == [s \in {"login", "retry", "queue"} |->
             CASE s = "login" -> 1 [] s = "retry" -> 2 [] OTHER -> 3]
MCGroup == [created |-> FALSE, initiative |-> None]
MCCheckout == Heimdallr!NoScan
=============================================================================
