---------------------------- MODULE MCExportJobs ----------------------------
(* A small instance of ExportJobs for TLC.                                 *)
EXTENDS ExportJobs

\* the transfer; another at its place; one with its fingerprint at another
\* place, alone or beside it; two transfers
One     == {<<1, "a">>}
Changed == {<<1, "b">>}
Moved   == {<<2, "a">>}
Twice   == {<<1, "a">>, <<2, "a">>}
Two     == {<<1, "a">>, <<2, "b">>}

ProviderAnswers == {One, Changed, Moved, Twice, Two}

Windows == {Run}

Callers == [e \in Export |-> IF e = 1 THEN {"job"} ELSE {"generate", "command"}]

\* Run 2 begins when run 1 has ended, and no run writes while two exports are at
\* work; no export is of run 2 alone.  A command has no job beside it, for what
\* it reads and writes does not meet what the job writes; the handler has one.
\* Each has the answers that matter to it, and after a fault there is one.
Bounded ==
  /\ runs[2] # "none" => runs[1] = "ended"
  /\ pc[1] \in Live /\ pc[2] \in Live => \A r \in Run : runs[r] # "running"
  /\ {2} \notin {filter[e] : e \in Export}
  /\ caller[2] = "command" =>
       /\ pc[1] = "idle"
       /\ seen[1, 1] \in {{}, One, Twice} /\ seen[2, 1] \in {{}, One, Changed, Moved}
  /\ caller[2] = "generate" => pc[1] # "idle"
  /\ pc[1] # "idle" =>
       seen[1, 1] \in {{}, One, Two} /\ seen[2, 1] \in {{}, One, Moved}
  /\ faults > 0 => seen[1, 1] \in {{}, One} /\ runs[2] = "none"
=============================================================================
