----------------------------- MODULE MCRunFiles -----------------------------
(* Model checking of RunFiles, with one of two groups of runs that take    *)
(* part: a single run with a transfer of up to five parts, or a run with a *)
(* file of one part beside a run that gets as far as to stage its object.  *)
(* The runs of the other group have ended long ago.                        *)
EXTENDS RunFiles, TLC
Load(m, n) == [mode |-> m, size |-> n]
Small == 1 :> {Load("file", 2)} @@ 2 :> {}
Large == 3 :> {Load("file", 10), Load("file", 11), Load("copy", 9), Load("stream", 5), Load("stream", 0)}
LargeOrSmall == Small @@ Large
MCInit ==
  \E away \in {DOMAIN Small, DOMAIN Large} :
    /\ TransferInit
    /\ pc = [r \in Runs |-> IF r \in away THEN "gone" ELSE "new"]
    /\ overdue = {} /\ lock = None
    /\ record = [r \in Runs |-> "none"] /\ verdict = [r \in Runs |-> "none"]
    /\ file = [r \in Runs |-> "none"] /\ opened = {} /\ begun = {}
    /\ saw = [r \in Runs |-> None] /\ blamed = {}
(* Bound: of the two runs, the one with a parent is killed, interrupted    *)
(* and raises anywhere; the other one only fails to write its record.      *)
Spared == ~Raise(2) /\ ~Interrupted(2) /\ (Crash(2) => pc[2] = "ended")
MCSpec == MCInit /\ [][Next /\ Spared]_vars /\ Fairness
=============================================================================
