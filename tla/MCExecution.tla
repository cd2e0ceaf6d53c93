------------------------------ MODULE MCExecution ------------------------------
(* What the financial path rests on, one part in each behaviour: one run of *)
(* a fund that holds no cash back, so that costs can take a batch below     *)
(* zero; the account alone, under any batches at any prices; and the run    *)
(* ledger alone, which two processes append to.  There are two quanta to    *)
(* the cent and prices are odd, so that every rounding of the broker rounds *)
(* something.  Two run IDs and two record bodies are enough for the races   *)
(* of the same record, of different records under one run ID, and of        *)
(* records that compete only for the write lock.                            *)
EXTENDS MCRunCycle, SimBroker, LedgerStore

VARIABLE part

runVars == vars
allVars == <<part, runVars, simVars, ledgerVars>>

ExecutionInit ==
  /\ part \in {"run", "account", "ledger"}
  /\ Init /\ SimInit /\ LedgerInit
  /\ part # "run" => world = [c \in Grid |-> BothWanted]
  /\ part # "account" => prices = [t \in Tickers |-> 7]
  /\ part # "ledger" => \A p \in Procs : req[p] = CHOOSE r \in Requests : TRUE

RunGoesOn(r) == part = "run" /\ Step(r) /\ UNCHANGED <<part, simVars, ledgerVars>>
AppendGoesOn(p) == part = "ledger" /\ AppendStep(p) /\ UNCHANGED <<part, runVars, simVars>>

ExecutionNext ==
  /\ UNCHANGED part
  /\ \/ part = "run" /\ Next /\ UNCHANGED <<simVars, ledgerVars>>
     \/ part = "account" /\ SimNext /\ UNCHANGED <<runVars, ledgerVars>>
     \/ part = "ledger" /\ LedgerNext /\ UNCHANGED <<runVars, simVars>>

(* The fairness of FairSpec and of LedgerFair.                              *)
ExecutionSpec ==
  /\ ExecutionInit /\ [][ExecutionNext]_allVars
  /\ \A r \in Runs : WF_allVars(RunGoesOn(r))
  /\ \A p \in Procs : WF_allVars(AppendGoesOn(p))

(* Every cycle that run_cycle is called for comes to an end: the run is     *)
(* done, it halts, or it dies, whether its batch is refused, its record     *)
(* cannot be built or its append fails.                                     *)
RunEnds ==
  \A r \in Runs :
    part = "run" /\ pc[r] = "start" ~> pc[r] \in {"halted", "dead", "done"}
=============================================================================
