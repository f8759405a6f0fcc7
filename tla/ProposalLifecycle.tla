--------------------------- MODULE ProposalLifecycle ---------------------------
(***************************************************************************)
(* What the voting engine promises a business module, without its queues:   *)
(* a proposal is decided once, a passed one is executed at most once, a     *)
(* finished one never changes again and is forgotten only when finished.    *)
(***************************************************************************)
EXTENDS Naturals

CONSTANT Proposal        \* the proposal ids

VARIABLES
    status,              \* id -> where the proposal is in its life
    committed            \* id -> how often its business action took effect

lifecycleVars == <<status, committed>>

LifeStatus == {"NONE", "VOTING", "PASSED", "REJECTED", "EXECUTED",
               "EXECUTION_FAILED", "PURGED"}

LifeInit ==
    /\ status = [p \in Proposal |-> "NONE"]
    /\ committed = [p \in Proposal |-> 0]

Move(p, from, to) ==
    /\ status[p] \in from
    /\ status' = [status EXCEPT ![p] = to]

Create(p)  == Move(p, {"NONE"}, "VOTING") /\ UNCHANGED committed
Pass(p)    == Move(p, {"VOTING"}, "PASSED") /\ UNCHANGED committed
Reject(p)  == Move(p, {"VOTING"}, "REJECTED") /\ UNCHANGED committed
Fail(p)    == Move(p, {"PASSED"}, "EXECUTION_FAILED") /\ UNCHANGED committed
Purge(p)   == /\ Move(p, {"REJECTED", "EXECUTED", "EXECUTION_FAILED"}, "PURGED")
              /\ UNCHANGED committed

\* The business action and the status change are one transaction.
Execute(p) == /\ Move(p, {"PASSED"}, "EXECUTED")
              /\ committed' = [committed EXCEPT ![p] = @ + 1]

LifeNext == \E p \in Proposal :
    Create(p) \/ Pass(p) \/ Reject(p) \/ Execute(p) \/ Fail(p) \/ Purge(p)

LifeSpec == LifeInit /\ [][LifeNext]_lifecycleVars
===============================================================================
