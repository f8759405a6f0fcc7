----------------------------- MODULE EventListener -----------------------------
(***************************************************************************)
(* How the clearing node's listener follows the chain                       *)
(* (node/src/transaction/offchain/settlement/listener.rs, run and           *)
(* process_block): for every import notification of a new best block the    *)
(* settled payments of that block are handed to the ledger, whose           *)
(* on_payment_settled books them without looking whether it has done so     *)
(* before.  Blocks form a tree; a block is the best one if its chain has    *)
(* more work than the best chain (proof of work), and blocks are of equal   *)
(* difficulty, as they are between two adjustments (pow-difficulty).        *)
(***************************************************************************)
EXTENDS Integers, FiniteSets, Sequences

CONSTANTS
    Tx,          \* payments
    MaxBlocks    \* bound: blocks imported, the first one included

VARIABLES
    tree,      \* block -> the blocks of its chain and the payments it settles
    best,      \* the best block
    stream,    \* import notifications the listener has not taken yet
    applied    \* blocks whose events were handed to the ledger, in order

listenerVars == <<tree, best, stream, applied>>

Genesis == 1

SettledOn(b) == UNION {tree[c].txs : c \in tree[b].chain}

Height(b) == Cardinality(tree[b].chain)

ListenerInit ==
    /\ tree = <<[chain |-> {Genesis}, txs |-> {}]>>
    /\ best = Genesis
    /\ stream = <<>>
    /\ applied = <<>>

\* The client imports a block on p that settles S, payments its chain has not settled
\* (ProcessedOffchainTx, the runtime's protection against replay), and notifies its
\* listeners.
Import(p, S) ==
    LET b == Len(tree) + 1
        newBest == Height(p) + 1 > Height(best)
    IN  /\ Len(tree) < MaxBlocks
        /\ S \cap SettledOn(p) = {}
        /\ tree' = Append(tree, [chain |-> tree[p].chain \cup {b}, txs |-> S])
        /\ best' = IF newBest THEN b ELSE best
        /\ stream' = Append(stream, [hash |-> b, is_new_best |-> newBest])
        /\ UNCHANGED applied

\* run passes over a block that is not the best one.
SkipBlock ==
    /\ stream # <<>> /\ ~Head(stream).is_new_best
    /\ stream' = Tail(stream)
    /\ UNCHANGED <<tree, best, applied>>

\* run hands the events of a new best block to the ledger (process_block).
ProcessBlock ==
    /\ stream # <<>> /\ Head(stream).is_new_best
    /\ stream' = Tail(stream)
    /\ applied' = Append(applied, Head(stream).hash)
    /\ UNCHANGED <<tree, best>>

\* process_block cannot read or decode the events of a new best block: run logs it and
\* goes on with the next one.
ProcessBlockFails ==
    /\ stream # <<>> /\ Head(stream).is_new_best
    /\ stream' = Tail(stream)
    /\ UNCHANGED <<tree, best, applied>>

ListenerNext ==
    \/ \E p \in DOMAIN tree, S \in SUBSET Tx : Import(p, S)
    \/ SkipBlock \/ ProcessBlock \/ ProcessBlockFails

ListenerSpec == ListenerInit /\ [][ListenerNext]_listenerVars

-------------------------------------------------------------------------------
(* Properties.                                                               *)

\* No payment is handed to the ledger twice, also when a branch displaces the best one:
\* the comment of run relies on the runtime's protection against replay for it.
NoRepeatedProcessing ==
    \A i, j \in DOMAIN applied :
        i # j => tree[applied[i]].txs \cap tree[applied[j]].txs = {}
===============================================================================
