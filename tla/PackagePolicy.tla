--------------------------- MODULE PackagePolicy ---------------------------
(***************************************************************************)
(* Package admission: CheckPackage and ProcessNewPackage as spec.md        *)
(* describes them, called by several callers under cs_main, with the       *)
(* packages and the expectations of src/test/txpackage_tests.cpp.  A       *)
(* transaction is an identity with a virtual size and at most one parent   *)
(* inside the model; scripts, keys and amounts are left out.               *)
(***************************************************************************)
EXTENDS Naturals, Sequences, FiniteSets, SequencesExt

CONSTANTS MAX_PACKAGE_COUNT,
          MAX_PACKAGE_SIZE,     \* in thousands of virtual bytes
          Placeholders,         \* create_placeholder_tx(1, 1), one per call
          large_ptx, giant_ptx, tx_parent, tx_child,
          vsize,                \* GetVirtualTransactionSize
          Packages,             \* what callers submit
          Callers, NoCaller

VARIABLES pool,      \* the transactions of the mempool
          cs_main,   \* the caller that holds the lock, or NoCaller
          pc,        \* where each caller is
          call       \* the call of each caller, and its result so far

vars == <<pool, cs_main, pc, call>>

Txs == Placeholders \cup {large_ptx, giant_ptx, tx_parent, tx_child}

\* The pool as callers see it: what a call in progress has committed so far
\* is behind cs_main until the call has its result.
Running   == {c \in Callers : pc[c] \in {"CheckPackage", "validate"}}
Committed == IF cs_main \in Running THEN call[cs_main].initialPool ELSE pool

INSTANCE PackageAdmission WITH
    pool    <- Committed,
    pending <- [c \in Running |->
                   [package |-> call[c].package, dry_run |-> call[c].dry_run]],
    result  <- [c \in {d \in Callers : pc[d] = "done"} |->
                   [state |-> call[c].state, tx_results |-> call[c].tx_results]]

-----------------------------------------------------------------------------
(* The packages of the tests.                                              *)

package_too_many == SetToSeq(Placeholders)

\* The loop of the test pushing a placeholder of one input and one output.
package_too_large_of_small ==
    LET small == CHOOSE tx \in Placeholders : TRUE
    IN  [k \in 1..((MAX_PACKAGE_SIZE * 1000) \div vsize[small] + 1) |-> small]

\* The loop of the test: push large_ptx while the total is within the limit.
package_too_large ==
    [k \in 1..((MAX_PACKAGE_SIZE * 1000) \div vsize[large_ptx] + 1) |-> large_ptx]

package_parent_child == <<tx_parent, tx_child>>
package_single_large == <<giant_ptx>>

-----------------------------------------------------------------------------
(* Faulty variants, used to show that the properties can fail.             *)

\* The call begins: the caller is inside cs_main, at the sanitizer.
Enter(c, package, dry_run) ==
    /\ pc[c] = "idle"
    /\ cs_main' = c
    /\ pc' = [pc EXCEPT ![c] = "CheckPackage"]
    /\ call' = [call EXCEPT ![c] =
                   [package |-> package, dry_run |-> dry_run, idx |-> 1,
                    state |-> Unset, tx_results |-> <<>>, accepted |-> {},
                    initialPool |-> pool]]
    /\ UNCHANGED pool

\* A caller that does not take cs_main.
ProcessNewPackageWithoutLock(c, package, dry_run) == Enter(c, package, dry_run)

\* A commit that does not look at dry_run.
CommitAlways(c, tx, reason) == IF reason = "" THEN pool \cup {tx} ELSE pool

-----------------------------------------------------------------------------
(* The engine.                                                             *)

Aggregate(results, package) ==
    IF Valid(results) = DOMAIN results THEN Unset ELSE TxFailed

Commit(c, tx, reason) ==
    IF reason = "" /\ ~call[c].dry_run THEN pool \cup {tx} ELSE pool

Init ==
    /\ pool = {}
    /\ cs_main = NoCaller
    /\ pc = [c \in Callers |-> "idle"]
    /\ call = [c \in Callers |->
                  [package |-> <<>>, dry_run |-> TRUE, idx |-> 1, state |-> Unset,
                   tx_results |-> <<>>, accepted |-> {}, initialPool |-> {}]]

\* LOCK(cs_main) and the call.
ProcessNewPackage(c, package, dry_run) ==
    cs_main = NoCaller /\ Enter(c, package, dry_run)

PolicyRejected(c) ==
    /\ pc[c] = "CheckPackage"
    /\ CheckPackage(call[c].package) # Unset
    /\ call' = [call EXCEPT ![c].state = CheckPackage(call[c].package)]
    /\ pc' = [pc EXCEPT ![c] = "done"]
    /\ UNCHANGED <<pool, cs_main>>

PolicyPassed(c) ==
    /\ pc[c] = "CheckPackage"
    /\ CheckPackage(call[c].package) = Unset
    /\ pc' = [pc EXCEPT ![c] = "validate"]
    /\ UNCHANGED <<pool, cs_main, call>>

\* One member of the package, in package order.
AcceptTx(c) ==
    /\ pc[c] = "validate"
    /\ call[c].idx <= Len(call[c].package)
    /\ LET tx     == call[c].package[call[c].idx]
           reason == Validate(tx, pool \cup call[c].accepted)
       IN  /\ pool' = Commit(c, tx, reason)
           /\ call' = [call EXCEPT
                  ![c].idx        = @ + 1,
                  ![c].tx_results = @ @@ (tx :> reason),
                  ![c].accepted   = IF reason = "" THEN @ \cup {tx} ELSE @]
    /\ UNCHANGED <<cs_main, pc>>

Finish(c) ==
    /\ pc[c] = "validate"
    /\ call[c].idx > Len(call[c].package)
    /\ call' = [call EXCEPT
                   ![c].state = Aggregate(call[c].tx_results, call[c].package)]
    /\ pc' = [pc EXCEPT ![c] = "done"]
    /\ UNCHANGED <<pool, cs_main>>

\* The caller has read the result; the lock goes out of scope.
Return(c) ==
    /\ pc[c] = "done"
    /\ cs_main' = NoCaller
    /\ pc' = [pc EXCEPT ![c] = "idle"]
    /\ UNCHANGED <<pool, call>>

Next ==
    \E c \in Callers :
        \/ \E package \in Packages, dry_run \in BOOLEAN :
              ProcessNewPackage(c, package, dry_run)
        \/ PolicyRejected(c)
        \/ PolicyPassed(c)
        \/ AcceptTx(c)
        \/ Finish(c)
        \/ Return(c)

Spec == Init /\ [][Next]_vars
-----------------------------------------------------------------------------
(* Properties *)

Calls == [package : Packages \cup {<<>>}, dry_run : BOOLEAN,
          idx : 1..(MAX_PACKAGE_COUNT + 2), state : PackageStates,
          tx_results : UNION {[S -> TxReasons] : S \in SUBSET Txs},
          accepted : SUBSET Txs, initialPool : SUBSET Txs]

TypeOK ==
    /\ pool \subseteq Txs
    /\ cs_main \in Callers \cup {NoCaller}
    /\ pc \in [Callers -> {"idle", "CheckPackage", "validate", "done"}]
    /\ call \in [Callers -> Calls]
    /\ \A c \in Callers : pc[c] # "idle" => cs_main = c

\* Atomicity and determinism: to its callers ProcessNewPackage is one step.
\* Whatever other callers do, what a call returns is the outcome of its
\* package on the pool as it was when the call began, and the pool changes
\* from that one to the next in a single step: members are validated and
\* committed one by one, but all of it inside the caller's LOCK(cs_main)
\* (line 69), so nobody sees a pool with half a package.
ImplementsPackageAdmission == AtomicAdmission

\* While a call runs, the pool is the pool it started from plus exactly the
\* members it has accepted, and nothing at all for a test accept: the commit
\* of ProcessNewPackage is per member, not all-or-nothing, and dry_run and a
\* policy rejection commit nothing (the test compares the pool size at its
\* end, line 115).
PoolHoldsExactlyTheAcceptedMembers ==
    \A c \in Callers :
        pc[c] # "idle" =>
            pool = call[c].initialPool \cup
                   (IF call[c].dry_run THEN {} ELSE Valid(call[c].tx_results))

\* The BOOST_CHECKs of package_sanitization_tests and
\* package_validation_tests hold for the engine: the four packages the tests
\* build get the result kind and the reasons the tests compare with.
TestExpectationsHold ==
    \A c \in Callers :
        pc[c] = "done" =>
            LET r == call[c] IN
            /\ r.package = package_too_many =>
                   r.state = PackageState("PCKG_POLICY", "package-too-many-transactions")
            /\ r.package = package_too_large =>
                   /\ Len(r.package) <= MAX_PACKAGE_COUNT
                   /\ r.state = PackageState("PCKG_POLICY", "package-too-large")
            /\ r.package = package_parent_child /\ r.initialPool = {} =>
                   /\ r.state = Unset
                   /\ r.tx_results[tx_parent] = "" /\ r.tx_results[tx_child] = ""
            /\ r.package = package_single_large =>
                   /\ r.state = PackageState("PCKG_TX", "transaction failed")
                   /\ r.tx_results[giant_ptx] = "tx-size"

=============================================================================
