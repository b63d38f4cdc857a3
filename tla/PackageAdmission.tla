-------------------------- MODULE PackageAdmission --------------------------
(***************************************************************************)
(* What package admission promises its callers (spec.md, sections 4 and    *)
(* 5): a call of ProcessNewPackage takes effect at one instant.  It sees   *)
(* one pool, gives every member its verdict against that pool and the      *)
(* members accepted before it, and, unless it is a test accept or the      *)
(* package is rejected as a whole, leaves the accepted members in the      *)
(* pool.  There is no lock here and no step inside a call; PackagePolicy   *)
(* is the implementation, member by member under cs_main.                  *)
(***************************************************************************)
EXTENDS Naturals, Sequences, FiniteSets, SequencesExt

CONSTANTS MAX_PACKAGE_COUNT,
          MAX_PACKAGE_SIZE,     \* in thousands of virtual bytes
          Placeholders,         \* create_placeholder_tx(1, 1), one per call
          large_ptx, giant_ptx, tx_parent, tx_child,
          vsize,                \* GetVirtualTransactionSize
          Packages,             \* what callers submit
          Callers

VARIABLES pool,      \* the transactions of the mempool
          pending,   \* the call of each caller that is inside one
          result     \* the result of each caller that holds one

-----------------------------------------------------------------------------
(* Values *)


\* The package states.  "" is the reason of a valid state.
PackageState(kind, reason) == [result |-> kind, reason |-> reason]
Unset      == PackageState("PCKG_RESULT_UNSET", "")
TooMany    == PackageState("PCKG_POLICY", "package-too-many-transactions")
TooLarge   == PackageState("PCKG_POLICY", "package-too-large")
TxFailed   == PackageState("PCKG_TX", "transaction failed")
PackageStates == {Unset, TooMany, TooLarge, TxFailed}

\* "tx-size" is the reason the test reads; the other two stand for the
\* reasons of the validation engine.
TxReasons == {"", "tx-size", "txn-already-in-mempool", "missing-inputs"}

Requests == [package : Packages, dry_run : BOOLEAN]

-----------------------------------------------------------------------------
(* The sanitizer and the validation engine *)

TotalSize(package) == FoldLeft(LAMBDA sum, tx : sum + vsize[tx], 0, package)

CheckPackage(package) ==
    IF Len(package) > MAX_PACKAGE_COUNT THEN TooMany
    ELSE IF Len(package) > 1 /\ TotalSize(package) > MAX_PACKAGE_SIZE * 1000
         THEN TooLarge
         ELSE Unset

\* tx_child spends an output of tx_parent, tx_parent a confirmed coinbase;
\* a placeholder spends outputs of random hashes, which do not exist.
InputsAvailable(tx, view) ==
    \/ tx = tx_parent
    \/ tx = tx_child /\ tx_parent \in view

\* The validation engine on one transaction, against the pool and the
\* members of the package accepted before it.
Validate(tx, view) ==
    IF vsize[tx] > MAX_PACKAGE_SIZE * 1000 THEN "tx-size"
    ELSE IF tx \in view THEN "txn-already-in-mempool"
    ELSE IF ~InputsAvailable(tx, view) THEN "missing-inputs"
    ELSE ""

Valid(results) == {tx \in DOMAIN results : results[tx] = ""}

-----------------------------------------------------------------------------
(* A call as its caller sees it *)

\* The verdicts on the members of a package that passed the sanitizer, in
\* package order, each against the snapshot and the members valid so far.
Verdicts(snapshot, package) ==
    FoldLeft(LAMBDA results, tx :
                 results @@ (tx :> Validate(tx, snapshot \cup Valid(results))),
             <<>>, package)

\* What ProcessNewPackage returns for a package submitted to a pool.
Outcome(snapshot, package) ==
    LET verdicts == Verdicts(snapshot, package)
    IN  IF CheckPackage(package) # Unset
        THEN [state |-> CheckPackage(package), tx_results |-> <<>>]
        ELSE [state      |-> IF Valid(verdicts) = ToSet(package)
                             THEN Unset ELSE TxFailed,
              tx_results |-> verdicts]

AtomicInit ==
    /\ pool = {}
    /\ pending = <<>>
    /\ result = <<>>

Invoke(c, request) ==
    /\ c \notin DOMAIN pending \cup DOMAIN result
    /\ pending' = pending @@ (c :> request)
    /\ UNCHANGED <<pool, result>>

\* The call of caller c takes effect and returns.
TakeEffect(c) ==
    /\ c \in DOMAIN pending
    /\ LET outcome == Outcome(pool, pending[c].package)
       IN  /\ result' = result @@ (c :> outcome)
           /\ pool' = IF pending[c].dry_run THEN pool
                      ELSE pool \cup Valid(outcome.tx_results)
    /\ pending' = Restrict(pending, DOMAIN pending \ {c})

\* The caller has looked at the result.
Read(c) ==
    /\ c \in DOMAIN result
    /\ result' = Restrict(result, DOMAIN result \ {c})
    /\ UNCHANGED <<pool, pending>>

AtomicNext ==
    \E c \in Callers :
        TakeEffect(c) \/ Read(c) \/ \E request \in Requests : Invoke(c, request)

\* Every behaviour of package admission is one of atomic calls.
AtomicAdmission == AtomicInit /\ [][AtomicNext]_<<pool, pending, result>>

=============================================================================
