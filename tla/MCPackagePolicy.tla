--------------------------- MODULE MCPackagePolicy ---------------------------
(***************************************************************************)
(* PackagePolicy for TLC, scaled down: at most 2 transactions and 1000     *)
(* virtual bytes in a package, two callers, and sizes chosen so that each  *)
(* package of the tests meets the limit it is built for and no other.      *)
(***************************************************************************)
EXTENDS PackagePolicy, TLC

MCvsize ==
    [tx \in Txs |-> CASE tx = large_ptx -> 600
                      [] tx = giant_ptx -> 1200
                      [] OTHER          -> 200]

\* The packages of the tests, and a parent and a child alone, in the wrong
\* order, and beside a transaction that fails.
MCPackages ==
    {package_too_many, package_too_large, package_parent_child,
     package_single_large, <<tx_parent>>, <<tx_child>>, <<tx_child, tx_parent>>,
     <<large_ptx, tx_parent>>}

Symmetry == Permutations(Callers)
=============================================================================
