---------------------------- MODULE WalletTool ----------------------------
(***************************************************************************)
(* The command-line wallet tool, src/bitcoin-wallet.cpp: one run of main   *)
(* from the command line to the exit code.  An argument is told apart only *)
(* by what main asks of it: whether its first character is a switch        *)
(* character, whether it is the empty string, and which method it names.   *)
(* ArgsManager, the data-directory check, the chain selection and the      *)
(* wallet function itself are outside this file; what they answer is       *)
(* chosen by the environment.  Messages and logging are left out.          *)
(***************************************************************************)
EXTENDS Naturals, Sequences, FiniteSets, SequencesExt

CONSTANTS Methods,      \* the method names, "create" among them
          Switch,       \* any argument whose first character is a switch character
          EmptyArg,     \* the argument ""
          MaxArgs       \* bound on argc - 1

ASSUME "create" \in Methods /\ MaxArgs \in Nat

VARIABLES argv,              \* argv[1 .. argc-1]
          args,              \* the options ArgsManager holds as set
          pc,                \* where main is
          i,                 \* the loop index of main, counted from 1
          method,
          params_selected,   \* SelectParams has run
          ecc,               \* "off", "started" or "stopped"
          exit_code

vars == <<argv, args, pc, i, method, params_selected, ecc, exit_code>>

Arguments == Methods \cup {Switch, EmptyArg}
Options   == {"-wallet", "-version", "-help"}
NoExit    == "running"

\* What ParseParameters may leave in ArgsManager: options come from switches.
ParseParameters(arguments) ==
    IF Switch \in ToSet(arguments) THEN SUBSET Options ELSE {{}}

\* WalletAppInit prints the usage and gives up.
UsageRequested(parsed) ==
    Len(argv) = 0 \/ "-help" \in parsed \/ "-version" \in parsed

-----------------------------------------------------------------------------
Return(code) ==
    /\ pc' = "done"
    /\ exit_code' = code

\* The loop refuses a method when it has one already.
NoSecondMethod == (i <= Len(argv) /\ argv[i] # Switch) => method = EmptyArg

\* The body of the loop for an argument that is let through, and ++i.
TakeArg(next) ==
    /\ pc = "scan" /\ i <= Len(argv)
    /\ method' = IF argv[i] # Switch THEN argv[i] ELSE method
    /\ i' = next
    /\ UNCHANGED <<argv, args, pc, params_selected, ecc, exit_code>>

\* ECC_Start, the wallet function, and ECC_Stop only when it succeeded.
Execute(ok) ==
    /\ pc = "scan" /\ i > Len(argv)
    /\ method # EmptyArg
    /\ ecc' = IF ok THEN "stopped" ELSE "started"
    /\ Return(IF ok THEN "EXIT_SUCCESS" ELSE "EXIT_FAILURE")
    /\ UNCHANGED <<argv, args, i, method, params_selected>>

-----------------------------------------------------------------------------
(* Faulty variants, used to show that the properties can fail.             *)

\* The loop of main without the test for a second method: the last one wins.
ScanArgLastWins == TakeArg(i + 1)

\* The loop of main without ++i.
ScanArgWithoutIncrement == NoSecondMethod /\ TakeArg(i)

\* The loop of main started at argv[0], the name of the program.
InitFromZero ==
    /\ argv \in SeqOf(Arguments, MaxArgs)
    /\ i = 0
    /\ args = {} /\ pc = "WalletAppInit" /\ method = EmptyArg
    /\ params_selected = FALSE /\ ecc = "off" /\ exit_code = NoExit

Init ==
    /\ argv \in SeqOf(Arguments, MaxArgs)
    /\ args = {}
    /\ pc = "WalletAppInit"
    /\ i = 1
    /\ method = EmptyArg
    /\ params_selected = FALSE
    /\ ecc = "off"
    /\ exit_code = NoExit

\* WalletAppInit fails: a parse error, the usage, a missing data directory,
\* or an exception of SelectParams that main catches.
WalletAppInitFails(parsed, parse_ok, datadir_ok, chain_ok) ==
    /\ pc = "WalletAppInit"
    /\ ~parse_ok \/ UsageRequested(parsed) \/ ~datadir_ok \/ ~chain_ok
    /\ args' = parsed
    /\ Return("EXIT_FAILURE")
    /\ UNCHANGED <<argv, i, method, params_selected, ecc>>

WalletAppInit(parsed) ==
    /\ pc = "WalletAppInit"
    /\ ~UsageRequested(parsed)
    /\ args' = parsed
    /\ params_selected' = TRUE
    /\ pc' = "scan"
    /\ UNCHANGED <<argv, i, method, ecc, exit_code>>

\* One round of the loop that looks for the method.
ScanArg == NoSecondMethod /\ TakeArg(i + 1)

TwoMethods ==
    /\ pc = "scan" /\ i <= Len(argv)
    /\ argv[i] # Switch /\ method # EmptyArg
    /\ Return("EXIT_FAILURE")
    /\ UNCHANGED <<argv, args, i, method, params_selected, ecc>>

NoMethod ==
    /\ pc = "scan" /\ i > Len(argv)
    /\ method = EmptyArg
    /\ Return("EXIT_FAILURE")
    /\ UNCHANGED <<argv, args, i, method, params_selected, ecc>>

NoWalletName ==
    /\ pc = "scan" /\ i > Len(argv)
    /\ method = "create" /\ "-wallet" \notin args
    /\ Return("EXIT_FAILURE")
    /\ UNCHANGED <<argv, args, i, method, params_selected, ecc>>

\* The wallet function runs once "create" is known to have a wallet name.
ExecuteWalletToolFunc(ok) ==
    (method = "create" => "-wallet" \in args) /\ Execute(ok)

Next ==
    \/ \E parsed \in ParseParameters(argv), parse_ok, datadir_ok, chain_ok \in BOOLEAN :
          WalletAppInitFails(parsed, parse_ok, datadir_ok, chain_ok)
    \/ \E parsed \in ParseParameters(argv) : WalletAppInit(parsed)
    \/ ScanArg
    \/ TwoMethods
    \/ NoMethod
    \/ NoWalletName
    \/ \E ok \in BOOLEAN : ExecuteWalletToolFunc(ok)

\* main is one sequential thread: while it has not returned it takes its
\* next step.
Spec == Init /\ [][Next]_vars /\ WF_vars(Next)

-----------------------------------------------------------------------------
TypeOK ==
    /\ argv \in SeqOf(Arguments, MaxArgs)
    /\ args \subseteq Options
    /\ pc \in {"WalletAppInit", "scan", "done"}
    /\ i \in 1..(Len(argv) + 1)
    /\ method \in Methods \cup {EmptyArg}
    /\ params_selected \in BOOLEAN
    /\ ecc \in {"off", "started", "stopped"}
    /\ exit_code \in {NoExit, "EXIT_SUCCESS", "EXIT_FAILURE"}
    /\ (pc = "done") = (exit_code # NoExit)

NamesMethod == {j \in DOMAIN argv : argv[j] \in Methods}

\* The wallet function runs only for a command line that names exactly one
\* method, and runs that one: the loop of main (lines 98-107) must refuse a
\* second method wherever the switches and empty arguments stand around it.
ExecutedMethodIsTheOnlyOne ==
    ecc # "off" => /\ Cardinality(NamesMethod) = 1
                   /\ \A j \in NamesMethod : method = argv[j]

\* Every run of main returns an exit code: the loop over argv ends.
Terminates == <>(exit_code # NoExit)
=============================================================================
