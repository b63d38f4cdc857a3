------------------------------ MODULE Warnings ------------------------------
(***************************************************************************)
(* The process-wide warning store of src/src/warnings.cpp: one string and  *)
(* two flags behind g_warnings_mutex.  Validation, networking and init     *)
(* code set them from their own threads; the RPC and GUI threads read them *)
(* through GetWarnings.  Every function takes the mutex on entry (LOCK)    *)
(* and holds it until it returns, so a call is modelled as: Call, Lock,    *)
(* the steps of the body (one per shared variable GetWarnings reads), and  *)
(* the return, which releases the mutex.                                   *)
(*                                                                         *)
(* A warning text is abstracted to its identity: the pre-release notice,   *)
(* the two chain warnings, or the message SetMiscWarning was given.        *)
(***************************************************************************)
EXTENDS Naturals, Sequences, FiniteSets

CONSTANTS
    Threads,                    \* the threads that call into the store
    Messages,                   \* the non-empty strings given to SetMiscWarning
    EmptyString,                \* "" (model value)
    NoThread,                   \* nobody holds the mutex (model value)
    CLIENT_VERSION_IS_RELEASE   \* build-time: FALSE in a pre-release build

ASSUME /\ EmptyString \notin Messages
       /\ NoThread \notin Threads
       /\ CLIENT_VERSION_IS_RELEASE \in BOOLEAN

VARIABLES
    strMiscWarning,                 \* warnings.cpp:16
    fLargeWorkForkFound,            \* warnings.cpp:17
    fLargeWorkInvalidChainFound,    \* warnings.cpp:18
    g_warnings_mutex,               \* warnings.cpp:15, the thread that holds it
    pc,                             \* where each thread is in its call
    call,                           \* the function a thread runs and its argument
    acc,                            \* GetWarnings' locals warnings_concise, warnings_verbose
    ret                             \* what a thread's last call returned

store  == <<strMiscWarning, fLargeWorkForkFound, fLargeWorkInvalidChainFound>>
locals == <<call, acc, ret>>

\* The values, and the store as its callers see it: the abstract
\* specification, whose pending call of a thread is the call it runs here.
INSTANCE WarningStore WITH pending <- call

vars   == <<store, g_warnings_mutex, pc, locals>>
NoAcc  == [concise |-> EmptyString, verbose |-> <<>>]

-----------------------------------------------------------------------------
(* Helpers *)

\* The end of the function's scope releases the mutex and the call returns.
Return(t, value) ==
    /\ g_warnings_mutex' = NoThread
    /\ pc'   = [pc EXCEPT ![t] = "idle"]
    /\ call' = [call EXCEPT ![t] = NoCall]
    /\ acc'  = [acc EXCEPT ![t] = NoAcc]
    /\ ret'  = [ret EXCEPT ![t] = value]

Running(t, op, at) == pc[t] = at /\ call[t].op = op

\* warnings_concise = w; warnings_verbose.emplace_back(warnings_concise)
Emplace(a, w) == [concise |-> w, verbose |-> Append(a.verbose, w)]

-----------------------------------------------------------------------------
(* Faulty variants of the functions below, used to show that the         *)
(* properties tell the code from a plausible wrong version of it.        *)

\* The LOCK is missing: the caller goes on whoever holds the mutex.
LockWithoutWaiting(t) ==
    /\ pc[t] = "lock"
    /\ g_warnings_mutex' = t
    /\ pc' = [pc EXCEPT ![t] = "body"]
    /\ UNCHANGED <<store, locals>>

\* `if` instead of `else if`: both chain warnings are listed.
GetWarningsBothFlags(t) ==
    /\ Running(t, "GetWarnings", "flags")
    /\ acc' = [acc EXCEPT ![t] =
                 LET f == IF fLargeWorkForkFound THEN Emplace(@, Fork) ELSE @
                 IN  IF fLargeWorkInvalidChainFound THEN Emplace(f, InvalidChain) ELSE f]
    /\ pc' = [pc EXCEPT ![t] = "return"]
    /\ UNCHANGED <<store, g_warnings_mutex, call, ret>>

-----------------------------------------------------------------------------
(* The functions *)

Init ==
    /\ strMiscWarning = EmptyString
    /\ fLargeWorkForkFound = FALSE
    /\ fLargeWorkInvalidChainFound = FALSE
    /\ g_warnings_mutex = NoThread
    /\ pc   = [t \in Threads |-> "idle"]
    /\ call = [t \in Threads |-> NoCall]
    /\ acc  = [t \in Threads |-> NoAcc]
    /\ ret  = [t \in Threads |-> Void]

\* A thread enters one of the five functions.
Call(t, c) ==
    /\ pc[t] = "idle"
    /\ pc'   = [pc EXCEPT ![t] = "lock"]
    /\ call' = [call EXCEPT ![t] = c]
    /\ UNCHANGED <<store, g_warnings_mutex, acc, ret>>

\* LOCK(g_warnings_mutex): blocks until the mutex is free.
Lock(t) ==
    /\ pc[t] = "lock"
    /\ g_warnings_mutex = NoThread
    /\ g_warnings_mutex' = t
    /\ pc' = [pc EXCEPT ![t] = "body"]
    /\ UNCHANGED <<store, locals>>

SetMiscWarning(t) ==
    /\ Running(t, "SetMiscWarning", "body")
    /\ strMiscWarning' = call[t].arg
    /\ Return(t, Void)
    /\ UNCHANGED <<fLargeWorkForkFound, fLargeWorkInvalidChainFound>>

SetfLargeWorkForkFound(t) ==
    /\ Running(t, "SetfLargeWorkForkFound", "body")
    /\ fLargeWorkForkFound' = call[t].arg
    /\ Return(t, Void)
    /\ UNCHANGED <<strMiscWarning, fLargeWorkInvalidChainFound>>

GetfLargeWorkForkFound(t) ==
    /\ Running(t, "GetfLargeWorkForkFound", "body")
    /\ Return(t, Bool(fLargeWorkForkFound))
    /\ UNCHANGED store

SetfLargeWorkInvalidChainFound(t) ==
    /\ Running(t, "SetfLargeWorkInvalidChainFound", "body")
    /\ fLargeWorkInvalidChainFound' = call[t].arg
    /\ Return(t, Void)
    /\ UNCHANGED <<strMiscWarning, fLargeWorkForkFound>>

\* GetWarnings up to its read of strMiscWarning: the pre-release notice,
\* then the misc warning when there is one.
GetWarningsMisc(t) ==
    LET pre == IF CLIENT_VERSION_IS_RELEASE THEN NoAcc ELSE Emplace(NoAcc, PreRelease)
    IN  /\ Running(t, "GetWarnings", "body")
        /\ acc' = [acc EXCEPT ![t] = IF strMiscWarning # EmptyString
                                     THEN Emplace(pre, strMiscWarning)
                                     ELSE pre]
        /\ pc' = [pc EXCEPT ![t] = "flags"]
        /\ UNCHANGED <<store, g_warnings_mutex, call, ret>>

\* GetWarnings' reads of the two flags: the fork warning hides the
\* invalid-chain warning (else if).
GetWarningsFlags(t) ==
    /\ Running(t, "GetWarnings", "flags")
    /\ acc' = [acc EXCEPT ![t] =
                 IF fLargeWorkForkFound THEN Emplace(@, Fork)
                 ELSE IF fLargeWorkInvalidChainFound THEN Emplace(@, InvalidChain)
                 ELSE @]
    /\ pc' = [pc EXCEPT ![t] = "return"]
    /\ UNCHANGED <<store, g_warnings_mutex, call, ret>>

\* verbose: every warning, joined and translated; otherwise the last one
\* assigned to warnings_concise, untranslated.
GetWarningsReturn(t) ==
    /\ Running(t, "GetWarnings", "return")
    /\ Return(t, IF call[t].arg
                 THEN Text("translated", acc[t].verbose)
                 ELSE Text("original", IF acc[t].concise = EmptyString
                                       THEN <<>> ELSE <<acc[t].concise>>))
    /\ UNCHANGED store

Next ==
    \E t \in Threads :
        \/ \E c \in Calls : Call(t, c)
        \/ Lock(t)
        \/ SetMiscWarning(t)
        \/ SetfLargeWorkForkFound(t)
        \/ GetfLargeWorkForkFound(t)
        \/ SetfLargeWorkInvalidChainFound(t)
        \/ GetWarningsMisc(t)
        \/ GetWarningsFlags(t)
        \/ GetWarningsReturn(t)

Spec == Init /\ [][Next]_vars

-----------------------------------------------------------------------------
(* Properties *)

TypeOK ==
    /\ strMiscWarning \in Messages \cup {EmptyString}
    /\ fLargeWorkForkFound \in BOOLEAN
    /\ fLargeWorkInvalidChainFound \in BOOLEAN
    /\ g_warnings_mutex \in Threads \cup {NoThread}
    /\ pc \in [Threads -> {"idle", "lock", "body", "flags", "return"}]
    /\ call \in [Threads -> Calls \cup {NoCall}]
    /\ acc \in [Threads -> [concise : WarningTexts \cup {EmptyString},
                            verbose : UNION {[1..n -> WarningTexts] : n \in 0..3}]]
    /\ ret \in [Threads -> Results]

\* GetWarnings reads three variables one after the other while setters run
\* in other threads.  When it is about to return, the list it has built is
\* the list of the store as it is at that moment, and the concise warning
\* is the last of that list: no answer mixes the string of one state with
\* the flags of another (LOCK at warnings.cpp:49 held over lines 52-69).
ReturnDescribesStore ==
    \A t \in Threads :
        pc[t] = "return" =>
            /\ acc[t].verbose = WarningsOf
            /\ acc[t].concise = IF WarningsOf = <<>> THEN EmptyString
                                ELSE WarningsOf[Len(WarningsOf)]

\* The string and the flags change only in a step of the thread that holds
\* g_warnings_mutex, and that step is its return (GUARDED_BY at
\* warnings.cpp:16-18: no setter writes outside its LOCK scope, and no two
\* threads are inside one).
WritesHoldMutex ==
    [][store' # store =>
        \E t \in Threads : /\ g_warnings_mutex = t
                           /\ pc[t] = "body"
                           /\ pc'[t] = "idle"]_vars

\* Warnings implements WarningStore: to its callers every call looks as if
\* it ran in one step, at the step in which it returns.  Taking the mutex
\* and the reads of GetWarnings change nothing a caller sees, and what
\* GetWarnings returns after reading the string and the flags in separate
\* steps is what one read of the whole store at its return would give
\* (LOCK at warnings.cpp:22, 28, 34, 40 and 49).
ImplementsWarningStore == AtomicStore

=============================================================================
