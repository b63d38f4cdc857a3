---------------------------- MODULE WarningStore ----------------------------
(***************************************************************************)
(* What src/src/warnings.cpp promises its callers: one store of a string   *)
(* and two flags, and five functions each of which takes effect at one     *)
(* instant between its call and its return.  There is no mutex here and no *)
(* step inside a function: a setter writes and a getter reads the whole    *)
(* store at once.  Warnings is the implementation, with the mutex.         *)
(*                                                                         *)
(* A warning text is abstracted to its identity: the pre-release notice,   *)
(* the two chain warnings, or the message SetMiscWarning was given.        *)
(***************************************************************************)
EXTENDS Naturals, Sequences

CONSTANTS
    Threads,                    \* the threads that call into the store
    Messages,                   \* the non-empty strings given to SetMiscWarning
    EmptyString,                \* "" (model value)
    CLIENT_VERSION_IS_RELEASE   \* build-time: FALSE in a pre-release build

ASSUME EmptyString \notin Messages /\ CLIENT_VERSION_IS_RELEASE \in BOOLEAN

VARIABLES
    strMiscWarning,                 \* warnings.cpp:16
    fLargeWorkForkFound,            \* warnings.cpp:17
    fLargeWorkInvalidChainFound,    \* warnings.cpp:18
    pending,                        \* the call each thread is in, with its argument
    ret                             \* what a thread's last call returned

LOCAL store == <<strMiscWarning, fLargeWorkForkFound, fLargeWorkInvalidChainFound>>

-----------------------------------------------------------------------------
(* Values *)

PreRelease   == "pre-release test build"
Fork         == "network does not fully agree"
InvalidChain == "we do not agree with our peers"

WarningTexts == {PreRelease, Fork, InvalidChain} \cup Messages

Calls ==
         [op : {"SetMiscWarning"}, arg : Messages \cup {EmptyString}]
    \cup [op : {"SetfLargeWorkForkFound", "SetfLargeWorkInvalidChainFound"}, arg : BOOLEAN]
    \cup [op : {"GetfLargeWorkForkFound"}, arg : {EmptyString}]
    \cup [op : {"GetWarnings"}, arg : BOOLEAN]          \* arg is `verbose`

NoCall  == [op |-> "none", arg |-> EmptyString]
Void    == [kind |-> "void"]
Bool(b) == [kind |-> "bool", value |-> b]
\* Join(warnings_verbose, "<hr />").translated or warnings_concise.original
Text(form, items) == [kind |-> "text", form |-> form, items |-> items]

Results ==
         {Void}
    \cup {Bool(b) : b \in BOOLEAN}
    \cup {Text("translated", s) : s \in UNION {[1..n -> WarningTexts] : n \in 0..3}}
    \cup {Text("original", s) : s \in UNION {[1..n -> WarningTexts] : n \in 0..1}}

-----------------------------------------------------------------------------
(* The store as its callers see it *)

\* What a reader of the store as it is now is told, in the order of
\* GetWarnings; the fork warning hides the invalid-chain warning.
WarningsOf ==
       (IF CLIENT_VERSION_IS_RELEASE THEN <<>> ELSE <<PreRelease>>)
    \o (IF strMiscWarning = EmptyString THEN <<>> ELSE <<strMiscWarning>>)
    \o (IF fLargeWorkForkFound THEN <<Fork>>
        ELSE IF fLargeWorkInvalidChainFound THEN <<InvalidChain>>
        ELSE <<>>)

\* What call c returns from the store as it is now.
Answer(c) ==
    CASE c.op = "GetfLargeWorkForkFound" -> Bool(fLargeWorkForkFound)
      [] c.op = "GetWarnings" /\ c.arg   -> Text("translated", WarningsOf)
      [] c.op = "GetWarnings" /\ ~c.arg  ->
             Text("original", SubSeq(WarningsOf, Len(WarningsOf), Len(WarningsOf)))
      [] OTHER                           -> Void

\* The value of a stored variable after call c: the argument of its setter.
After(setter, c, old) == IF c.op = setter THEN c.arg ELSE old

AtomicInit ==
    /\ strMiscWarning = EmptyString
    /\ fLargeWorkForkFound = FALSE
    /\ fLargeWorkInvalidChainFound = FALSE
    /\ pending = [t \in Threads |-> NoCall]
    /\ ret = [t \in Threads |-> Void]

Invoke(t, c) ==
    /\ pending[t] = NoCall
    /\ pending' = [pending EXCEPT ![t] = c]
    /\ UNCHANGED <<store, ret>>

\* The call of thread t takes effect and returns.
TakeEffect(t) ==
    /\ pending[t] # NoCall
    /\ strMiscWarning' = After("SetMiscWarning", pending[t], strMiscWarning)
    /\ fLargeWorkForkFound' =
           After("SetfLargeWorkForkFound", pending[t], fLargeWorkForkFound)
    /\ fLargeWorkInvalidChainFound' =
           After("SetfLargeWorkInvalidChainFound", pending[t], fLargeWorkInvalidChainFound)
    /\ ret' = [ret EXCEPT ![t] = Answer(pending[t])]
    /\ pending' = [pending EXCEPT ![t] = NoCall]

AtomicNext == \E t \in Threads : TakeEffect(t) \/ \E c \in Calls : Invoke(t, c)

\* Every behaviour of the store is one of atomic calls.
AtomicStore == AtomicInit /\ [][AtomicNext]_<<store, pending, ret>>

=============================================================================
