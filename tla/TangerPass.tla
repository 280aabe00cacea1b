----------------------------- MODULE TangerPass -----------------------------
(***************************************************************************)
(* The Tanger pass over a module: which functions get a transactional      *)
(* version, and where the calls of transactional code go                   *)
(* (TangerTransform::processModule).  Annotations and uses that are not    *)
(* calls are collected first.  The functions with transactions are         *)
(* analysed, then every function that is reached from them, then the call  *)
(* graphs of the targets of indirect calls.  At last the functions are     *)
(* cloned and their calls redirected, and the clones are registered for    *)
(* the resolver of the STM at run time.  The options have their defaults:  *)
(* whole programs, one instrumentation, direct calls of functions without  *)
(* a transactional version go to the resolver.                             *)
(***************************************************************************)
EXTENDS Integers, FiniteSets

CONSTANTS
    Func,       \* functions of a module
    Null,
    Programs    \* the modules, see below

\* A program: the functions with a body, the ones with transactions, whether
\* the nesting of those is in order; what is called in transactions and
\* outside of them; the functions with a use that is not a call; annotations,
\* the attribute ReadNone, the wrapper of a function that has one; and the
\* functions that are pure or wrapped because the pass knows them.
ProgramType ==
    [body : SUBSET Func, hasTxns : SUBSET Func, badLevels : SUBSET Func,
     inTxn : [Func -> SUBSET Func], levelZero : [Func -> SUBSET Func],
     used : SUBSET Func, pure : SUBSET Func, readNone : SUBSET Func,
     callable : SUBSET Func, wrapper : [Func -> Func \cup {Null}], builtin : SUBSET Func]

ProgramsAssumption ==
    \A p \in Programs : /\ p \in ProgramType /\ p.hasTxns \subseteq p.body
                        /\ \A f \in Func \ p.body : p.levelZero[f] = {}
                        /\ \A f \in Func \ p.hasTxns : p.inTxn[f] = {}

VARIABLES
    m,            \* the program
    info,         \* funcInfos
    txnalFunctions, levelOneFunctions, potentialIndirectCallTargets,
    left,         \* functions a loop has still to visit
    calls,        \* for each function transformed, where its calls go
    registered,   \* what indirect_register_multiple was called with
    missing,      \* versions renamed so that the linker complains
    failed,       \* an assertion did not hold
    error, phase

vars == <<m, info, txnalFunctions, levelOneFunctions, potentialIndirectCallTargets, left,
          calls, registered, missing, failed, error, phase>>
sets == <<levelOneFunctions, potentialIndirectCallTargets>>
output == <<calls, registered, missing>>

FuncInfo == [type |-> "Unknown", checkResult |-> "NotYetChecked", hasBeenChecked |-> FALSE,
             txnalVersionProcessed |-> FALSE, levelZeroCallees |-> {}, version |-> Null]

Init ==
    /\ m \in Programs
    /\ info = [f \in Func |-> FuncInfo]
    /\ txnalFunctions = {} /\ levelOneFunctions = {} /\ potentialIndirectCallTargets = {}
    /\ left = {} /\ calls = [f \in Func |-> {}] /\ registered = {} /\ missing = {}
    /\ failed = FALSE /\ error = FALSE /\ phase = "declarations"

-----------------------------------------------------------------------------
(* FuncInfo, setCallable.                                                  *)

setPure(f) == [FuncInfo EXCEPT !.type = "Pure", !.txnalVersionProcessed = TRUE,
                               !.hasBeenChecked = TRUE, !.version = f]
setWrapped(w) == [FuncInfo EXCEPT !.type = "Callable", !.txnalVersionProcessed = TRUE,
                                  !.checkResult = "CompletelyValid",
                                  !.hasBeenChecked = TRUE, !.version = w]

\* The clone of f is known by the name of f and a mark.
getTxnalFunction(f) == <<"tanger_txnal", f>>

\* The function that a transactional version stands for is its "version".
setTxnalVersion(f) == [FuncInfo EXCEPT !.type = "TxnalVersion", !.version = f,
                                       !.checkResult = "CompletelyValid",
                                       !.hasBeenChecked = TRUE]

\* Fault: callees that are only potentially callable so far stay so.
Settled_Potential(fi, cfi, potentially) ==
    fi.hasBeenChecked /\ cfi.type \in {"Callable", "PotentiallyCallable"}

\* A callee that need not be visited.
Settled(fi, cfi, potentially) ==
    /\ fi.hasBeenChecked
    /\ cfi.type = "Callable" \/ (potentially /\ cfi.type = "PotentiallyCallable")

\* s is what is known (info), what is still to be checked (todo), and whether
\* an assertion failed.  check says whether functions are to be checked.
RECURSIVE setCallables(_, _, _)
setCallables(s, pending, check) ==
    IF pending = {} THEN s
    ELSE LET x  == CHOOSE y \in pending : TRUE
             f  == x[1]
             fi == s.info[f]
             pc == x[2] /\ fi.type # "Callable"
             new == [s.info EXCEPT ![f].type = IF pc THEN "PotentiallyCallable" ELSE "Callable",
                                   ![f].levelZeroCallees = IF pc THEN @ ELSE {}]
             more == {c \in fi.levelZeroCallees : ~Settled(fi, new[c], pc)}
         IN  IF fi.type = "Pure"
             THEN setCallables(s, pending \ {x}, check)
             ELSE setCallables([info |-> new,
                                todo |-> IF check /\ ~fi.hasBeenChecked THEN s.todo \cup {f}
                                         ELSE s.todo,
                                failed |-> s.failed \/ fi.type = "TxnalVersion"],
                               (pending \ {x}) \cup (more \X {pc}), check)

setCallable(s, f, check, potentially) == setCallables(s, {<<f, potentially>>}, check)

-----------------------------------------------------------------------------
(* (1) Annotations, wrappers and uses.                                     *)

WrappedBy(w) == {f \in Func : m.wrapper[f] = w}

\* Declared wrappers, pure declarations and versions, given what is known.
Declared(F) ==
    [f \in Func |->
       CASE f \in m.pure \cap F -> setPure(f)
         [] f \in F /\ m.wrapper[f] # Null -> setWrapped(m.wrapper[f])
         [] WrappedBy(f) \cap F # {} -> setTxnalVersion(CHOOSE o \in WrappedBy(f) : TRUE)
         [] OTHER -> info[f]]

\* A function that is annotated as callable and has a body is a candidate
\* until it has been checked.  One without a body gets the declaration of a
\* version.  createDeclaredTxnalWrapper returns an error flag that it sets
\* only when it found an error: otherwise the flag has any value.
findTxnalWrapperDeclarations ==
    /\ phase = "declarations"
    /\ info' = [f \in Func |->
          CASE f \in m.callable \cap m.body ->
                  [FuncInfo EXCEPT !.type = "PotentiallyCallable"]
            [] f \in m.callable \ m.body ->
                  [FuncInfo EXCEPT !.type = "Callable", !.hasBeenChecked = TRUE,
                                   !.txnalVersionProcessed = TRUE,
                                   !.version = getTxnalFunction(f)]
            [] OTHER -> Declared(Func \ m.builtin)[f]]
    /\ potentialIndirectCallTargets' = m.callable \cap m.body
    /\ error' \in IF \E f \in Func \ m.builtin : m.wrapper[f] # Null THEN BOOLEAN ELSE {FALSE}
    /\ phase' = "defaults"
    /\ UNCHANGED <<m, txnalFunctions, levelOneFunctions, left, output, failed>>

\* Skipped after an error.
addDefaultTxnalWrapperDeclarations ==
    /\ phase = "defaults" /\ phase' = "uses"
    /\ info' = IF error THEN info
               ELSE Declared({f \in m.builtin : ~info[f].hasBeenChecked})
    /\ UNCHANGED <<m, txnalFunctions, sets, left, output, failed, error>>

findUses ==
    /\ phase = "uses"
    /\ info' = [f \in Func |->
          CASE f \in m.readNone /\ info[f].type # "Pure" -> setPure(f)
            [] f \in m.used \ m.readNone /\ info[f].type = "Unknown" ->
                  [info[f] EXCEPT !.type = "PotentiallyCallable"]
            [] OTHER -> info[f]]
    /\ potentialIndirectCallTargets' = potentialIndirectCallTargets
          \cup {f \in m.used : info'[f].type # "TxnalVersion"}
    /\ phase' = "transactions" /\ left' = IF error THEN {} ELSE m.hasTxns
    /\ UNCHANGED <<m, txnalFunctions, levelOneFunctions, output, failed, error>>

-----------------------------------------------------------------------------
(* (2) Functions with transactions, (3) functions called from them.        *)

\* Calls of f that are looked at: the callee is not pure, nor callable already.
Noticed(s, C) == {c \in C : s.info[c].type \in {"Unknown", "PotentiallyCallable"}}
Direct(s, C) == {c \in C : s.info[c].type = "TxnalVersion"}

\* Whether the calls at level zero make the callees callable at once.
Now(fi) == fi.type = "Callable"

\* checkBB on the blocks of the transactions.
checkTxns(s, f) == setCallables(s, Noticed(s, m.inTxn[f]) \X {FALSE}, TRUE)
TxnError(s, f) == Direct(s, m.inTxn[f]) # {}

\* checkBB on the other blocks: what prevents a transactional version is
\* printed and not recorded.
checkLevelZero(s, f) ==
    LET C == Noticed(s, m.levelZero[f])
    IN  IF Now(s.info[f]) THEN setCallables(s, C \X {FALSE}, TRUE)
        ELSE [s EXCEPT !.info[f].levelZeroCallees = @ \cup C]

analyzeAndCheckFunction(s, f) ==
    LET t == checkLevelZero(checkTxns(s, f), f)
        u == IF f \in m.badLevels THEN s ELSE t
        result == IF f \in m.badLevels \/ TxnError(s, f) THEN "NothingValid"
                  ELSE "CompletelyValid"
    IN  [u EXCEPT !.info[f].checkResult = result, !.info[f].hasBeenChecked = TRUE]

State == [info |-> info, todo |-> txnalFunctions, failed |-> failed]
Becomes(s) == info' = s.info /\ txnalFunctions' = s.todo /\ failed' = s.failed

checkFunctionsWithTransactions(f) ==
    /\ phase = "transactions" /\ f \in left
    /\ left' = left \ {f}
    /\ IF info[f].hasBeenChecked
       THEN UNCHANGED <<info, txnalFunctions, failed, error, levelOneFunctions>>
       ELSE LET s == analyzeAndCheckFunction([State EXCEPT !.info[f].hasBeenChecked = TRUE], f)
                bad == s.info[f].checkResult = "NothingValid"
            IN  /\ Becomes(s) /\ error' = (error \/ bad)
                /\ levelOneFunctions' = IF bad THEN levelOneFunctions
                                        ELSE levelOneFunctions \cup {f}
    /\ UNCHANGED <<m, potentialIndirectCallTargets, output, phase>>

startClosure ==
    /\ phase = "transactions" /\ left = {}
    /\ txnalFunctions' = txnalFunctions \cup
          {f \in Func : /\ info[f].type \in {"Callable", "PotentiallyCallable"}
                        /\ ~info[f].txnalVersionProcessed}
    /\ phase' = "callees"
    /\ UNCHANGED <<m, info, sets, left, output, failed, error>>

Checked(f) ==
    IF info[f].hasBeenChecked THEN State
    ELSE IF f \notin m.body
    THEN [State EXCEPT !.info[f].checkResult = "NothingValid", !.info[f].hasBeenChecked = TRUE]
    ELSE analyzeAndCheckFunction(State, f)

\* What a valid function is, its callees become, too.
Passed(s, f) == setCallable(s, f, TRUE, s.info[f].type = "PotentiallyCallable")

checkTxnalFunction(f) ==
    /\ phase = "callees" /\ f \in txnalFunctions
    /\ LET bad == info[f].txnalVersionProcessed \/ info[f].type \in {"Pure", "TxnalVersion"}
           c == Checked(f)
           s == [c EXCEPT !.todo = @ \ {f}, !.failed = @ \/ bad]
       IN  Becomes(IF s.info[f].checkResult = "CompletelyValid" THEN Passed(s, f) ELSE s)
    /\ UNCHANGED <<m, sets, left, output, error, phase>>

startTargets ==
    /\ phase = "callees" /\ txnalFunctions = {}
    /\ phase' = "targets" /\ left' = potentialIndirectCallTargets
    /\ UNCHANGED <<m, info, txnalFunctions, sets, output, failed, error>>

\* The functions a target can reach, through the callees that are remembered.
RECURSIVE callGraph(_)
callGraph(C) ==
    LET more == UNION {info[f].levelZeroCallees :
                         f \in {g \in C : /\ info[g].type # "Pure"
                                          /\ info[g].checkResult = "CompletelyValid"}}
    IN  IF more \subseteq C THEN C ELSE callGraph(C \cup more)

Transformable(f) == \A g \in callGraph({f}) : \/ info[g].type = "Pure"
                                              \/ info[g].checkResult = "CompletelyValid"

checkTarget(f) ==
    /\ phase = "targets" /\ f \in left /\ left' = left \ {f}
    /\ LET asserted == \A g \in callGraph({f}) :
                          /\ info[g].hasBeenChecked
                          /\ info[g].type \notin {"TxnalVersion", "Unknown"}
           s == IF Transformable(f) THEN setCallable(State, f, FALSE, FALSE) ELSE State
       IN  Becomes([s EXCEPT !.failed = @ \/ ~asserted])
    /\ UNCHANGED <<m, sets, output, error, phase>>

-----------------------------------------------------------------------------
(* (4) Transformation, (6) registration, linkage.                          *)

ToClone == {f \in Func : /\ info[f].type = "Callable" /\ ~info[f].txnalVersionProcessed
                         /\ info[f].checkResult = "CompletelyValid"}

declareVersions ==
    /\ phase = "targets" /\ left = {}
    /\ info' = [f \in Func |-> IF f \in ToClone /\ info[f].version = Null
                               THEN [info[f] EXCEPT !.version = getTxnalFunction(f)] ELSE info[f]]
    /\ phase' = "transform" /\ left' = ToClone \cup levelOneFunctions
    /\ UNCHANGED <<m, txnalFunctions, sets, output, failed, error>>

\* transformBB: where a call of c goes.
Redirected(c) ==
    IF info[c].type = "Callable" /\ info[c].checkResult # "CompletelyValid"
    THEN <<"resolve", c>>
    ELSE info[c].version

\* The calls of f in instrumented code: in its transactions, and everywhere in
\* the transactional version.
transformFunction(f) ==
    /\ phase = "transform" /\ f \in left /\ left' = left \ {f}
    /\ LET C == (IF f \in levelOneFunctions THEN m.inTxn[f] ELSE {})
                \cup (IF f \in ToClone THEN m.levelZero[f] ELSE {})
       IN  /\ calls' = [calls EXCEPT ![f] = {<<c, Redirected(c)>> : c \in C}]
           /\ failed' = (failed \/ \E c \in C : info[c].type \notin {"Callable", "Pure"})
    /\ info' = [info EXCEPT ![f].txnalVersionProcessed = @ \/ f \in ToClone]
    /\ UNCHANGED <<m, txnalFunctions, sets, registered, missing, error, phase>>

ValidTargets == {f \in potentialIndirectCallTargets :
                    \/ info[f].type = "Callable" /\ info[f].checkResult = "CompletelyValid"
                    \/ info[f].type = "Pure"}

insertIndirectCallInit ==
    /\ phase = "transform" /\ left = {}
    /\ registered' = {<<f, info[f].version>> : f \in ValidTargets}
    /\ failed' = (failed \/ (\E f \in potentialIndirectCallTargets :
                     \/ info[f].type \notin {"Callable", "PotentiallyCallable", "Pure"}
                     \/ info[f].type = "Callable" /\ ~info[f].hasBeenChecked)
                  \/ \E f \in ValidTargets : ~info[f].txnalVersionProcessed
                                             \/ info[f].version = Null)
    /\ missing' = {info[f].version : f \in {g \in Func : /\ info[g].type = "Callable"
                                                         /\ info[g].checkResult # "CompletelyValid"
                                                         /\ info[g].version # Null}}
    /\ phase' = IF error THEN "exit" ELSE "done"
    /\ UNCHANGED <<m, info, txnalFunctions, sets, left, calls, error>>

Ended == phase \in {"done", "exit"} /\ UNCHANGED vars

Next == \/ findTxnalWrapperDeclarations \/ addDefaultTxnalWrapperDeclarations \/ findUses
        \/ startClosure \/ startTargets \/ declareVersions \/ insertIndirectCallInit \/ Ended
        \/ \E f \in Func : \/ checkFunctionsWithTransactions(f) \/ checkTxnalFunction(f)
                           \/ checkTarget(f) \/ transformFunction(f)

Spec == Init /\ [][Next]_vars
-----------------------------------------------------------------------------
\* Functions whose code runs in transactions once every callee is entered.
RECURSIVE Closure(_)
Closure(C) ==
    LET more == C \cup UNION {m.levelZero[f] : f \in {g \in C : info[g].type # "Pure"
                                                               /\ m.wrapper[g] = Null}}
    IN  IF more = C THEN C ELSE Closure(more)

CalledInTxns == Closure(UNION {m.inTxn[f] : f \in levelOneFunctions})

IsPure(f) == f \in m.pure \cup m.readNone

\* What a call of c in instrumented code has to go to.
Expected(c) == CASE IsPure(c) -> c
                 [] ~IsPure(c) /\ m.wrapper[c] # Null -> m.wrapper[c]
                 [] ~IsPure(c) /\ m.wrapper[c] = Null /\ c \in m.body -> getTxnalFunction(c)
                 [] OTHER -> <<"resolve", c>>

(***************************************************************************)
(* Every call of instrumented code goes to a function that may be called   *)
(* there: a pure one, a wrapper, a clone that has been made, or the        *)
(* resolver when the callee has no body to clone; the resolver is told the *)
(* same targets; and every function that can be reached from a transaction *)
(* and can be cloned has been cloned, whatever the order in which          *)
(* functions are analysed.  No assertion of the pass fails (processModule, *)
(* setCallable, checkBB, transformBB).                                     *)
(***************************************************************************)
CallsCovered ==
    /\ ~failed
    /\ phase = "done" =>
         /\ \A f \in Func : \A x \in calls[f] : x[2] = Expected(x[1])
         /\ \A r \in registered : r[2] = Expected(r[1])
         /\ \A f \in CalledInTxns :
               f \in m.body /\ ~IsPure(f) /\ m.wrapper[f] = Null =>
                   /\ info[f].txnalVersionProcessed /\ info[f].version = getTxnalFunction(f)
                   /\ {x[1] : x \in calls[f]} = m.inTxn[f] \cup m.levelZero[f]
=============================================================================
