----------------------------- MODULE MCCompiler -----------------------------
(***************************************************************************)
(* The Tanger pass, on families of small inputs: the transactions of one   *)
(* function and the code paths it is given, the functions and calls of a   *)
(* module, the loads and stores of every type.  The initial state chooses  *)
(* a part and an input, and only that part moves.                          *)
(***************************************************************************)
EXTENDS Integers, Sequences, FiniteSets, TLC

CONSTANTS f1, g1, h1, k1, w1, null,
          Parts   \* the parts of which one is chosen

VARIABLES part,
          fn, bbprops, txns, freeBegins, freeCommits, levelZeroCode, todo, bb, txn, left,
          error, outcome, version, at, begun,
          m, info, txnalFunctions, levelOneFunctions, potentialIndirectCallTargets,
          p_left, calls, registered, missing, failed, p_error, phase,
          plain, stm, loaded, a_outcome, steps
-----------------------------------------------------------------------------
\* Functions of blocks that branch (odd ones, and 8 or 10) and blocks that begin
\* or commit a transaction and lead to the next block.
Graph(succ, commits, markers) ==
    [succ |-> succ @@ [x \in 1..12 |-> IF x \in {2, 4, 6} THEN {x + 1} ELSE {}],
     begins |-> {2, 4} \ commits, commits |-> commits, markers |-> markers]

Branches == {s \in SUBSET {2, 4, 6, 8} : Cardinality(s) <= 2}

\* Two transactions or one, with any jumps in them and between them.
Plain == {Graph((1 :> e1) @@ (3 :> e3) @@ (5 :> e5) @@ (7 :> e7) @@ (8 :> e8), commits, {}) :
             e1 \in {{2}, {2, 4}, {2, 8}}, e3 \in Branches, e5 \in Branches,
             e7 \in {{}, {8}, {2}, {4, 8}}, e8 \in {{}, {6}, {4}, {6, 8}},
             commits \in {{6}, {4, 6}}}

\* A transaction in another, with jumps out of them and back.
Nestings ==
    {Graph((1 :> e1) @@ (3 :> e3) @@ (5 :> e5) @@ (7 :> e7) @@ (8 :> {9}) @@ (9 :> e9)
             @@ (10 :> e10), {6, 8}, markers) :
        e1 \in {{2}, {2, 4}}, e3 \in {{4}, {6}, {10}, {4, 6}, {4, 8}},
        e5 \in {{6}, {8}, {6, 10}}, e7 \in {{8}, {4}, {}, {8, 10}, {6}},
        e9 \in {{}, {2}, {6}, {4}}, e10 \in {{4}, {6, 10}}, markers \in {{}, {2}}}

\* Two transactions that continue in common code, with another one in it.
Joined == [succ |-> <<{2, 4}, {3}, {6, 10}, {5}, {6, 10}, {7}, {8}, {9}, {10}, {11}, {12}, {}>>,
           begins |-> {2, 4, 6}, commits |-> {8, 11}, markers |-> {}]

Regions == INSTANCE CodePaths WITH
    Block <- 1..12, Entry <- 1, Funcs <- Plain \cup Nestings \cup {Joined}

-----------------------------------------------------------------------------
\* Modules: f1 has a transaction, g1 may have one, h1 has none; they call each
\* other and k1 in and outside of transactions.  k1 is what "kind" says; its
\* wrapper is w1.
Functions == {f1, g1, h1, k1, w1}
Kinds == {"body", "none", "pure", "readNone", "callable", "declared", "wrapped", "known"}

Module(tf, tg, zf, zg, zh, used, kind, bad) ==
    [body |-> {f1, g1, h1} \cup (IF kind \in {"body", "callable", "readNone"} THEN {k1} ELSE {}),
     hasTxns |-> {f1} \cup (IF tg = {f1} THEN {} ELSE {g1}),
     badLevels |-> bad,
     inTxn |-> [x \in Functions |-> CASE x = f1 -> tf
                                      [] x = g1 /\ tg # {f1} -> tg
                                      [] OTHER -> {}],
     levelZero |-> [x \in Functions |-> CASE x = f1 -> zf [] x = g1 -> zg [] x = h1 -> zh
                                          [] OTHER -> {}],
     used |-> used,
     pure |-> IF kind = "pure" THEN {k1} ELSE {},
     readNone |-> IF kind = "readNone" THEN {k1} ELSE {},
     callable |-> IF kind \in {"callable", "declared"} THEN {k1} ELSE {},
     wrapper |-> [x \in Functions |-> IF x = k1 /\ kind \in {"wrapped", "known"} THEN w1 ELSE null],
     builtin |-> IF kind = "known" THEN {k1} ELSE {}]

Modules ==
    {Module(tf, tg, zf, zg, zh, used, kind, {}) :
        tf \in SUBSET {g1, h1}, tg \in {{f1}, {}, {h1}}, zf \in {{}, {g1}, {h1}},
        zg \in SUBSET {f1, h1}, zh \in SUBSET {g1, k1},
        used \in {{}, {g1}, {h1, k1}, {f1}}, kind \in Kinds}
    \cup {Module({h1}, {h1}, {}, {}, {k1}, {}, "body", {f1}),
          Module({w1}, {h1}, {}, {}, {k1}, {}, "wrapped", {})}

Pass == INSTANCE TangerPass WITH
    Func <- Functions, Null <- null, Programs <- Modules, left <- p_left, error <- p_error

-----------------------------------------------------------------------------
I(n) == [kind |-> "int", bits |-> n]
Pointer == [kind |-> "pointer", bits |-> 64]
Float(n) == [kind |-> "float", bits |-> n]

Accesses == INSTANCE LoadStore WITH
    Types <- {I(1), I(8), I(16), I(24), I(32), Pointer, Float(32), Float(64), Float(80)},
    Address <- 0..7, Alignments <- {0, 1, 2, 4, 8}, MaxSteps <- 3, outcome <- a_outcome

ASSUME Assumptions == Regions!FuncsAssumption /\ Pass!ProgramsAssumption

regionVars == <<fn, bbprops, txns, freeBegins, freeCommits, levelZeroCode, todo, bb, txn,
                left, error, outcome, version, at, begun>>
passVars == <<m, info, txnalFunctions, levelOneFunctions, potentialIndirectCallTargets,
              p_left, calls, registered, missing, failed, p_error, phase>>
accessVars == <<plain, stm, loaded, a_outcome, steps>>
vars == <<part, regionVars, passVars, accessVars>>

\* A part that does not move has one input.
Init == /\ part \in Parts
        /\ IF part = "regions" THEN TRUE ELSE fn = Joined
        /\ Regions!InitRun
        /\ IF part = "pass" THEN TRUE ELSE m = CHOOSE p \in Modules : TRUE
        /\ Pass!Init
        /\ Accesses!Init

RegionsMove == part = "regions" /\ Regions!Next /\ UNCHANGED <<part, passVars, accessVars>>
PassMoves == part = "pass" /\ Pass!Next /\ UNCHANGED <<part, regionVars, accessVars>>
AccessesMove == part = "accesses" /\ Accesses!Next /\ UNCHANGED <<part, regionVars, passVars>>

Next == RegionsMove \/ PassMoves \/ AccessesMove
Spec == Init /\ [][Next]_vars
-----------------------------------------------------------------------------
\* Blocks are given to the transactions that are open in them (TxnRegions).
RegionsExact == part = "regions" => Regions!RegionsExact
\* What runs in a transaction is instrumented, and only that (CodePaths).
CodePathsKept == part = "regions" => Regions!CodePathsKept
\* Every call of instrumented code has its target (TangerPass).
CallsCovered == part = "pass" => Pass!CallsCovered
\* Instrumented accesses do what the originals do (LoadStore).
InstrumentedEqual == part = "accesses" => Accesses!InstrumentedEqual
=============================================================================
