----------------------------- MODULE LocksCache -----------------------------
(***************************************************************************)
(* Validation in a VARIANT3 build: a transaction of node Me looks at the   *)
(* lock words of its read set through a DSTMLocksCache, which fetches a    *)
(* line of neighbouring words at once and lives as long as the validation. *)
(* Meanwhile other transactions lock, release and renew the words.  The    *)
(* segments of all nodes start at the same address, so that an offset is   *)
(* an address and two nodes have words at the same one.                    *)
(***************************************************************************)
EXTENDS Naturals

CONSTANTS Me,        \* the node of the transaction
          Word,      \* lock words, each by its node and its position there
          LineWords, \* 1 << cl_pow, in words
          MaxVersion,    \* bound: versions of a word
          MaxValidations \* bound: validations of the transaction

ASSUME LineAssumption ==
    /\ Me \in Nat /\ Word \subseteq Nat \X Nat /\ LineWords \in Nat \ {0}
    /\ MaxVersion \in Nat /\ MaxValidations \in Nat

VARIABLES
    lock, version, \* the words, by node and position
    ts,      \* the versions of the transaction's copies
    i_map,   \* lines the cache keeps, by key
    toCheck, \* words validation has still to look at
    running, \* a validation is under way
    valid,   \* what the last one has come to
    bad,     \* history: words that were never as copied since it began
    validations

wordVars == <<lock, version>>
validationVars == <<i_map, toCheck, running, valid, bad, validations>>
locksVars == <<wordVars, ts, validationVars>>

\* al << cl_pow: where the line of a word starts
low_bound(x) == (x[2] \div LineWords) * LineWords

\* low_bound | node << 48
Key(x) == <<x[1], low_bound(x)>>

\* What a get brings from the node of x.
Line(x) == [y \in {z \in Word : Key(z) = Key(x)} |->
              [lock |-> lock[y], version |-> version[y]]]

\* A word refuses the copy: locked, or isTimestampGreater.
Refuses(w, x) == w.lock \/ w.version > ts[x]

Invalid == {x \in Word : Refuses(Line(x)[x], x)}

LocksInit ==
    /\ lock = [x \in Word |-> FALSE] /\ version = [x \in Word |-> 0]
    /\ ts = [x \in Word |-> 0]
    /\ i_map = <<>> /\ toCheck = {}
    /\ running = FALSE /\ valid = FALSE /\ bad = {}
    /\ validations = 0

-----------------------------------------------------------------------------
(* Other transactions: lock requests, releases and commits.                *)

Others == UNCHANGED <<ts, i_map, toCheck, running, valid, validations>>
             /\ bad' = {x \in bad : lock'[x] \/ version'[x] > ts[x]}

lockWord(x) == /\ ~lock[x] /\ lock' = [lock EXCEPT ![x] = TRUE]
               /\ UNCHANGED version /\ Others

releaseWord(x) ==
    /\ lock[x] /\ lock' = [lock EXCEPT ![x] = FALSE]
    /\ \/ UNCHANGED version
       \/ version[x] < MaxVersion /\ version' = [version EXCEPT ![x] = @ + 1]
    /\ Others

-----------------------------------------------------------------------------
(* The transaction.                                                        *)

\* It reads an object again, with its version.
readWord(x) ==
    /\ ~running /\ ~lock[x] /\ ts[x] # version[x]
    /\ ts' = [ts EXCEPT ![x] = version[x]]
    /\ valid' = FALSE /\ bad' = {}
    /\ UNCHANGED <<wordVars, i_map, toCheck, running, validations>>

\* Fault: the cache outlives the validation.
NewCache_Kept == i_map

\* new DSTMLocksCache
NewCache == <<>>

startValidation(S) ==
    /\ ~running /\ S # {} /\ validations < MaxValidations
    /\ running' = TRUE /\ valid' = FALSE /\ toCheck' = S /\ i_map' = NewCache
    /\ bad' = Invalid \cap S
    /\ validations' = validations + 1
    /\ UNCHANGED <<wordVars, ts>>

\* The line is looked for by its address alone: no node bits.
Bare(x) == <<0, low_bound(x)>>
Found(x) == Bare(x) \in DOMAIN i_map

\* The word at the address of x in a line of another node or of its own.
At(line, x) == line[CHOOSE y \in DOMAIN line : y[2] = x[2]]

\* DSTMLocksCache::get finds word w and leaves newMap.
get(x, w, newMap) ==
    \/ /\ x[1] = Me
       /\ w = Line(x)[x] /\ newMap = i_map
    \/ /\ x[1] # Me /\ Found(x)
       /\ w = At(i_map[Bare(x)], x) /\ newMap = i_map
    \/ /\ x[1] # Me /\ ~Found(x)
       /\ w = Line(x)[x]
       /\ newMap = [k \in DOMAIN i_map \cup {Key(x)} |->
                      IF k = Key(x) THEN Line(x) ELSE i_map[k]]

\* One turn of the loop of validate and of validateAll.
check(x) ==
    /\ running /\ x \in toCheck
    /\ \E w \in [lock : BOOLEAN, version : 0..MaxVersion] :
          /\ get(x, w, i_map')
          /\ IF Refuses(w, x) THEN running' = FALSE /\ toCheck' = {}
             ELSE UNCHANGED running /\ toCheck' = toCheck \ {x}
    /\ UNCHANGED <<wordVars, ts, valid, bad, validations>>

allChecked ==
    /\ running /\ toCheck = {}
    /\ running' = FALSE /\ valid' = TRUE
    /\ UNCHANGED <<wordVars, ts, toCheck, i_map, bad, validations>>

LocksNext ==
    \/ \E x \in Word : lockWord(x) \/ releaseWord(x) \/ readWord(x) \/ check(x)
    \/ allChecked \/ \E S \in SUBSET Word : startValidation(S)

LocksSpec == LocksInit /\ [][LocksNext]_locksVars
-----------------------------------------------------------------------------
(***************************************************************************)
(* A validation that succeeds has found every object as it was copied: its *)
(* word was unlocked and no newer at some time since the validation began, *)
(* although a line was fetched for another word, before this one changed.  *)
(***************************************************************************)
ValidationCurrent == valid => bad = {}
=============================================================================
