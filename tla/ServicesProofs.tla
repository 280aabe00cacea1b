--------------------------- MODULE ServicesProofs ---------------------------
(***************************************************************************)
(* The services of a node: the local clock, for any threads, versions and  *)
(* calls; the cache of lock words, for any words, line size and versions;  *)
(* the barriers of the application's threads, for any nodes and workers.   *)
(* The three share no state.                                               *)
(***************************************************************************)
EXTENDS LocalClock, LocksCache, DSTMBarrier, FiniteSetTheorems,
        NaturalsInduction, TLAPS

-----------------------------------------------------------------------------
(* LocalClock. *)

\* The invariant holds of a clock nobody has used.
LEMMA ClockInit == Init => ClockInv
  BY MaxCallsAssumption
     DEF Init, ClockInv, TypeOK, UniqueClocks, NewerThanSeen, ClockIsNewest,
         CallsInProgress

\* Every step of the two loops keeps the invariant.
LEMMA ClockStep == ClockInv /\ [Next]_vars => ClockInv'
<1> SUFFICES ASSUME ClockInv, [Next]_vars
             PROVE  ClockInv'
  OBVIOUS
<1> USE DEF ClockInv, TypeOK
<1>1. CASE Finished \/ UNCHANGED vars
  BY <1>1 DEF Finished, vars, UniqueClocks, NewerThanSeen, ClockIsNewest,
              CallsInProgress
<1>2. ASSUME NEW c \in Caller, NEW v \in Version, increaseClock(c, v)
      PROVE  ClockInv'
  <2>1. TypeOK'
    BY <1>2, VersionAssumption DEF increaseClock, Goto
  <2>2. CallsInProgress'
    BY <1>2, MaxCallsAssumption DEF increaseClock, Goto, CallsInProgress
  <2> QED
    BY <1>2, <2>1, <2>2
       DEF increaseClock, UniqueClocks, NewerThanSeen, ClockIsNewest
<1>3. ASSUME NEW c \in Caller, getNextClock(c)
      PROVE  ClockInv'
  <2>1. TypeOK'
    BY <1>3 DEF getNextClock, Goto
  <2>2. CallsInProgress'
    BY <1>3, MaxCallsAssumption DEF getNextClock, Goto, CallsInProgress
  <2> QED
    BY <1>3, <2>1, <2>2
       DEF getNextClock, UniqueClocks, NewerThanSeen, ClockIsNewest
<1>4. ASSUME NEW c \in Caller, increaseRead(c)
      PROVE  ClockInv'
  <2>1. TypeOK'
    BY <1>4 DEF increaseRead, Ahead, getCurrentClock, increaseReturns, Goto
  <2>2. CallsInProgress'
    BY <1>4 DEF increaseRead, Ahead, getCurrentClock, increaseReturns, Goto,
                CallsInProgress
  <2>3. ClockIsNewest'
    BY <1>4 DEF increaseRead, Ahead, increaseReturns, ClockIsNewest
  <2> QED
    BY <1>4, <2>1, <2>2, <2>3 DEF increaseRead, UniqueClocks, NewerThanSeen
<1>5. ASSUME NEW c \in Caller, increaseSwap(c)
      PROVE  ClockInv'
  <2>1. TypeOK'
    BY <1>5 DEF increaseSwap, compare_and_swap, increaseReturns, Goto
  <2>2. CallsInProgress'
    BY <1>5 DEF increaseSwap, increaseReturns, Goto, CallsInProgress
  <2>3. LOCAL_CLOCK' >= LOCAL_CLOCK
    BY <1>5 DEF increaseSwap, compare_and_swap, CallsInProgress
  <2>4. ClockIsNewest'
    BY <1>5, <2>1, <2>3
       DEF increaseSwap, compare_and_swap, increaseReturns, ClockIsNewest
  <2> QED
    BY <1>5, <2>1, <2>2, <2>4 DEF increaseSwap, UniqueClocks, NewerThanSeen
<1>6. ASSUME NEW c \in Caller, nextRead(c)
      PROVE  ClockInv'
  BY <1>6 DEF nextRead, getCurrentClock, Goto, CallsInProgress, UniqueClocks,
              NewerThanSeen, ClockIsNewest
<1>7. ASSUME NEW c \in Caller, nextSwap(c)
      PROVE  ClockInv'
  <2> DEFINE d == [by |-> c, call |-> calls[c], value |-> cur_clock[c] + 1,
                   seen |-> seen[c]]
  <2>1. CASE LOCAL_CLOCK # cur_clock[c]
    BY <1>7, <2>1 DEF nextSwap, nextFailed, compare_and_swap, Goto, CallsInProgress,
                      UniqueClocks, NewerThanSeen, ClockIsNewest
  <2>2. CASE LOCAL_CLOCK = cur_clock[c]
    <3>1. /\ LOCAL_CLOCK' = LOCAL_CLOCK + 1 /\ drawn' = drawn \cup {d}
          /\ d.value = LOCAL_CLOCK + 1 /\ d.seen = seen[c]
          /\ pc' = [pc EXCEPT ![c] = "idle"]
          /\ UNCHANGED <<new_clock, cur_clock, calls, seen>>
      BY <1>7, <2>2 DEF nextSwap, compare_and_swap, Goto
    <3>2. d \in [by : Caller, call : Nat, value : Nat, seen : Nat]
      OBVIOUS
    <3> HIDE DEF d
    <3>3. TypeOK'
      BY <3>1, <3>2
    <3>4. CallsInProgress'
      BY <3>1 DEF CallsInProgress
    <3>5. ClockIsNewest'
      BY <3>1 DEF ClockIsNewest
    <3>6. UniqueClocks'
      BY <3>1 DEF UniqueClocks, ClockIsNewest
    <3>7. NewerThanSeen'
      BY <3>1 DEF NewerThanSeen, ClockIsNewest
    <3> QED
      BY <3>3, <3>4, <3>5, <3>6, <3>7
  <2> QED
    BY <2>1, <2>2
<1> QED
  BY <1>1, <1>2, <1>3, <1>4, <1>5, <1>6, <1>7 DEF Next, Step

\* The clock is ahead of all that was drawn and seen, at every step of every
\* thread of the node.
THEOREM ClockInvariant == Spec => []ClockInv
  BY ClockInit, ClockStep, PTL DEF Spec

\* No two commits of a node draw the same clock value from getNextClock.
THEOREM ClocksUnique == Spec => []UniqueClocks
<1>1. ClockInv => UniqueClocks
  BY DEF ClockInv
<1> QED
  BY <1>1, ClockInvariant, PTL

\* A commit draws a value newer than every version its thread has read.
THEOREM ClocksNewer == Spec => []NewerThanSeen
<1>1. ClockInv => NewerThanSeen
  BY DEF ClockInv
<1> QED
  BY <1>1, ClockInvariant, PTL

\* The compare-and-swap loops implement the atomic clock: the successful
\* swap, or the read that finds the clock ahead, is the abstract step.
THEOREM ClockRefinement == Spec => RefinesAtomicClock
<1>1. Init => Atomic!Init
  BY DEF Init, Atomic!Init
<1>2. ClockInv /\ [Next]_vars => [Atomic!Next]_(Atomic!vars)
  <2> SUFFICES ASSUME ClockInv, [Next]_vars
               PROVE  \/ Atomic!Next
                      \/ UNCHANGED <<LOCAL_CLOCK, seen, drawn>>
    BY DEF Atomic!vars
  <2>1. CASE Finished \/ UNCHANGED vars
    BY <2>1 DEF Finished, vars
  <2>2. ASSUME NEW c \in Caller,
               \/ getNextClock(c) \/ nextRead(c)
               \/ \E v \in Version : increaseClock(c, v)
        PROVE  UNCHANGED <<LOCAL_CLOCK, seen, drawn>>
    BY <2>2 DEF getNextClock, nextRead, increaseClock
  <2>3. ASSUME NEW c \in Caller, increaseRead(c)
        PROVE  \/ Atomic!Raise(c, new_clock[c]) /\ new_clock[c] \in Version
               \/ UNCHANGED <<LOCAL_CLOCK, seen, drawn>>
    BY <2>3 DEF increaseRead, Ahead, increaseReturns, Atomic!Raise, Atomic!Max2,
                ClockInv, TypeOK, CallsInProgress
  <2>4. ASSUME NEW c \in Caller, increaseSwap(c)
        PROVE  \/ Atomic!Raise(c, new_clock[c]) /\ new_clock[c] \in Version
               \/ UNCHANGED <<LOCAL_CLOCK, seen, drawn>>
    BY <2>4 DEF increaseSwap, compare_and_swap, increaseReturns, Atomic!Raise,
                Atomic!Max2, ClockInv, TypeOK, CallsInProgress
  <2>5. ASSUME NEW c \in Caller, nextSwap(c)
        PROVE  \/ Atomic!Draw(c, calls[c]) /\ calls[c] \in 1..MaxCalls
               \/ UNCHANGED <<LOCAL_CLOCK, seen, drawn>>
    BY <2>5, MaxCallsAssumption
       DEF nextSwap, compare_and_swap, Atomic!Draw, ClockInv, TypeOK,
           CallsInProgress
  <2> QED
    BY <2>1, <2>2, <2>3, <2>4, <2>5 DEF Next, Step, Atomic!Next
<1> QED
  BY <1>1, <1>2, ClockInvariant, PTL DEF Spec, RefinesAtomicClock, Atomic!Spec

-----------------------------------------------------------------------------
(* Why validation through fetched lines of lock words is as good as a look *)
(* at the words, as long as the words of a transaction that are not on its *)
(* node are all on one.                                                    *)

(***************************************************************************)
(* The remote words have one home, as on two nodes.  With more, a line of  *)
(* node 0 is found for the words of other nodes at the same address.       *)
(***************************************************************************)
OneRemote == \A x, y \in Word : x[1] # Me /\ y[1] # Me => x[1] = y[1]

WordValue == [lock : BOOLEAN, version : Nat]

LocksTypeOK == /\ lock \in [Word -> BOOLEAN] /\ version \in [Word -> Nat]
          /\ ts \in [Word -> Nat]
          /\ toCheck \subseteq Word /\ bad \subseteq Word
          /\ running \in BOOLEAN /\ valid \in BOOLEAN

\* The words of the line under a key.
InLine(k) == {y \in Word : Key(y) = k}

\* A line has all words of its key, none of them on the transaction's node.
LinesWhole ==
    \A k \in DOMAIN i_map :
        /\ i_map[k] \in [InLine(k) -> WordValue]
        /\ \E y \in InLine(k) : y[1] # Me

\* Nothing that is in line with its copy now is counted as never having been.
BadInvalid == bad \subseteq Invalid

\* Nor is anything that was so when its line was fetched.
LinesSeen ==
    running => \A k \in DOMAIN i_map : \A y \in InLine(k) :
                   ~Refuses(i_map[k][y], y) => y \notin bad

\* What has passed the check was in line with its copy.
CheckedSeen == running => bad \subseteq toCheck

CacheInv == /\ LocksTypeOK /\ LinesWhole /\ BadInvalid /\ LinesSeen /\ CheckedSeen
            /\ ValidationCurrent

-----------------------------------------------------------------------------
\* The words are pairs of a node and a position.
LEMMA Pairs ==
    ASSUME NEW x \in Word, NEW y \in Word, x[1] = y[1], x[2] = y[2]
    PROVE  x = y
<1>1. x \in Nat \X Nat /\ y \in Nat \X Nat
  BY LineAssumption
<1>2. x = <<x[1], x[2]>> /\ y = <<y[1], y[2]>>
  BY <1>1
<1> QED
  BY <1>2

\* What get returns for a word is what is there now, or what the cache has of
\* this word; what it adds to the cache are the words of a line as they are.
LEMMA GetFinds ==
    ASSUME OneRemote, LocksTypeOK, LinesWhole,
           NEW x \in Word, NEW w, NEW m, get(x, w, m)
    PROVE  /\ \/ w = Line(x)[x]
              \/ \E k \in DOMAIN i_map : x \in InLine(k) /\ w = i_map[k][x]
           /\ \A k \in DOMAIN m : \/ k \in DOMAIN i_map /\ m[k] = i_map[k]
                                  \/ k = Key(x) /\ x[1] # Me /\ m[k] = Line(x)
<1>1. CASE m = i_map /\ w = Line(x)[x]
  BY <1>1
<1>2. CASE x[1] # Me /\ Found(x) /\ w = At(i_map[Bare(x)], x) /\ m = i_map
  <2> DEFINE k == Bare(x)
             line == i_map[k]
  <2>1. k \in DOMAIN i_map
    BY <1>2 DEF Found
  <2>2. DOMAIN line = InLine(k)
    BY <2>1 DEF LinesWhole
  <2>3. PICK z \in InLine(k) : z[1] # Me
    BY <2>1 DEF LinesWhole
  <2>4. k[1] = 0 /\ k[2] = low_bound(x)
    BY DEF Bare
  <2>5. \A y \in InLine(k) : y \in Word /\ y[1] = 0 /\ low_bound(y) = low_bound(x)
    BY <2>4 DEF InLine, Key
  <2>6. x[1] = 0
    BY <1>2, <2>3, <2>5 DEF OneRemote
  <2>7. x \in InLine(k)
    BY <2>6 DEF InLine, Key, Bare
  <2>8. \A y \in InLine(k) : y[2] = x[2] => y = x
    BY <2>5, <2>6, Pairs
  <2>9. At(line, x) = line[x]
    BY <2>2, <2>7, <2>8 DEF At
  <2> QED
    BY <1>2, <2>1, <2>7, <2>9
<1>3. CASE /\ x[1] # Me /\ ~Found(x) /\ w = Line(x)[x]
           /\ m = [k \in DOMAIN i_map \cup {Key(x)} |->
                     IF k = Key(x) THEN Line(x) ELSE i_map[k]]
  BY <1>3
<1> QED
  BY <1>1, <1>2, <1>3 DEF get

\* A line that is fetched has the words as they are.
LEMMA LineFetched ==
    ASSUME LocksTypeOK, NEW x \in Word
    PROVE  /\ Line(x) \in [InLine(Key(x)) -> WordValue]
           /\ x \in InLine(Key(x))
           /\ \A y \in InLine(Key(x)) :
                 Line(x)[y] = [lock |-> lock[y], version |-> version[y]]
  BY DEF Line, InLine, WordValue, LocksTypeOK

\* Whether a word refuses the copy now.
LEMMA InvalidNow ==
    ASSUME LocksTypeOK, NEW x \in Word
    PROVE  x \in Invalid <=> lock[x] \/ version[x] > ts[x]
<1>1. Line(x)[x] = [lock |-> lock[x], version |-> version[x]]
  BY LineFetched
<1> QED
  BY <1>1 DEF Invalid, Refuses

\* Steps of other transactions.
LEMMA OthersStep ==
    ASSUME CacheInv, LocksTypeOK', Others
    PROVE  CacheInv'
<1>1. /\ ts' = ts /\ i_map' = i_map /\ toCheck' = toCheck
      /\ running' = running /\ valid' = valid /\ bad' \subseteq bad
  BY DEF Others
<1>2. LinesWhole'
  BY <1>1 DEF CacheInv, LinesWhole
<1>3. BadInvalid'
  <2>1. \A x \in bad' : x \in Word /\ (lock'[x] \/ version'[x] > ts'[x])
    BY <1>1 DEF Others, CacheInv, LocksTypeOK
  <2>2. \A x \in Word : x \in Invalid' <=> lock'[x] \/ version'[x] > ts'[x]
    BY DEF Invalid, Refuses, Line, Key
  <2> QED
    BY <2>1, <2>2 DEF BadInvalid
<1>4. LinesSeen'
  BY <1>1 DEF CacheInv, LinesSeen, Refuses
<1>5. CheckedSeen' /\ ValidationCurrent'
  BY <1>1 DEF CacheInv, CheckedSeen, ValidationCurrent
<1> QED
  BY <1>2, <1>3, <1>4, <1>5 DEF CacheInv

\* The transaction looks at a word.
LEMMA CheckStep ==
    ASSUME OneRemote, CacheInv, LocksTypeOK', NEW x \in Word, check(x)
    PROVE  CacheInv'
<1>0. LocksTypeOK /\ LinesWhole
  BY DEF CacheInv
<1>1. /\ lock' = lock /\ version' = version /\ ts' = ts /\ valid' = valid
      /\ bad' = bad /\ running
  BY DEF check, wordVars
<1>2. PICK w \in [lock : BOOLEAN, version : 0..MaxVersion] :
          /\ get(x, w, i_map')
          /\ IF Refuses(w, x) THEN running' = FALSE /\ toCheck' = {}
             ELSE running' = running /\ toCheck' = toCheck \ {x}
  BY DEF check
<1>3. \A k \in DOMAIN i_map' :
         \/ k \in DOMAIN i_map /\ i_map'[k] = i_map[k]
         \/ k = Key(x) /\ x[1] # Me /\ i_map'[k] = Line(x)
  BY <1>0, <1>2, GetFinds
<1>4. \/ w = Line(x)[x]
      \/ \E k \in DOMAIN i_map : x \in InLine(k) /\ w = i_map[k][x]
  BY <1>0, <1>2, GetFinds
<1>5. LinesWhole'
  BY <1>0, <1>3, LineFetched DEF LinesWhole
<1>6. Invalid' = Invalid
  BY <1>1 DEF Invalid, Refuses, Line
<1>7. BadInvalid'
  BY <1>1, <1>6 DEF CacheInv, BadInvalid
<1>8. \A y \in InLine(Key(x)) : ~Refuses(Line(x)[y], y) => y \notin bad
  <2> SUFFICES ASSUME NEW y \in InLine(Key(x)), ~Refuses(Line(x)[y], y)
               PROVE  y \notin bad
    OBVIOUS
  <2>1. Line(x)[y] = [lock |-> lock[y], version |-> version[y]]
    BY <1>0, LineFetched
  <2>2. y \in Word /\ ~(lock[y] \/ version[y] > ts[y])
    BY <2>1 DEF Refuses, InLine
  <2> QED
    BY <1>0, <2>2, InvalidNow DEF CacheInv, BadInvalid
<1>9. LinesSeen'
  <2> SUFFICES ASSUME NEW k \in DOMAIN i_map', NEW y \in InLine(k),
                      ~Refuses(i_map'[k][y], y)
               PROVE  y \notin bad
    BY <1>1 DEF LinesSeen, Refuses
  <2>1. CASE k \in DOMAIN i_map /\ i_map'[k] = i_map[k]
    BY <1>1, <2>1 DEF CacheInv, LinesSeen
  <2>2. CASE k = Key(x) /\ i_map'[k] = Line(x)
    BY <1>8, <2>2
  <2> QED
    BY <1>3, <2>1, <2>2
<1>10. ~Refuses(w, x) => x \notin bad
  BY <1>0, <1>1, <1>4, <1>8, LineFetched DEF CacheInv, LinesSeen
<1>11. CheckedSeen' /\ ValidationCurrent'
  BY <1>1, <1>2, <1>10 DEF CacheInv, CheckedSeen, ValidationCurrent
<1> QED
  BY <1>5, <1>7, <1>9, <1>11 DEF CacheInv

\* A validation starts with an empty cache.
LEMMA StartStep ==
    ASSUME CacheInv, LocksTypeOK', NEW S \in SUBSET Word, startValidation(S)
    PROVE  CacheInv'
<1>1. /\ lock' = lock /\ version' = version /\ ts' = ts /\ valid' = FALSE
      /\ bad' = Invalid \cap S /\ toCheck' = S /\ i_map' = <<>>
  BY DEF startValidation, wordVars, NewCache
<1>2. DOMAIN i_map' = {}
  BY <1>1
<1>3. Invalid' = Invalid
  BY <1>1 DEF Invalid, Refuses, Line
<1> QED
  BY <1>1, <1>2, <1>3
     DEF CacheInv, LinesWhole, BadInvalid, LinesSeen, CheckedSeen, ValidationCurrent

\* The types are kept.
LEMMA LocksTypeStep == LocksTypeOK /\ [LocksNext]_locksVars => LocksTypeOK'
<1> SUFFICES ASSUME LocksTypeOK, [LocksNext]_locksVars
             PROVE  LocksTypeOK'
  OBVIOUS
<1> USE DEF LocksTypeOK
<1>1. ASSUME NEW x \in Word, lockWord(x)
      PROVE  LocksTypeOK'
  BY <1>1 DEF lockWord, Others
<1>2. ASSUME NEW x \in Word, releaseWord(x)
      PROVE  LocksTypeOK'
  BY <1>2 DEF releaseWord, Others
<1>3. ASSUME NEW x \in Word, readWord(x)
      PROVE  LocksTypeOK'
  BY <1>3 DEF readWord, wordVars
<1>4. ASSUME NEW x \in Word, check(x)
      PROVE  LocksTypeOK'
  BY <1>4 DEF check, wordVars
<1>5. CASE allChecked
  BY <1>5 DEF allChecked, wordVars
<1>6. ASSUME NEW S \in SUBSET Word, startValidation(S)
      PROVE  LocksTypeOK'
  BY <1>6 DEF startValidation, wordVars
<1>7. CASE UNCHANGED locksVars
  BY <1>7 DEF locksVars, wordVars, validationVars
<1> QED
  BY <1>1, <1>2, <1>3, <1>4, <1>5, <1>6, <1>7 DEF LocksNext

\* The invariant is inductive.
LEMMA CacheStep ==
    ASSUME OneRemote, CacheInv, [LocksNext]_locksVars
    PROVE  CacheInv'
<1>0. LocksTypeOK'
  BY LocksTypeStep DEF CacheInv
<1>1. ASSUME NEW x \in Word, lockWord(x) \/ releaseWord(x)
      PROVE  CacheInv'
  BY <1>0, <1>1, OthersStep DEF lockWord, releaseWord
<1>2. ASSUME NEW x \in Word, readWord(x)
      PROVE  CacheInv'
  BY <1>0, <1>2
     DEF readWord, CacheInv, LinesWhole, BadInvalid, LinesSeen, CheckedSeen,
         ValidationCurrent
<1>3. ASSUME NEW x \in Word, check(x)
      PROVE  CacheInv'
  BY <1>0, <1>3, CheckStep
<1>4. CASE allChecked
  <2>1. /\ lock' = lock /\ version' = version /\ ts' = ts /\ i_map' = i_map
        /\ bad' = bad /\ ~running' /\ bad = {}
    BY <1>4 DEF allChecked, wordVars, CacheInv, CheckedSeen
  <2> QED
    BY <1>0, <2>1
       DEF CacheInv, LinesWhole, BadInvalid, LinesSeen, CheckedSeen, ValidationCurrent
<1>5. ASSUME NEW S \in SUBSET Word, startValidation(S)
      PROVE  CacheInv'
  BY <1>0, <1>5, StartStep
<1>6. CASE UNCHANGED locksVars
  <2>1. Invalid' = Invalid
    BY <1>6 DEF locksVars, wordVars, Invalid, Refuses, Line
  <2> QED
    BY <1>0, <1>6, <2>1
       DEF locksVars, wordVars, validationVars, CacheInv, LinesWhole, BadInvalid,
           LinesSeen, CheckedSeen, ValidationCurrent, Refuses
<1> QED
  BY <1>1, <1>2, <1>3, <1>4, <1>5, <1>6 DEF LocksNext

-----------------------------------------------------------------------------
(***************************************************************************)
(* A line in the cache has its words as they were at some time of the      *)
(* validation: DSTMLocksCache lives no longer.                             *)
(***************************************************************************)
THEOREM LinesInvariant ==
    ASSUME OneRemote
    PROVE  LocksSpec => []CacheInv
<1>1. LocksInit => CacheInv
  <2> SUFFICES ASSUME LocksInit
               PROVE  CacheInv
    OBVIOUS
  <2>1. DOMAIN i_map = {}
    BY DEF LocksInit
  <2> QED
    BY <2>1 DEF LocksInit, CacheInv, LocksTypeOK, LinesWhole, BadInvalid, LinesSeen,
                CheckedSeen, ValidationCurrent
<1>2. CacheInv /\ [LocksNext]_locksVars => CacheInv'
  BY CacheStep
<1> QED
  BY <1>1, <1>2, PTL DEF LocksSpec

(***************************************************************************)
(* A validation that succeeds through the cache (the calls of              *)
(* DSTMLocksCache in validate and validateAll) has found every object as   *)
(* it was copied at some time since it began.                              *)
(***************************************************************************)
THEOREM ValidationsCurrent ==
    ASSUME OneRemote
    PROVE  LocksSpec => []ValidationCurrent
<1>1. CacheInv => ValidationCurrent
  BY DEF CacheInv
<1> QED
  BY <1>1, LinesInvariant, PTL

-----------------------------------------------------------------------------
(* The two barriers. *)

\* Induction over a set of numbers, so that it needs no operator as a parameter.
LEMMA NatSetInduction ==
    ASSUME NEW S, 0 \in S, \A k \in Nat : k \in S => k + 1 \in S
    PROVE  Nat \subseteq S
<1>1. SUFFICES ASSUME Nat \ S # {} PROVE FALSE
  OBVIOUS
<1>2. PICK m \in Nat \ S : \A k \in Nat \ S : ~(k < m)
  <2>1. PICK m \in Nat \ S : \A k \in Nat \ S : ~(<<k, m>> \in OpToRel(<, Nat))
    BY <1>1, WFMin, NatLessThanWellFounded, Nat \ S \subseteq Nat, Zenon
  <2> QED
    BY <2>1, Zenon DEF OpToRel
<1>3. m \in Nat /\ m # 0 /\ m - 1 \in Nat /\ m - 1 < m /\ (m - 1) + 1 = m
  <2>1. m \in Nat /\ m # 0
    BY <1>2
  <2> QED
    BY <2>1
<1>4. m - 1 \in S
  BY <1>2, <1>3
<1> QED
  BY <1>2, <1>3, <1>4

\* Quotient and remainder are what they should be,
LEMMA DivisionUnique ==
    ASSUME NEW N \in Nat \ {0}, NEW q \in Nat, NEW r \in 0..N - 1
    PROVE  (N * q + r) \div N = q /\ (N * q + r) % N = r
  OBVIOUS

\* and give the number back;
LEMMA Division ==
    ASSUME NEW k \in Nat, NEW N \in Nat \ {0}
    PROVE  /\ k \div N \in Nat /\ k % N \in 0..N - 1
           /\ k = N * (k \div N) + (k % N)
  OBVIOUS

\* the next number has the next remainder, or 0 and the next quotient.
LEMMA DivisionNext ==
    ASSUME NEW k \in Nat, NEW N \in Nat \ {0}
    PROVE  IF k % N = N - 1
           THEN (k + 1) \div N = (k \div N) + 1 /\ (k + 1) % N = 0
           ELSE (k + 1) \div N = k \div N /\ (k + 1) % N = (k % N) + 1
<1> DEFINE q == k \div N
           r == k % N
<1>1. q \in Nat /\ r \in 0..N - 1 /\ k = N * q + r
  BY Division
<1> HIDE DEF q, r
<1>2. CASE r = N - 1
  <2>1. k + 1 = N * (q + 1) + 0
    BY <1>1, <1>2
  <2>2. (k + 1) \div N = q + 1 /\ (k + 1) % N = 0
    BY <1>1, <2>1, DivisionUnique, q + 1 \in Nat, 0 \in 0..N - 1
  <2> QED
    BY <1>2, <2>2 DEF q, r
<1>3. CASE r # N - 1
  <2>1. k + 1 = N * q + (r + 1) /\ r + 1 \in 0..N - 1
    BY <1>1, <1>3
  <2>2. (k + 1) \div N = q /\ (k + 1) % N = r + 1
    BY <1>1, <2>1, DivisionUnique
  <2> QED
    BY <1>3, <2>2 DEF q, r
<1> QED
  BY <1>2, <1>3

\* getVictim goes round the nodes.
LEMMA VictimNext ==
    ASSUME NEW j \in Nat
    PROVE  getVictim(j % nodesNum) = (j + 1) % nodesNum
<1> DEFINE r == j % nodesNum
           s == (j + 1) % nodesNum
<1>1. IF r = nodesNum - 1 THEN s = 0 ELSE s = r + 1
  BY DivisionNext, NodesAssumption
<1>2. r \in 0..nodesNum - 1
  BY Division, NodesAssumption
<1> HIDE DEF r, s
<1>3. getVictim(r) = s
  BY <1>1, <1>2, NodesAssumption DEF getVictim
<1> QED
  BY <1>3 DEF r, s

\* The recursive function is defined for every worker:
LEMMA PlacedDef ==
    placed = [i \in Nat |-> getVictim(IF i <= 1 THEN NoNode ELSE placed[i - 1])]
<1> DEFINE g == [i \in Nat |-> IF i = 0 THEN 0 ELSE (i - 1) % nodesNum]
           h == [i \in Nat |-> getVictim(IF i <= 1 THEN NoNode ELSE g[i - 1])]
<1>1. ASSUME NEW i \in Nat
      PROVE  g[i] = h[i]
  <2>1. CASE i <= 1
    BY <2>1, NodesAssumption, DivisionUnique, 0 = nodesNum * 0 + 0, 0 \in 0..nodesNum - 1
       DEF getVictim, NoNode
  <2>2. CASE i > 1
    <3>1. i - 2 \in Nat /\ (i - 2) + 1 = i - 1 /\ i - 1 \in Nat /\ i - 1 # 0
      BY <2>2
    <3>2. g[i - 1] = (i - 2) % nodesNum /\ g[i] = (i - 1) % nodesNum
      BY <2>2, <3>1
    <3>3. h[i] = getVictim((i - 2) % nodesNum)
      BY <2>2, <3>2
    <3>4. getVictim((i - 2) % nodesNum) = (i - 1) % nodesNum
      BY <3>1, VictimNext
    <3> QED
      BY <3>2, <3>3, <3>4
  <2> QED
    BY <2>1, <2>2
<1>2. g = h
  BY <1>1
<1>3. \E f : f = [i \in Nat |-> getVictim(IF i <= 1 THEN NoNode ELSE f[i - 1])]
  BY <1>2, Zenon
<1> QED
  BY <1>3, Zenon DEF placed

\* worker i + 1 runs on node i modulo the number of nodes.
LEMMA PlacedRoundRobin ==
    ASSUME NEW i \in Nat
    PROVE  placed[i + 1] = i % nodesNum
<1> DEFINE S == {j \in Nat : placed[j + 1] = j % nodesNum}
<1>1. 0 \in S
  BY PlacedDef, NodesAssumption, DivisionUnique, 0 = nodesNum * 0 + 0, 0 \in 0..nodesNum - 1
     DEF getVictim, NoNode
<1>2. ASSUME NEW j \in Nat, j \in S
      PROVE  j + 1 \in S
  <2>1. placed[j + 2] = getVictim(placed[j + 1])
    <3>1. j + 2 \in Nat /\ ~(j + 2 <= 1) /\ (j + 2) - 1 = j + 1
      OBVIOUS
    <3> QED
      BY <3>1, PlacedDef, Zenon
  <2>2. getVictim(j % nodesNum) = (j + 1) % nodesNum
    BY VictimNext
  <2>3. placed[(j + 1) + 1] = (j + 1) % nodesNum
    BY <1>2, <2>1, <2>2
  <2> QED
    BY <2>3
<1>3. Nat \subseteq S
  <2> HIDE DEF S
  <2> QED
    BY <1>1, <1>2, NatSetInduction
<1> QED
  BY <1>3

\* The first k workers on node n, and how many there should be.
Placed(k, n) == {i \in 1..k : placed[i] = n}

Share(k, n) == (k \div nodesNum) + (IF n + 1 <= k % nodesNum THEN 1 ELSE 0)

\* The share of a node grows when the load balancer comes to it.
LEMMA ShareNext ==
    ASSUME NEW k \in Nat, NEW n \in Node
    PROVE  /\ Share(k, n) \in Nat
           /\ Share(k + 1, n) = Share(k, n) + (IF n = k % nodesNum THEN 1 ELSE 0)
<1> DEFINE q == k \div nodesNum
           r == k % nodesNum
           p == (k + 1) \div nodesNum
           s == (k + 1) % nodesNum
<1>1. q \in Nat /\ r \in 0..nodesNum - 1
  BY Division, NodesAssumption
<1>2. IF r = nodesNum - 1 THEN p = q + 1 /\ s = 0 ELSE p = q /\ s = r + 1
  BY DivisionNext, NodesAssumption
<1> HIDE DEF q, r, p, s
<1>3. n \in 0..nodesNum - 1 /\ nodesNum \in Nat \ {0}
  BY NodesAssumption DEF Node
<1>4. q + (IF n + 1 <= r THEN 1 ELSE 0) \in Nat
  BY <1>1, <1>3
<1>5. p + (IF n + 1 <= s THEN 1 ELSE 0)
        = (q + (IF n + 1 <= r THEN 1 ELSE 0)) + (IF n = r THEN 1 ELSE 0)
  BY <1>1, <1>2, <1>3
<1> QED
  BY <1>4, <1>5 DEF Share, q, r, p, s

\* It is the number of workers the load balancer has placed there.
LEMMA PlacedCount ==
    ASSUME NEW k \in Nat, NEW n \in Node
    PROVE  IsFiniteSet(Placed(k, n)) /\ Cardinality(Placed(k, n)) = Share(k, n)
<1> DEFINE S == {j \in Nat : /\ IsFiniteSet(Placed(j, n))
                            /\ Cardinality(Placed(j, n)) = Share(j, n)}
<1>1. 0 \in S
  <2>1. Placed(0, n) = {}
    BY DEF Placed
  <2>2. 0 \div nodesNum = 0 /\ 0 % nodesNum = 0
    BY NodesAssumption, DivisionUnique, 0 = nodesNum * 0 + 0, 0 \in 0..nodesNum - 1
  <2>3. Share(0, n) = 0
    BY <2>2, NodesAssumption DEF Share, Node
  <2> QED
    BY <2>1, <2>3, FS_EmptySet
<1>2. ASSUME NEW j \in Nat, j \in S
      PROVE  j + 1 \in S
  <2>1. IsFiniteSet(Placed(j, n)) /\ Cardinality(Placed(j, n)) = Share(j, n)
    BY <1>2
  <2>2. Placed(j + 1, n) = IF n = j % nodesNum THEN Placed(j, n) \cup {j + 1}
                           ELSE Placed(j, n)
    <3>1. \A i \in Int : i \in 1..j + 1 <=> i \in 1..j \/ i = j + 1
      OBVIOUS
    <3>2. placed[j + 1] = j % nodesNum
      BY PlacedRoundRobin
    <3>3. \A i \in 1..j : i \in Int
      OBVIOUS
    <3> QED
      BY <3>1, <3>2, <3>3 DEF Placed
  <2>3. j + 1 \notin Placed(j, n)
    BY DEF Placed
  <2>4. /\ IsFiniteSet(Placed(j, n) \cup {j + 1})
        /\ Cardinality(Placed(j, n) \cup {j + 1}) = Cardinality(Placed(j, n)) + 1
    BY <2>1, <2>3, FS_AddElement
  <2>5. Share(j, n) \in Nat
        /\ Share(j + 1, n) = Share(j, n) + (IF n = j % nodesNum THEN 1 ELSE 0)
    BY ShareNext
  <2>6. IsFiniteSet(Placed(j + 1, n)) /\ Cardinality(Placed(j + 1, n)) = Share(j + 1, n)
    BY <2>1, <2>2, <2>4, <2>5
  <2> QED
    BY <2>6
<1>3. Nat \subseteq S
  <2> HIDE DEF S
  <2> QED
    BY <1>1, <1>2, NatSetInduction
<1> QED
  BY <1>3

\* The threads of a node, with the main thread on node 0.
Of(n) == {p \in Member : nodeOf(p) = n}

\* barrier_calculate_threads, which only divides, counts the threads that
\* the load balancer puts on the node one by one.
LEMMA ExpectedCounts ==
    ASSUME NEW n \in Node
    PROVE  /\ IsFiniteSet(Of(n)) /\ Cardinality(Of(n)) = Expected(n)
           /\ Expected(n) \in Nat
<1>1. Of(n) = IF n = 0 THEN Placed(tnum, n) \cup {0} ELSE Placed(tnum, n)
  <2>1. 0 \notin 1..tnum
    BY WorkersAssumption
  <2> QED
    BY <2>1 DEF Of, Placed, Member, Worker, Main, nodeOf
<1>2. IsFiniteSet(Placed(tnum, n)) /\ Cardinality(Placed(tnum, n)) = Share(tnum, n)
  BY PlacedCount, WorkersAssumption
<1>3. 0 \notin Placed(tnum, n)
  BY WorkersAssumption DEF Placed
<1>4. /\ IsFiniteSet(Placed(tnum, n) \cup {0})
      /\ Cardinality(Placed(tnum, n) \cup {0}) = Share(tnum, n) + 1
  BY <1>2, <1>3, FS_AddElement
<1>5. Share(tnum, n) = barrier_calculate_threads(n)
  <2> DEFINE q == tnum \div nodesNum
             r == tnum % nodesNum
  <2>1. q \in Nat /\ r \in 0..nodesNum - 1 /\ tnum = nodesNum * q + r
    BY Division, NodesAssumption, WorkersAssumption
  <2>2. tnum \in Nat /\ tnum >= nodesNum /\ nodesNum \in Nat \ {0} /\ n \in 0..nodesNum - 1
    BY NodesAssumption, WorkersAssumption DEF Node
  <2> HIDE DEF q, r
  <2>3. q > 0
    <3>1. q = 0 => nodesNum * q = 0
      BY <2>2
    <3> QED
      BY <2>1, <2>2, <3>1
  <2>4. (IF r > 0 /\ n + 1 <= r THEN q + 1 ELSE q) = q + (IF n + 1 <= r THEN 1 ELSE 0)
    BY <2>1, <2>2
  <2>5. barrier_calculate_threads(n) = IF r > 0 /\ n + 1 <= r THEN q + 1 ELSE q
    BY <2>3, Zenon DEF barrier_calculate_threads, q, r
  <2>6. Share(tnum, n) = q + (IF n + 1 <= r THEN 1 ELSE 0)
    BY DEF Share, q, r
  <2> QED
    BY <2>1, <2>4, <2>5, <2>6
<1>6. Share(tnum, n) \in Nat
  BY ShareNext, WorkersAssumption
<1> QED
  BY <1>1, <1>2, <1>4, <1>5, <1>6 DEF Expected

\* The types of the variables.
BarrierTypeOK ==
    /\ b_pc \in [Member -> {"out", "cond_wait", "gasnet_barrier", "woken"}]
    /\ crossed \in [Member -> 0..2]
    /\ b_mutex \in [Node -> Member \cup {Unlocked}]
    /\ count \in [Node -> Int] /\ crossing \in [Node -> Int]
    /\ notified \in [Node -> Nat]
    /\ stop \in BOOLEAN /\ overrun \in BOOLEAN

\* A thread in a barrier has not been through both.
Inside == \A p \in Member : b_pc[p] # "out" => crossed[p] < 2

\* The mutex of a node's barrier is with its thread in the GASNet barrier.
MutexKept ==
    /\ \A p \in Member : b_pc[p] = "gasnet_barrier" <=> b_mutex[nodeOf(p)] = p
    /\ \A n \in Node : b_mutex[n] # Unlocked => b_mutex[n] \in Of(n)

\* Between barriers; who has come to the first one, and to the second.
Resting(q, k) == b_pc[q] = "out" /\ crossed[q] = k

At1(n) == {q \in Of(n) : ~Resting(q, 0)}
At2(n) == {q \in Of(n) : ~Resting(q, 1)}

\* The first barrier of a node before the node has come to GASNet's,
Gathering(n) == notified[n] = 0 =>
    /\ count[n] = Expected(n) /\ crossing[n] = Cardinality(At1(n))
    /\ b_mutex[n] = Unlocked

\* and after that.
Gathered(n) == notified[n] >= 1 => \A q \in Of(n) : arrived(q) >= 1

\* Nobody is through the first barrier before every node has come.
Through == \A p \in Member : crossed[p] >= 1 \/ b_pc[p] = "woken" =>
              \A m \in Node : notified[m] >= 1

\* What holds up to the first barrier, even with an overrun.
FirstInv == /\ \A n \in Node : Gathering(n) /\ Gathered(n)
            /\ Through

\* The second barrier: the node's last thread still waits for the others,
Meeting(n) == notified[n] = 1 /\ b_mutex[n] # Unlocked =>
    /\ crossing[n] = Expected(n)
    /\ \A q \in Of(n) : crossed[q] = 0 /\ b_pc[q] \in {"cond_wait", "gasnet_barrier"}

\* the node has gone on, and counts again,
Stopping(n) == notified[n] = 1 /\ b_mutex[n] = Unlocked =>
    /\ count[n] = Expected(n) /\ crossing[n] = Cardinality(At2(n))
    /\ \A q \in Of(n) : crossed[q] = 0 <=> b_pc[q] = "woken"

\* and is at its end.
Stopped(n) == notified[n] >= 2 => notified[n] = 2 /\ \A q \in Of(n) : arrived(q) = 2

\* The main thread is through only when every node has come.
MainThrough ==
    crossed[Main] = 2 \/ (crossed[Main] = 1 /\ b_pc[Main] = "woken") =>
        \A m \in Node : notified[m] >= 2

\* What holds up to the second barrier unless a thread came to it before those
\* woken by the first had left: then the counter is wrong.
SecondInv == ~overrun => /\ \A n \in Node : Meeting(n) /\ Stopping(n) /\ Stopped(n)
                         /\ MainThrough

\* The inductive invariant of the two barriers.
BarrierInv == BarrierTypeOK /\ Inside /\ MutexKept /\ FirstInv /\ SecondInv

\* The threads are on nodes.
LEMMA Members ==
    /\ Main \in Member /\ nodeOf(Main) = 0 /\ Unlocked \notin Member
    /\ \A p \in Member : nodeOf(p) \in Node /\ p \in Of(nodeOf(p))
    /\ \A n \in Node : \A p \in Of(n) : p \in Member /\ nodeOf(p) = n
<1>1. Main \in Member /\ nodeOf(Main) = 0 /\ Unlocked \notin Member
  BY WorkersAssumption DEF Main, Member, Worker, nodeOf, Unlocked
<1>2. ASSUME NEW p \in Member
      PROVE  nodeOf(p) \in Node
  <2>1. CASE p = Main
    BY <2>1, <1>1, NodesAssumption DEF Node
  <2>2. CASE p # Main
    <3>1. p - 1 \in Nat /\ (p - 1) + 1 = p
      BY <2>2, WorkersAssumption DEF Member, Worker, Main
    <3>2. placed[p] = (p - 1) % nodesNum
      BY <3>1, PlacedRoundRobin
    <3>3. (p - 1) % nodesNum \in 0..nodesNum - 1
      BY <3>1, Division, NodesAssumption
    <3> QED
      BY <2>2, <3>2, <3>3 DEF nodeOf, Node
  <2> QED
    BY <2>1, <2>2
<1> QED
  BY <1>1, <1>2 DEF Of

\* Every step keeps the types.
LEMMA BarrierTypeStep ==
    ASSUME BarrierTypeOK, Inside, BarrierNext
    PROVE  BarrierTypeOK' /\ Inside'
<1> USE DEF BarrierTypeOK, Inside
<1>1. CASE setStop
  BY <1>1 DEF setStop
<1>2. CASE AllThrough
  BY <1>2 DEF AllThrough, barrierVars
<1>3. ASSUME NEW p \in Member, BarrierStep(p)
      PROVE  BarrierTypeOK' /\ Inside'
  <2> DEFINE n == nodeOf(p)
  <2>0. n \in Node
    BY Members
  <2> HIDE DEF n
  <2>1. CASE barrier_cross(p)
    <3>1. /\ b_pc[p] = "out" /\ crossed[p] < 2
          /\ crossing' = [crossing EXCEPT ![n] = @ + 1]
          /\ \/ /\ b_mutex' = [b_mutex EXCEPT ![n] = p]
                /\ notified' = [notified EXCEPT ![n] = @ + 1]
                /\ b_pc' = [b_pc EXCEPT ![p] = "gasnet_barrier"]
                /\ UNCHANGED crossed
             \/ /\ b_pc' = [b_pc EXCEPT ![p] = "cond_wait"]
                /\ UNCHANGED <<crossed, b_mutex, notified>>
             \/ /\ crossed' = [crossed EXCEPT ![p] = @ + 1]
                /\ UNCHANGED <<b_pc, b_mutex, notified>>
          /\ overrun' \in BOOLEAN
          /\ UNCHANGED <<count, stop>>
      BY <2>1 DEF barrier_cross, Pass, n
    <3>2. crossing' \in [Node -> Int] /\ count' \in [Node -> Int] /\ stop' \in BOOLEAN
          /\ overrun' \in BOOLEAN
      BY <2>0, <3>1
    <3>3. notified' \in [Node -> Nat] /\ b_mutex' \in [Node -> Member \cup {Unlocked}]
      BY <2>0, <3>1
    <3>4. b_pc' \in [Member -> {"out", "cond_wait", "gasnet_barrier", "woken"}]
          /\ crossed' \in [Member -> 0..2]
      BY <3>1
    <3>5. Inside'
      BY <3>1
    <3> QED
      BY <3>2, <3>3, <3>4, <3>5
  <2>2. CASE barrier_met(p)
    <3>1. /\ b_pc[p] = "gasnet_barrier"
          /\ count' = [count EXCEPT ![n] = crossing[n]]
          /\ crossing' = [crossing EXCEPT ![n] = Remaining(p, n)]
          /\ b_pc' = [q \in Member |->
                        IF q = p THEN "out"
                        ELSE IF nodeOf(q) = n /\ b_pc[q] = "cond_wait" THEN "woken"
                        ELSE b_pc[q]]
          /\ b_mutex' = [b_mutex EXCEPT ![n] = Unlocked]
          /\ crossed' = [crossed EXCEPT ![p] = @ + 1]
          /\ UNCHANGED <<notified, stop, overrun>>
      BY <2>2 DEF barrier_met, Pass, n
    <3>2. Remaining(p, n) \in Int
      BY <2>0 DEF Remaining
    <3>3. crossing' \in [Node -> Int] /\ count' \in [Node -> Int]
      BY <2>0, <3>1, <3>2
    <3>4. notified' \in [Node -> Nat] /\ b_mutex' \in [Node -> Member \cup {Unlocked}]
          /\ stop' \in BOOLEAN /\ overrun' \in BOOLEAN
      BY <2>0, <3>1
    <3>5. b_pc' \in [Member -> {"out", "cond_wait", "gasnet_barrier", "woken"}]
      BY <3>1
    <3>6. crossed' \in [Member -> 0..2]
      BY <3>1
    <3>7. Inside'
      BY <3>1
    <3> QED
      BY <3>3, <3>4, <3>5, <3>6, <3>7
  <2>3. CASE wake(p)
    <3>1. /\ b_pc[p] = "woken"
          /\ crossing' = [crossing EXCEPT ![n] = Leave(@)]
          /\ b_pc' = [b_pc EXCEPT ![p] = "out"]
          /\ crossed' = [crossed EXCEPT ![p] = @ + 1]
          /\ UNCHANGED <<b_mutex, count, notified, stop, overrun>>
      BY <2>3 DEF wake, Pass, n
    <3>2. crossing' \in [Node -> Int]
      BY <2>0, <3>1 DEF Leave
    <3>3. crossed' \in [Member -> 0..2] /\ Inside'
      BY <3>1
    <3> QED
      BY <3>1, <3>2, <3>3
  <2> QED
    BY <1>3, <2>1, <2>2, <2>3 DEF BarrierStep
<1> QED
  BY <1>1, <1>2, <1>3 DEF BarrierNext

\* A step of a thread is none of the other nodes' barriers,
LEMMA OtherNodesApart ==
    ASSUME BarrierTypeOK, NEW p \in Member, BarrierStep(p),
           NEW m \in Node, m # nodeOf(p)
    PROVE  /\ \A q \in Of(m) : b_pc'[q] = b_pc[q] /\ crossed'[q] = crossed[q]
           /\ count'[m] = count[m] /\ crossing'[m] = crossing[m]
           /\ notified'[m] = notified[m] /\ b_mutex'[m] = b_mutex[m]
<1>1. \A q \in Of(m) : q \in Member /\ q # p /\ nodeOf(q) # nodeOf(p)
  BY Members
<1>2. nodeOf(p) \in Node
  BY Members
<1>3. CASE barrier_cross(p)
  BY <1>1, <1>2, <1>3 DEF barrier_cross, BarrierTypeOK, Pass
<1>4. CASE barrier_met(p)
  BY <1>1, <1>2, <1>4 DEF barrier_met, BarrierTypeOK, Pass
<1>5. CASE wake(p)
  BY <1>1, <1>2, <1>5 DEF wake, BarrierTypeOK, Pass
<1> QED
  BY <1>3, <1>4, <1>5 DEF BarrierStep

\* so what holds there still does.
LEMMA NodeKept ==
    ASSUME NEW m \in Node,
           \A q \in Of(m) : b_pc'[q] = b_pc[q] /\ crossed'[q] = crossed[q],
           count'[m] = count[m] /\ crossing'[m] = crossing[m],
           notified'[m] = notified[m] /\ b_mutex'[m] = b_mutex[m]
    PROVE  /\ Gathering(m) => Gathering(m)'
           /\ Gathered(m) => Gathered(m)'
           /\ Meeting(m) => Meeting(m)'
           /\ Stopping(m) => Stopping(m)'
           /\ Stopped(m) => Stopped(m)'
<1>1. At1(m)' = At1(m) /\ At2(m)' = At2(m)
  BY DEF At1, At2, Resting
<1>2. \A q \in Of(m) : arrived(q)' = arrived(q)
  BY DEF arrived
<1>3. Expected(m)' = Expected(m)
  BY DEF Expected, barrier_calculate_threads
<1>4. (Gathering(m) => Gathering(m)') /\ (Gathered(m) => Gathered(m)')
  BY <1>1, <1>2, <1>3 DEF Gathering, Gathered
<1>5. (Meeting(m) => Meeting(m)') /\ (Stopping(m) => Stopping(m)')
  BY <1>1, <1>3 DEF Meeting, Stopping
<1>6. Stopped(m) => Stopped(m)'
  BY <1>2 DEF Stopped
<1> QED
  BY <1>4, <1>5, <1>6

\* Every step keeps the mutexes.
LEMMA MutexStep ==
    ASSUME BarrierTypeOK, MutexKept, NEW p \in Member, BarrierStep(p)
    PROVE  MutexKept'
<1> DEFINE n == nodeOf(p)
<1>0. n \in Node /\ p \in Of(n) /\ p # Unlocked
  BY Members
<1>1. ASSUME NEW m \in Node, b_mutex'[m] # Unlocked
      PROVE  b_mutex'[m] \in Of(m)
  <2>1. CASE m = n
    <3>1. CASE barrier_cross(p)
      BY <1>0, <1>1, <2>1, <3>1 DEF barrier_cross, BarrierTypeOK, MutexKept
    <3>2. CASE barrier_met(p)
      BY <1>0, <1>1, <2>1, <3>2 DEF barrier_met, BarrierTypeOK, MutexKept
    <3>3. CASE wake(p)
      BY <1>0, <1>1, <2>1, <3>3 DEF wake, BarrierTypeOK, MutexKept
    <3> QED
      BY <3>1, <3>2, <3>3 DEF BarrierStep
  <2>2. CASE m # n
    BY <1>1, <2>2, OtherNodesApart DEF MutexKept
  <2> QED
    BY <2>1, <2>2
<1>2. ASSUME NEW q \in Member
      PROVE  b_pc'[q] = "gasnet_barrier" <=> b_mutex'[nodeOf(q)] = q
  <2>0. nodeOf(q) \in Node /\ q \in Of(nodeOf(q)) /\ q # Unlocked
    BY Members
  <2>1. CASE nodeOf(q) = n
    <3>1. CASE barrier_cross(p)
      BY <1>0, <2>0, <2>1, <3>1 DEF barrier_cross, BarrierTypeOK, MutexKept
    <3>2. CASE barrier_met(p)
      BY <1>0, <2>0, <2>1, <3>2 DEF barrier_met, BarrierTypeOK, MutexKept
    <3>3. CASE wake(p)
      BY <1>0, <2>0, <2>1, <3>3 DEF wake, BarrierTypeOK, MutexKept
    <3> QED
      BY <3>1, <3>2, <3>3 DEF BarrierStep
  <2>2. CASE nodeOf(q) # n
    <3>1. b_pc'[q] = b_pc[q] /\ b_mutex'[nodeOf(q)] = b_mutex[nodeOf(q)]
      BY <2>0, <2>2, OtherNodesApart
    <3> QED
      BY <3>1 DEF MutexKept
  <2> QED
    BY <2>1, <2>2
<1>3. \A m \in Node : b_mutex'[m] # Unlocked => b_mutex'[m] \in Of(m)
  BY <1>1
<1>4. \A q \in Member : b_pc'[q] = "gasnet_barrier" <=> b_mutex'[nodeOf(q)] = q
  BY <1>2
<1> QED
  BY <1>3, <1>4 DEF MutexKept, Unlocked

\* Threads of a node that come and go, counted.
LEMMA Counting ==
    ASSUME NEW n \in Node, NEW A \in SUBSET Of(n)
    PROVE  /\ Cardinality(A) \in Nat
           /\ Cardinality(A) >= Expected(n) => A = Of(n)
           /\ \A x : x \notin A => Cardinality(A \cup {x}) = Cardinality(A) + 1
           /\ \A x \in A : Cardinality(A \ {x}) = Cardinality(A) - 1 /\ Cardinality(A) # 0
<1>1. IsFiniteSet(Of(n)) /\ Cardinality(Of(n)) = Expected(n) /\ Expected(n) \in Nat
  BY ExpectedCounts
<1>2. /\ IsFiniteSet(A) /\ Cardinality(A) <= Cardinality(Of(n))
      /\ Cardinality(Of(n)) = Cardinality(A) => Of(n) = A
  BY <1>1, FS_Subset
<1>3. Cardinality(A) \in Nat
  BY <1>2, FS_CardinalityType
<1>4. \A x : x \notin A => Cardinality(A \cup {x}) = Cardinality(A) + 1
  BY <1>2, FS_AddElement
<1>5. \A x \in A : Cardinality(A \ {x}) = Cardinality(A) - 1
  BY <1>2, FS_RemoveElement
<1>6. \A x \in A : Cardinality(A) # 0
  BY <1>2, FS_EmptySet
<1> QED
  BY <1>1, <1>2, <1>3, <1>4, <1>5, <1>6

\* Neither a thread nor a node takes an arrival back.
LEMMA NeverBack ==
    ASSUME BarrierTypeOK, NEW p \in Member, BarrierStep(p)
    PROVE  /\ \A q \in Member : arrived(q) \in Nat /\ arrived(q)' \in Nat
                               /\ arrived(q)' >= arrived(q)
           /\ \A m \in Node : notified[m] \in Nat /\ notified'[m] \in Nat
                             /\ notified'[m] >= notified[m]
<1>0. nodeOf(p) \in Node
  BY Members
<1>1. CASE barrier_cross(p)
  <2>1. ASSUME NEW q \in Member
        PROVE  arrived(q) \in Nat /\ arrived(q)' \in Nat /\ arrived(q)' >= arrived(q)
    BY <1>0, <1>1 DEF barrier_cross, BarrierTypeOK, Pass, arrived
  <2>2. ASSUME NEW m \in Node
        PROVE  notified[m] \in Nat /\ notified'[m] \in Nat /\ notified'[m] >= notified[m]
    BY <1>0, <1>1 DEF barrier_cross, BarrierTypeOK
  <2> QED
    BY <2>1, <2>2
<1>2. CASE barrier_met(p)
  <2>1. ASSUME NEW q \in Member
        PROVE  arrived(q) \in Nat /\ arrived(q)' \in Nat /\ arrived(q)' >= arrived(q)
    BY <1>0, <1>2 DEF barrier_met, BarrierTypeOK, Pass, arrived
  <2> QED
    BY <2>1, <1>2 DEF barrier_met, BarrierTypeOK
<1>3. CASE wake(p)
  <2>1. ASSUME NEW q \in Member
        PROVE  arrived(q) \in Nat /\ arrived(q)' \in Nat /\ arrived(q)' >= arrived(q)
    BY <1>0, <1>3 DEF wake, BarrierTypeOK, Pass, arrived
  <2> QED
    BY <2>1, <1>3 DEF wake, BarrierTypeOK
<1> QED
  BY <1>1, <1>2, <1>3 DEF BarrierStep

\* Every step keeps the first barrier's part.
LEMMA FirstStep ==
    ASSUME BarrierTypeOK, MutexKept, FirstInv, NEW p \in Member, BarrierStep(p)
    PROVE  FirstInv'
<1> DEFINE n == nodeOf(p)
<1>0. n \in Node /\ p \in Of(n) /\ p # Unlocked
  BY Members
<1>1. \A q \in Of(n) : q \in Member /\ nodeOf(q) = n
  BY <1>0, Members
<1>2. barrier_met(p) \/ wake(p) => notified[n] >= 1 /\ \A m \in Node : notified[m] >= 1
  <2>1. CASE barrier_met(p)
    <3>1. b_mutex[n] # Unlocked
      BY <1>0, <2>1 DEF barrier_met, MutexKept
    <3>2. notified[n] \in Nat /\ notified[n] # 0 /\ \A m \in Node : notified[m] >= notified[n]
      BY <1>0, <2>1, <3>1 DEF barrier_met, FirstInv, Gathering, BarrierTypeOK
    <3> QED
      BY <1>0, <3>2 DEF BarrierTypeOK
  <2>2. CASE wake(p)
    BY <1>0, <2>2 DEF wake, FirstInv, Through
  <2> QED
    BY <2>1, <2>2
<1>3. Through'
  <2>1. ASSUME NEW q \in Member, crossed'[q] >= 1 \/ b_pc'[q] = "woken"
        PROVE  \A m \in Node : notified[m] >= 1
    <3>1. CASE barrier_cross(p)
      <4>1. crossed[q] >= 1 \/ b_pc[q] = "woken"
        BY <2>1, <3>1 DEF barrier_cross, BarrierTypeOK, Pass, local_wait
      <4> QED
        BY <4>1 DEF FirstInv, Through
    <3>2. CASE barrier_met(p) \/ wake(p)
      BY <1>2, <3>2
    <3> QED
      BY <3>1, <3>2 DEF BarrierStep
  <2>2. ASSUME NEW m \in Node, notified[m] >= 1
        PROVE  notified'[m] >= 1
    BY <2>2, NeverBack
  <2> QED
    BY <2>1, <2>2 DEF Through
<1>4. ASSUME NEW m \in Node, m # n
      PROVE  Gathering(m)' /\ Gathered(m)'
  BY <1>4, OtherNodesApart, NodeKept DEF FirstInv
<1>5. CASE notified[n] >= 1
  <2>1. notified'[n] >= 1
    BY <1>0, <1>5, NeverBack
  <2>2. Gathering(n)'
    BY <1>0, <2>1 DEF Gathering
  <2>3. \A q \in Of(n) : arrived(q) >= 1
    BY <1>0, <1>5 DEF FirstInv, Gathered
  <2>4. Gathered(n)'
    BY <1>1, <2>3, NeverBack DEF Gathered
  <2> QED
    BY <1>3, <1>4, <2>2, <2>4 DEF FirstInv
<1>6. CASE ~(notified[n] >= 1)
  <2>1. /\ barrier_cross(p) /\ notified[n] = 0
        /\ count[n] = Expected(n) /\ crossing[n] = Cardinality(At1(n))
        /\ b_mutex[n] = Unlocked
    BY <1>0, <1>2, <1>6 DEF BarrierStep, BarrierTypeOK, FirstInv, Gathering
  <2>2. crossed[p] = 0 /\ b_pc[p] = "out"
    BY <1>0, <1>6, <2>1 DEF FirstInv, Through, BarrierTypeOK, barrier_cross
  <2>3. At1(n) \in SUBSET Of(n) /\ p \notin At1(n)
    BY <2>2 DEF At1, Resting
  <2>4. /\ Cardinality(At1(n)) \in Nat /\ Expected(n) \in Nat
        /\ Cardinality(At1(n) \cup {p}) = Cardinality(At1(n)) + 1
        /\ Cardinality(At1(n) \cup {p}) >= Expected(n) => At1(n) \cup {p} = Of(n)
    BY <1>0, <2>3, Counting, ExpectedCounts
  <2>5. CASE Last(n)
    <3>1. At1(n) \cup {p} = Of(n)
      BY <2>1, <2>4, <2>5 DEF Last
    <3>2. /\ notified'[n] = 1 /\ b_pc' = [b_pc EXCEPT ![p] = "gasnet_barrier"]
          /\ crossed' = crossed
      BY <1>0, <2>1, <2>5 DEF barrier_cross, BarrierTypeOK
    <3>3. ASSUME NEW q \in Of(n)
          PROVE  arrived(q)' >= 1
      BY <1>1, <3>1, <3>2 DEF arrived, At1, Resting, BarrierTypeOK
    <3>4. Gathered(n)' /\ Gathering(n)'
      BY <3>2, <3>3 DEF Gathered, Gathering
    <3> QED
      BY <1>3, <1>4, <3>4 DEF FirstInv
  <2>6. CASE ~Last(n)
    <3>1. /\ b_pc' = [b_pc EXCEPT ![p] = "cond_wait"]
          /\ UNCHANGED <<crossed, b_mutex, notified, count>>
          /\ crossing'[n] = crossing[n] + 1
      BY <1>0, <2>1, <2>2, <2>6 DEF barrier_cross, BarrierTypeOK, local_wait
    <3>2. At1(n)' = At1(n) \cup {p}
      BY <1>0, <1>1, <3>1 DEF At1, Resting, BarrierTypeOK
    <3>3. Expected(n)' = Expected(n)
      BY DEF Expected, barrier_calculate_threads
    <3>4. Gathering(n)' /\ Gathered(n)'
      BY <2>1, <2>4, <3>1, <3>2, <3>3 DEF Gathering, Gathered
    <3> QED
      BY <1>3, <1>4, <3>4 DEF FirstInv
  <2> QED
    BY <2>5, <2>6
<1> QED
  BY <1>5, <1>6

\* Every step keeps the second barrier's part.
LEMMA SecondStep ==
    ASSUME BarrierTypeOK, Inside, MutexKept, FirstInv, SecondInv,
           NEW p \in Member, BarrierStep(p)
    PROVE  SecondInv'
<1> SUFFICES ASSUME ~overrun'
             PROVE  /\ \A n \in Node : Meeting(n)' /\ Stopping(n)' /\ Stopped(n)'
                    /\ MainThrough'
  BY DEF SecondInv
<1> DEFINE n == nodeOf(p)
<1>0. n \in Node /\ p \in Of(n) /\ p # Unlocked
  BY Members
<1>1. \A q \in Of(n) : q \in Member /\ nodeOf(q) = n
  BY <1>0, Members
<1>2. ~overrun
  BY DEF BarrierStep, barrier_cross, barrier_met, wake
<1>3. /\ \A m \in Node : Meeting(m) /\ Stopping(m) /\ Stopped(m)
      /\ MainThrough
  BY <1>2 DEF SecondInv
<1>4. ASSUME NEW m \in Node, m # n
      PROVE  Meeting(m)' /\ Stopping(m)' /\ Stopped(m)'
  BY <1>3, <1>4, OtherNodesApart, NodeKept
<1>5. Expected(n)' = Expected(n)
  BY DEF Expected, barrier_calculate_threads
<1>6. Expected(n) \in Nat /\ Cardinality(Of(n)) = Expected(n)
  BY <1>0, ExpectedCounts
<1>7. notified[n] \in Nat /\ notified[n] <= 2 /\ notified'[n] \in Nat
  BY <1>0, <1>3, NeverBack DEF Stopped
<1>8. CASE barrier_cross(p)
  <2>1. b_pc[p] = "out" /\ crossed[p] < 2 /\ b_mutex[n] = Unlocked
    BY <1>8 DEF barrier_cross
  <2>2. \A q \in Of(n) : b_pc[q] # "woken"
    BY <1>1, <1>8 DEF barrier_cross
  <2>3. notified[n] # 2
    BY <1>0, <1>3, <2>1 DEF Stopped, arrived, BarrierTypeOK
  <2>4. MainThrough'
    <3>1. ASSUME crossed'[Main] = 2 \/ (crossed'[Main] = 1 /\ b_pc'[Main] = "woken")
          PROVE  crossed[Main] = 2 \/ (crossed[Main] = 1 /\ b_pc[Main] = "woken")
      BY <1>8, <3>1, Members DEF barrier_cross, BarrierTypeOK, Pass, local_wait
    <3>2. \A m \in Node : notified[m] >= 2 => notified'[m] >= 2
      BY NeverBack
    <3> QED
      BY <1>3, <3>1, <3>2 DEF MainThrough
  <2>5. CASE notified[n] = 0
    <3>1. crossed[p] = 0 /\ count[n] = Expected(n) /\ crossing[n] = Cardinality(At1(n))
      BY <1>0, <2>1, <2>5 DEF FirstInv, Gathering, Through, BarrierTypeOK
    <3>2. \A q \in Of(n) : crossed[q] = 0 /\ b_pc[q] # "gasnet_barrier"
      BY <1>0, <1>1, <2>1, <2>5, Members DEF FirstInv, Through, BarrierTypeOK, MutexKept
    <3>3. CASE Last(n)
      <4>1. /\ notified'[n] = 1 /\ b_pc' = [b_pc EXCEPT ![p] = "gasnet_barrier"]
            /\ crossed' = crossed /\ crossing'[n] = crossing[n] + 1 /\ b_mutex'[n] = p
        BY <1>0, <1>8, <2>5, <3>3 DEF barrier_cross, BarrierTypeOK
      <4>2. At1(n) \in SUBSET Of(n) /\ p \notin At1(n)
        BY <2>1, <3>1 DEF At1, Resting
      <4>3. At1(n) \cup {p} = Of(n) /\ crossing[n] + 1 = Cardinality(At1(n) \cup {p})
        <5>1. /\ Cardinality(At1(n)) \in Nat
              /\ Cardinality(At1(n) \cup {p}) = Cardinality(At1(n)) + 1
              /\ Cardinality(At1(n) \cup {p}) >= Expected(n) => At1(n) \cup {p} = Of(n)
          BY <1>0, <4>2, Counting
        <5> QED
          BY <3>1, <3>3, <5>1 DEF Last
      <4>4. crossing'[n] = Expected(n)
        BY <1>6, <4>1, <4>3
      <4>5. ASSUME NEW q \in Of(n)
            PROVE  crossed'[q] = 0 /\ b_pc'[q] \in {"cond_wait", "gasnet_barrier"}
        BY <1>0, <1>1, <2>2, <3>2, <4>1, <4>3 DEF At1, Resting, BarrierTypeOK
      <4>6. Meeting(n)'
        BY <1>5, <4>4, <4>5 DEF Meeting
      <4>7. Stopping(n)' /\ Stopped(n)'
        BY <1>0, <4>1 DEF Stopping, Stopped, Unlocked
      <4> QED
        BY <1>4, <2>4, <4>6, <4>7
    <3>4. CASE ~Last(n)
      <4>1. notified'[n] = 0
        BY <1>8, <2>5, <3>4 DEF barrier_cross
      <4> QED
        BY <1>4, <2>4, <4>1 DEF Meeting, Stopping, Stopped
    <3> QED
      BY <3>3, <3>4
  <2>6. CASE notified[n] = 1
    <3>1. /\ count[n] = Expected(n) /\ crossing[n] = Cardinality(At2(n))
          /\ \A q \in Of(n) : crossed[q] \in {1, 2}
      BY <1>0, <1>1, <1>3, <2>1, <2>2, <2>6 DEF Stopping, BarrierTypeOK
    <3>2. crossed[p] = 1
      BY <1>0, <2>1, <3>1
    <3>3. At2(n) \in SUBSET Of(n) /\ p \notin At2(n)
      BY <2>1, <3>2 DEF At2, Resting
    <3>4. /\ Cardinality(At2(n)) \in Nat
          /\ Cardinality(At2(n) \cup {p}) = Cardinality(At2(n)) + 1
          /\ Cardinality(At2(n) \cup {p}) >= Expected(n) => At2(n) \cup {p} = Of(n)
      BY <1>0, <3>3, Counting
    <3>5. CASE Last(n)
      <4>1. /\ notified'[n] = 2 /\ b_pc' = [b_pc EXCEPT ![p] = "gasnet_barrier"]
            /\ crossed' = crossed
        BY <1>0, <1>8, <2>6, <3>5 DEF barrier_cross, BarrierTypeOK
      <4>2. At2(n) \cup {p} = Of(n)
        BY <3>1, <3>4, <3>5 DEF Last
      <4>3. ASSUME NEW q \in Of(n)
            PROVE  arrived(q)' = 2
        <5>1. CASE q = p
          BY <1>0, <3>2, <4>1, <5>1 DEF arrived, BarrierTypeOK
        <5>2. CASE q # p
          <6>1. q \in At2(n) /\ b_pc'[q] = b_pc[q] /\ q \in Member
            BY <1>1, <4>1, <4>2, <5>2 DEF BarrierTypeOK
          <6> QED
            BY <3>1, <4>1, <6>1 DEF arrived, At2, Resting, Inside
        <5> QED
          BY <5>1, <5>2
      <4>4. Meeting(n)' /\ Stopping(n)' /\ Stopped(n)'
        BY <4>1, <4>3 DEF Meeting, Stopping, Stopped
      <4> QED
        BY <1>4, <2>4, <4>4
    <3>6. CASE ~Last(n)
      <4>1. /\ UNCHANGED <<b_mutex, notified, count>>
            /\ crossing'[n] = crossing[n] + 1
            /\ \/ b_pc' = [b_pc EXCEPT ![p] = "cond_wait"] /\ crossed' = crossed
               \/ b_pc' = b_pc /\ crossed' = [crossed EXCEPT ![p] = @ + 1]
        BY <1>0, <1>8, <3>6 DEF barrier_cross, BarrierTypeOK, Pass
      <4>2. At2(n)' = At2(n) \cup {p}
        BY <1>0, <1>1, <3>2, <2>1, <4>1 DEF At2, Resting, BarrierTypeOK
      <4>3. \A q \in Of(n) : crossed'[q] # 0 /\ b_pc'[q] # "woken"
        BY <1>0, <1>1, <2>2, <3>1, <4>1 DEF BarrierTypeOK
      <4>4. Stopping(n)'
        BY <1>5, <3>1, <3>4, <4>1, <4>2, <4>3 DEF Stopping
      <4>5. Meeting(n)' /\ Stopped(n)'
        BY <2>1, <2>6, <4>1 DEF Meeting, Stopped
      <4> QED
        BY <1>4, <2>4, <4>4, <4>5
    <3> QED
      BY <3>5, <3>6
  <2> QED
    BY <1>7, <2>3, <2>5, <2>6
<1>9. CASE barrier_met(p)
  <2>1. /\ b_pc[p] = "gasnet_barrier" /\ b_mutex[n] = p
        /\ \A m \in Node : notified[m] >= notified[n]
    BY <1>0, <1>9 DEF barrier_met, MutexKept
  <2>2. /\ count'[n] = crossing[n] /\ crossing'[n] = Remaining(p, n)
        /\ b_mutex'[n] = Unlocked /\ notified' = notified
        /\ crossed' = [crossed EXCEPT ![p] = @ + 1]
        /\ b_pc'[p] = "out"
        /\ \A q \in Of(n) : q # p =>
              b_pc'[q] = IF b_pc[q] = "cond_wait" THEN "woken" ELSE b_pc[q]
    BY <1>0, <1>1, <1>9 DEF barrier_met, BarrierTypeOK, Pass
  <2>3. notified[n] # 0
    BY <1>0, <2>1 DEF FirstInv, Gathering
  <2>4. CASE notified[n] = 1
    <3>1. /\ crossing[n] = Expected(n)
          /\ \A q \in Of(n) : crossed[q] = 0 /\ b_pc[q] \in {"cond_wait", "gasnet_barrier"}
      BY <1>0, <1>3, <2>1, <2>4 DEF Meeting
    <3>2. \A q \in Of(n) : q # p => b_pc[q] = "cond_wait"
      BY <1>1, <2>1, <3>1 DEF MutexKept
    <3>3. /\ crossed'[p] = 1
          /\ \A q \in Of(n) : q # p => crossed'[q] = 0 /\ b_pc'[q] = "woken"
      BY <1>0, <1>1, <2>2, <3>1, <3>2 DEF BarrierTypeOK
    <3>4. At2(n)' = Of(n) \ {p}
      BY <1>0, <2>2, <3>3 DEF At2, Resting
    <3>5. Cardinality(Of(n) \ {p}) = Cardinality(Of(n)) - 1
      BY <1>0, Counting
    <3>6. crossing'[n] = Expected(n) - 1
      BY <1>0, <2>2, <3>1 DEF Remaining, local_wait
    <3>7. Stopping(n)'
      BY <1>0, <1>5, <1>6, <2>2, <3>1, <3>3, <3>4, <3>5, <3>6 DEF Stopping
    <3>8. Meeting(n)' /\ Stopped(n)'
      BY <2>2, <2>4 DEF Meeting, Stopped
    <3>9. MainThrough'
      <4>1. CASE n = 0
        <5>1. Main \in Of(n)
          BY <4>1, Members
        <5>2. ~(crossed'[Main] = 2 \/ (crossed'[Main] = 1 /\ b_pc'[Main] = "woken"))
          BY <2>2, <3>3, <5>1
        <5> QED
          BY <5>2 DEF MainThrough
      <4>2. CASE n # 0
        <5>1. crossed'[Main] = crossed[Main] /\ b_pc'[Main] = b_pc[Main]
          BY <4>2, Members, OtherNodesApart
        <5> QED
          BY <1>3, <2>2, <5>1 DEF MainThrough
      <4> QED
        BY <4>1, <4>2
    <3> QED
      BY <1>4, <3>7, <3>8, <3>9
  <2>5. CASE notified[n] = 2
    <3>1. \A q \in Of(n) : arrived(q) = 2
      BY <1>0, <1>3, <2>5 DEF Stopped
    <3>2. ASSUME NEW q \in Of(n)
          PROVE  arrived(q)' = 2
      <4>1. CASE q = p
        BY <1>0, <2>1, <2>2, <3>1, <4>1 DEF arrived, BarrierTypeOK
      <4>2. CASE q # p
        BY <1>0, <1>1, <2>2, <3>1, <4>2 DEF arrived, BarrierTypeOK
      <4> QED
        BY <4>1, <4>2
    <3>3. Meeting(n)' /\ Stopping(n)' /\ Stopped(n)'
      BY <2>2, <2>5, <3>2 DEF Meeting, Stopping, Stopped
    <3>4. MainThrough'
      BY <2>1, <2>2, <2>5 DEF MainThrough
    <3> QED
      BY <1>4, <3>3, <3>4
  <2> QED
    BY <1>7, <2>3, <2>4, <2>5
<1>10. CASE wake(p)
  <2>1. /\ b_pc[p] = "woken" /\ b_mutex[n] = Unlocked
        /\ crossing'[n] = Leave(crossing[n])
        /\ b_pc' = [b_pc EXCEPT ![p] = "out"]
        /\ crossed' = [crossed EXCEPT ![p] = @ + 1]
        /\ UNCHANGED <<b_mutex, count, notified>>
    BY <1>0, <1>10 DEF wake, BarrierTypeOK, Pass
  <2>2. notified[n] >= 1
    BY <1>0, <2>1 DEF FirstInv, Through
  <2>3. CASE notified[n] = 1
    <3>1. /\ count[n] = Expected(n) /\ crossing[n] = Cardinality(At2(n))
          /\ \A q \in Of(n) : crossed[q] = 0 <=> b_pc[q] = "woken"
      BY <1>0, <1>3, <2>1, <2>3 DEF Stopping
    <3>2. crossed[p] = 0
      BY <1>0, <2>1, <3>1
    <3>3. At2(n)' = At2(n) \ {p}
      BY <1>0, <1>1, <2>1, <3>2 DEF At2, Resting, BarrierTypeOK
    <3>4. At2(n) \in SUBSET Of(n) /\ p \in At2(n)
      BY <1>0, <2>1 DEF At2, Resting
    <3>5. /\ Cardinality(At2(n)) \in Nat /\ Cardinality(At2(n)) # 0
          /\ Cardinality(At2(n) \ {p}) = Cardinality(At2(n)) - 1
      BY <1>0, <3>4, Counting
    <3>6. crossing'[n] = Cardinality(At2(n) \ {p})
      BY <2>1, <3>1, <3>5 DEF Leave
    <3>7. \A q \in Of(n) : crossed'[q] = 0 <=> b_pc'[q] = "woken"
      BY <1>0, <1>1, <2>1, <3>1, <3>2 DEF BarrierTypeOK
    <3>8. Stopping(n)'
      BY <1>5, <2>1, <3>1, <3>3, <3>6, <3>7 DEF Stopping
    <3>9. Meeting(n)' /\ Stopped(n)'
      BY <2>1, <2>3 DEF Meeting, Stopped
    <3>10. MainThrough'
      <4>1. ASSUME crossed'[Main] = 2 \/ (crossed'[Main] = 1 /\ b_pc'[Main] = "woken")
            PROVE  crossed[Main] = 2 \/ (crossed[Main] = 1 /\ b_pc[Main] = "woken")
        BY <2>1, <3>2, <4>1, Members DEF BarrierTypeOK
      <4> QED
        BY <1>3, <2>1, <4>1 DEF MainThrough
    <3> QED
      BY <1>4, <3>8, <3>9, <3>10
  <2>4. CASE notified[n] = 2
    <3>1. \A q \in Of(n) : arrived(q) = 2
      BY <1>0, <1>3, <2>4 DEF Stopped
    <3>2. ASSUME NEW q \in Of(n)
          PROVE  arrived(q)' = 2
      BY <1>0, <1>1, <2>1, <3>1 DEF arrived, BarrierTypeOK
    <3>3. Meeting(n)' /\ Stopping(n)' /\ Stopped(n)'
      BY <2>1, <2>4, <3>2 DEF Meeting, Stopping, Stopped
    <3>4. MainThrough'
      <4>1. ASSUME crossed'[Main] = 2 \/ (crossed'[Main] = 1 /\ b_pc'[Main] = "woken")
            PROVE  crossed[Main] = 2 \/ (crossed[Main] = 1 /\ b_pc[Main] = "woken")
        <5>1. crossed[p] = 1
          BY <1>0, <2>1, <3>1 DEF arrived, BarrierTypeOK
        <5> QED
          BY <2>1, <4>1, <5>1, Members DEF BarrierTypeOK
      <4> QED
        BY <1>3, <2>1, <4>1 DEF MainThrough
    <3> QED
      BY <1>4, <3>3, <3>4
  <2> QED
    BY <1>7, <2>2, <2>3, <2>4
<1> QED
  BY <1>8, <1>9, <1>10 DEF BarrierStep

\* The invariant holds before anybody comes.
LEMMA BarrierInitially == BarrierInit => BarrierInv
<1> SUFFICES ASSUME BarrierInit PROVE BarrierInv
  OBVIOUS
<1> USE DEF BarrierInit
<1>1. \A n \in Node : Expected(n) \in Nat
  BY ExpectedCounts
<1>2. BarrierTypeOK
  <2>1. count \in [Node -> Int] /\ crossing \in [Node -> Int] /\ notified \in [Node -> Nat]
    BY <1>1
  <2>2. crossed \in [Member -> 0..2]
    OBVIOUS
  <2>3. b_pc \in [Member -> {"out", "cond_wait", "gasnet_barrier", "woken"}]
    OBVIOUS
  <2>4. b_mutex \in [Node -> Member \cup {Unlocked}]
    OBVIOUS
  <2> QED
    BY <2>1, <2>2, <2>3, <2>4 DEF BarrierTypeOK
<1>3. Inside /\ MutexKept
  BY Members DEF Inside, MutexKept
<1>4. ASSUME NEW n \in Node
      PROVE  Gathering(n) /\ Gathered(n) /\ Meeting(n) /\ Stopping(n) /\ Stopped(n)
  <2>1. At1(n) = {}
    BY Members DEF At1, Resting
  <2> QED
    BY <2>1, FS_EmptySet DEF Gathering, Gathered, Meeting, Stopping, Stopped
<1>5. Through /\ MainThrough
  BY Members DEF Through, MainThrough
<1> QED
  BY <1>2, <1>3, <1>4, <1>5 DEF BarrierInv, FirstInv, SecondInv

\* Every step keeps it.
LEMMA BarrierStepInv == BarrierInv /\ [BarrierNext]_barrierVars => BarrierInv'
<1> SUFFICES ASSUME BarrierInv, [BarrierNext]_barrierVars PROVE BarrierInv'
  OBVIOUS
<1>1. CASE UNCHANGED <<b_pc, crossed, b_mutex, count, crossing, notified, overrun>>
           /\ stop' \in BOOLEAN
  <2>1. BarrierTypeOK' /\ Inside' /\ MutexKept'
    BY <1>1 DEF BarrierInv, BarrierTypeOK, Inside, MutexKept
  <2>2. ASSUME NEW m \in Node
        PROVE  /\ Gathering(m) => Gathering(m)'
               /\ Gathered(m) => Gathered(m)'
               /\ Meeting(m) => Meeting(m)'
               /\ Stopping(m) => Stopping(m)'
               /\ Stopped(m) => Stopped(m)'
    BY <1>1, NodeKept
  <2>3. (Through => Through') /\ (MainThrough => MainThrough')
    BY <1>1 DEF Through, MainThrough
  <2> QED
    BY <1>1, <2>1, <2>2, <2>3 DEF BarrierInv, FirstInv, SecondInv
<1>2. CASE setStop \/ AllThrough \/ UNCHANGED barrierVars
  BY <1>1, <1>2 DEF setStop, AllThrough, barrierVars, BarrierInv, BarrierTypeOK
<1>3. ASSUME NEW p \in Member, BarrierStep(p)
      PROVE  BarrierInv'
  <2>1. BarrierTypeOK' /\ Inside'
    BY <1>3, BarrierTypeStep DEF BarrierInv, BarrierNext
  <2>2. MutexKept' /\ FirstInv' /\ SecondInv'
    BY <1>3, MutexStep, FirstStep, SecondStep DEF BarrierInv
  <2> QED
    BY <2>1, <2>2 DEF BarrierInv
<1> QED
  BY <1>2, <1>3 DEF BarrierNext

\* However the threads come, are woken and are late, the invariant holds.
THEOREM BarrierInvariant == BarrierSpec => []BarrierInv
  BY BarrierInitially, BarrierStepInv, PTL DEF BarrierSpec

\* It says whom the barriers hold.
LEMMA InvHolds == BarrierInv => BarriersHold
<1> SUFFICES ASSUME BarrierInv PROVE BarriersHold
  OBVIOUS
<1>1. StartTogether
  <2>1. SUFFICES ASSUME NEW p \in Member, crossed[p] >= 1, NEW q \in Member
                 PROVE  arrived(q) >= 1
    BY DEF StartTogether
  <2>2. nodeOf(q) \in Node /\ q \in Of(nodeOf(q))
    BY Members
  <2>3. notified[nodeOf(q)] >= 1
    BY <2>1, <2>2 DEF BarrierInv, FirstInv, Through
  <2> QED
    BY <2>2, <2>3 DEF BarrierInv, FirstInv, Gathered
<1>2. StopTogether
  <2>1. SUFFICES ASSUME crossed[Main] = 2, ~overrun, NEW q \in Worker
                 PROVE  arrived(q) = 2
    BY DEF StopTogether
  <2>2. nodeOf(q) \in Node /\ q \in Of(nodeOf(q))
    BY Members DEF Member
  <2>3. notified[nodeOf(q)] >= 2
    BY <2>1, <2>2 DEF BarrierInv, SecondInv, MainThrough
  <2> QED
    BY <2>1, <2>2, <2>3 DEF BarrierInv, SecondInv, Stopped
<1> QED
  BY <1>1, <1>2 DEF BarriersHold

\* For any number of nodes and workers no thread is through the first barrier
\* before all have come to it, and without an overrun the main thread is through
\* the second only when every worker has stopped (barrier_cross).
THEOREM BarriersCorrect == BarrierSpec => []BarriersHold
  BY BarrierInvariant, InvHolds, PTL
=============================================================================
