------------------------------ MODULE LockWord ------------------------------
(***************************************************************************)
(* The lock word as the integer the source keeps it in, beside the record  *)
(* of Timestamps that stands for it in the other modules.  The word of one *)
(* object goes through what the protocol does to it: it is copied, locked, *)
(* put back and replaced by a new version.  Widths are parameters; the     *)
(* source has 15 node bits, 48 version bits and the lock bit on top.       *)
(***************************************************************************)
EXTENDS Timestamps, Bitwise

CONSTANTS NodeBits, VersionBits,
          ClockLimit  \* bound: the largest clock value a commit draws

WidthAssumption == /\ NodeBits \in Nat \ {0}
                   /\ VersionBits \in Nat \ {0}
                   /\ ClockLimit \in Nat

Node == 0..(2^NodeBits - 1)
LockBit == 2^(NodeBits + VersionBits)

VARIABLES word,     \* the lock word at the home node
          rec,      \* the record that stands for it
          copy,     \* the word in a transaction's copy
          copyRec

vars == <<word, rec, copy, copyRec>>

\* x >> 63, (x >> 48) & 0x7fff, x & 0xffffffffffff, (x & 0x7fff) << 48
LockbitOf(x) == x \div LockBit

\* Fault: the lock bit is not masked out.
NodeOf_Unmasked(x) == x \div 2^VersionBits

NodeOf(x) == (x \div 2^VersionBits) % 2^NodeBits

VersionOf(x) == x % 2^VersionBits

ToNodeWord(n) == (n % 2^NodeBits) * 2^VersionBits

WordsEquivalent(x, y) == NodeOf(x) = NodeOf(y) /\ VersionOf(x) = VersionOf(y)
WordsEqual(x, y)      == VersionOf(x) = VersionOf(y)
WordVersionGreater(x, y) == VersionOf(x) > VersionOf(y)

Init == word = 0 /\ rec = InitialTS /\ copy = 0 /\ copyRec = InitialTS

\* readCell keeps the word of an unlocked object.
copyWord ==
    /\ LockbitOf(word) = 0
    /\ copy' = word /\ copyRec' = rec
    /\ UNCHANGED <<word, rec>>

\* processLocksRequest swaps in the copied version with the lock bit set.
lockWord ==
    /\ ~(word > copy)
    /\ word' = copy | LockBit
    /\ rec' = SetLockBit(copyRec)
    /\ UNCHANGED <<copy, copyRec>>

\* releaseLocks puts the copied version back.
restoreWord ==
    /\ LockbitOf(word) = 1
    /\ word' = copy /\ rec' = copyRec
    /\ UNCHANGED <<copy, copyRec>>

\* releaseLocksWithNewClock puts TO_NODE_TS(node) | new_clock.
renewWord(n, clock) ==
    /\ LockbitOf(word) = 1
    /\ word' = ToNodeWord(n) | clock
    /\ rec' = ToTS(n, clock)
    /\ UNCHANGED <<copy, copyRec>>

Next == \/ copyWord \/ lockWord \/ restoreWord
        \/ \E n \in Node, clock \in 1..ClockLimit : renewWord(n, clock)

Spec == Init /\ [][Next]_vars
-----------------------------------------------------------------------------
Decode(x) == [lock |-> LockbitOf(x), node |-> NodeOf(x), version |-> VersionOf(x)]

(***************************************************************************)
(* The record stands for the word through every operation, and every       *)
(* comparison the source makes of two words gives what the record          *)
(* operators give: the macros neither lose nor mix fields as long as the   *)
(* clock fits the version field.                                           *)
(***************************************************************************)
RecordsStandForWords ==
    /\ Decode(word) = rec /\ Decode(copy) = copyRec
    /\ (word > copy) <=> WordGreater(rec, copyRec)
    /\ WordsEquivalent(word, copy) <=> isTimestampsEquivalent(rec, copyRec)
    /\ WordsEqual(word, copy) <=> isTimestampsEqual(rec, copyRec)
    /\ WordVersionGreater(word, copy) <=> isTimestampGreater(rec, copyRec)

=============================================================================
