-------------------------------- MODULE Buddy --------------------------------
(***************************************************************************)
(* The buddy allocator over 2^Level units.  A node of the binary tree      *)
(* stands for an aligned range; it is unused, used as a whole, split, or   *)
(* split with nothing left in it.  Calls run one after another; every turn *)
(* of a loop is a step.                                                    *)
(***************************************************************************)
EXTENDS Integers

CONSTANTS Level,   \* of buddy_new
          Request  \* the sizes asked for

LevelAssumption == Level \in Nat /\ Request \subseteq Nat

Index == 0..(2 * 2^Level - 2)

VARIABLES
    tree,   \* UNUSED, USED, SPLIT or FULL for each node
    pc,     \* the loop the call is in
    index,  \* its node
    need,   \* buddy_alloc: the size, a power of two
    goal,   \* buddy_free, buddy_size: the offset
    live    \* what the caller has: its offset and the size asked for

vars == <<tree, pc, index, need, goal, live>>

\* buddy_new
Init == /\ tree = [i \in Index |-> "UNUSED"]
        /\ pc = "idle" /\ index = 0 /\ need = 0 /\ goal = 0 /\ live = {}

level(i)  == CHOOSE l \in 0..Level : 2^l <= i + 1 /\ i + 1 < 2^(l + 1)
length(i) == 2^(Level - level(i))
parent(i) == (i + 1) \div 2 - 1
buddy(i)  == i - 1 + (i % 2) * 2
_index_offset(i) == ((i + 1) - 2^level(i)) * length(i)

\* The least power of two that is no less; 1 for a request of nothing.
next_pow_of_2(s) == LET enough == {p \in {2^l : l \in 0..s} : s <= p}
                    IN  CHOOSE p \in enough : \A q \in enough : p <= q

Goto(l, i) == pc' = l /\ index' = i
Return == pc' = "idle" /\ index' = 0 /\ need' = 0 /\ goal' = 0

-----------------------------------------------------------------------------
(* buddy_alloc                                                             *)

buddy_alloc(s) ==
    /\ pc = "idle"
    /\ need' = next_pow_of_2(s) /\ goal' = s
    /\ Goto(IF next_pow_of_2(s) > 2^Level THEN "none" ELSE "alloc", 0)
    /\ UNCHANGED <<tree, live>>

\* A node of the size is taken.
take ==
    /\ pc = "alloc" /\ length(index) = need /\ tree[index] = "UNUSED"
    /\ tree' = [tree EXCEPT ![index] = "USED"]
    /\ live' = live \cup {[offset |-> _index_offset(index), size |-> goal]}
    /\ Goto("mark", index)
    /\ UNCHANGED <<need, goal>>

\* Fault: the children stay what they were before they were combined.
Split_Kept(i) == [tree EXCEPT ![i] = "SPLIT"]

Split(i) == [tree EXCEPT ![i] = "SPLIT", ![2 * i + 1] = "UNUSED",
                         ![2 * i + 2] = "UNUSED"]

\* A larger one is entered, split first if it is unused.
descend ==
    /\ pc = "alloc" /\ need < length(index)
    /\ tree[index] \in {"UNUSED", "SPLIT"}
    /\ tree' = IF tree[index] = "UNUSED" THEN Split(index) ELSE tree
    /\ Goto("alloc", 2 * index + 1)
    /\ UNCHANGED <<need, goal, live>>

\* Nothing here: on to the right neighbour, or up until there is one.
goOn ==
    /\ \/ pc = "climb"
       \/ /\ pc = "alloc"
          /\ IF length(index) = need THEN tree[index] # "UNUSED"
             ELSE tree[index] \in {"USED", "FULL"}
    /\ IF index % 2 = 1 THEN Goto("alloc", index + 1)
       ELSE IF index = 0 THEN Goto("none", 0)
       ELSE Goto("climb", parent(index))
    /\ UNCHANGED <<tree, need, goal, live>>

\* _mark_parent: ranges with nothing left are not entered again.
mark ==
    /\ pc = "mark"
    /\ IF buddy(index) > 0 /\ tree[buddy(index)] \in {"USED", "FULL"}
       THEN /\ tree' = [tree EXCEPT ![parent(index)] = "FULL"]
            /\ Goto("mark", parent(index))
            /\ UNCHANGED <<need, goal>>
       ELSE Return /\ UNCHANGED tree
    /\ UNCHANGED live

\* -1
allocFails == pc = "none" /\ Return /\ UNCHANGED <<tree, live>>

-----------------------------------------------------------------------------
(* buddy_free and buddy_size                                               *)

buddy_free(b) ==
    /\ pc = "idle" /\ b \in live
    /\ goal' = b.offset /\ live' = live \ {b}
    /\ Goto("free", 0) /\ UNCHANGED <<tree, need>>

buddy_size(b) ==
    /\ pc = "idle" /\ b \in live
    /\ goal' = b.offset
    /\ Goto("size", 0) /\ UNCHANGED <<tree, need, live>>

\* Down to the node in use around the offset.
follow ==
    /\ pc \in {"free", "size"} /\ tree[index] \in {"SPLIT", "FULL"}
    /\ LET right == _index_offset(2 * index + 2)
       IN  Goto(pc, IF goal < right THEN 2 * index + 1 ELSE 2 * index + 2)
    /\ UNCHANGED <<tree, need, goal, live>>

sizeFound == /\ pc = "size" /\ tree[index] = "USED"
             /\ Return /\ UNCHANGED <<tree, live>>

freeFound == /\ pc = "free" /\ tree[index] = "USED"
             /\ Goto("combine", index)
             /\ UNCHANGED <<tree, need, goal, live>>

\* _combine: upwards while the other half is unused too.
_combine ==
    /\ pc = "combine"
    /\ IF buddy(index) < 0 \/ tree[buddy(index)] # "UNUSED"
       THEN /\ tree' = [tree EXCEPT ![index] = "UNUSED"]
            /\ Goto("reopen", index)
       ELSE Goto("combine", parent(index)) /\ UNCHANGED tree
    /\ UNCHANGED <<need, goal, live>>

reopen ==
    /\ pc = "reopen"
    /\ IF parent(index) >= 0 /\ tree[parent(index)] = "FULL"
       THEN /\ tree' = [tree EXCEPT ![parent(index)] = "SPLIT"]
            /\ Goto("reopen", parent(index))
            /\ UNCHANGED <<need, goal>>
       ELSE Return /\ UNCHANGED tree
    /\ UNCHANGED live

Loop == \/ take \/ descend \/ goOn \/ mark \/ allocFails
        \/ follow \/ sizeFound \/ freeFound \/ _combine \/ reopen

Next == \/ Loop
        \/ \E s \in Request : buddy_alloc(s)
        \/ \E b \in live : buddy_free(b) \/ buddy_size(b)

Spec == Init /\ [][Next]_vars /\ WF_vars(Loop)
-----------------------------------------------------------------------------
Range(from, n) == from..(from + n - 1)
Taken == UNION {Range(b.offset, next_pow_of_2(b.size)) : b \in live}

(***************************************************************************)
(* Blocks do not overlap, buddy_alloc gives up only when no aligned range  *)
(* of the size is free (after any history of splitting and combining), and *)
(* buddy_free and buddy_size come to a block in use that starts at their   *)
(* offset and has the size that was allocated: their assertions hold.      *)
(***************************************************************************)
BuddyExact ==
    /\ \A b, c \in live : b # c =>
          Range(b.offset, next_pow_of_2(b.size))
             \cap Range(c.offset, next_pow_of_2(c.size)) = {}
    /\ pc = "none" /\ need <= 2^Level =>
          ~\E k \in 0..(2^Level \div need - 1) : Range(k * need, need) \cap Taken = {}
    /\ pc \in {"free", "size"} =>
          /\ tree[index] # "UNUSED"
          /\ tree[index] = "USED" => _index_offset(index) = goal
    /\ pc = "size" /\ tree[index] = "USED" =>
          \E b \in live : b.offset = goal /\ length(index) = next_pow_of_2(b.size)

(***************************************************************************)
(* The loops of every call end: a search of the tree never goes round.     *)
(***************************************************************************)
BuddyReturns == pc # "idle" ~> pc = "idle"
=============================================================================
