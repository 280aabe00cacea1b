-------------------------- MODULE SmallTasksProofs --------------------------
(***************************************************************************)
(* The memory of small tasks, for any number of schedulers and blocks: a   *)
(* scheduler is freed once nobody can use it, and then for certain.  Where *)
(* a block is follows from two facts: a block is on the list of its owner  *)
(* at most once, and a block that is nowhere else is on it.  Then the      *)
(* count of a scheduler is that of its blocks and its guard, so it reaches *)
(* zero with the last of them, whoever brings it there.                    *)
(***************************************************************************)
EXTENDS SmallTasks, Integers, FiniteSetTheorems, TLAPS

\* Where a thread is; with work to do, with a block in hand, and with no work
\* left but its scheduler to free.
Places == {"run", "take back", "read list", "swap list", "deallocate", "empty lists",
           "give up", "gone"}
Working == {"run", "take back", "read list", "swap list", "deallocate"}
Returning == {"read list", "swap list", "deallocate"}
Ending == {"empty lists", "give up"}

\* The blocks of a list, and that none is on it twice.
Elems(l) == {l[i] : i \in DOMAIN l}
Distinct(l) == \A i, j \in DOMAIN l : l[i] = l[j] => i = j

\* The types of the variables.
SmallTypes ==
    /\ origin \in [Block -> Scheduler \cup {"heap"}]
    /\ holder \in [Block -> Scheduler \cup {"none", "dummy"}]
    /\ my_free_list \in [Scheduler -> Seq(Block)]
    /\ my_return_list \in [Scheduler -> Seq(Block)]
    /\ plugged \in [Scheduler -> BOOLEAN]
    /\ memory \in [Scheduler -> {"live", "freed"}]
    /\ pc \in [Scheduler -> [at : Places, block : Block \cup {NoBlock}]]
    /\ old \in [Scheduler -> Seq(Block)]
    /\ k \in [Scheduler -> Nat]

\* The blocks on the lists of a scheduler.
InLists(s) == Elems(my_free_list[s]) \cup Elems(my_return_list[s])

\* A block is on at most one list, once.
ListsApart ==
    /\ \A s \in Scheduler : /\ Distinct(my_free_list[s]) /\ Distinct(my_return_list[s])
                            /\ Elems(my_free_list[s]) \cap Elems(my_return_list[s]) = {}
    /\ \A s \in Scheduler : \A b \in InLists(s) : origin[b] = s /\ holder[b] = "none"

\* And each block is somewhere.
Placed ==
    \A b \in Block :
        /\ origin[b] = "heap" => holder[b] = "none"
        /\ origin[b] # "heap" /\ holder[b] = "none" => b \in InLists(origin[b])
        /\ holder[b] \in Scheduler => pc[holder[b]].at \in Working
        /\ holder[b] = "dummy" => pc[origin[b]].at \in Working

\* A scheduler has one dummy task at most.
OneDummy == \A b, c \in Block : holder[b] = "dummy" /\ holder[c] = "dummy"
                                  /\ origin[b] = origin[c] => b = c

\* What is known by where a thread is.  A plugged list stays empty.
Control ==
    \A p \in Scheduler :
        /\ pc[p].at \in Returning => pc[p].block \in Block /\ holder[pc[p].block] = p
        /\ pc[p].at = "take back" => my_free_list[p] = <<>> /\ my_return_list[p] # <<>>
        /\ pc[p].at \in Working => ~plugged[p]
        /\ plugged[p] => my_return_list[p] = <<>>
        /\ pc[p].at \in {"give up", "gone"} => plugged[p] /\ my_free_list[p] = <<>>

\* The blocks a scheduler has allocated; what its guard is worth: free_scheduler
\* keeps it, and all it deallocates, for one decrement in the end.
Own(s) == {b \in Block : origin[b] = s}
Guard(s) == IF pc[s].at \in Ending THEN k[s] ELSE IF pc[s].at = "gone" THEN 0 ELSE 1

\* The count of a scheduler tells whether it is freed.
CountOf(s) ==
    /\ my_small_task_count[s] = Cardinality(Own(s)) + Guard(s)
    /\ pc[s].at \in Ending => k[s] > 0
    /\ memory[s] = "freed" <=> my_small_task_count[s] = 0

Counted == /\ my_small_task_count \in [Scheduler -> Int]
           /\ \A s \in Scheduler : CountOf(s)

\* Where blocks and threads are.
Blocks == ListsApart /\ Placed /\ OneDummy /\ Control

\* The inductive invariant.
SmallInv == SmallTypes /\ Blocks /\ Counted

\* A block put to the front of a list.
LEMMA PushFront ==
    ASSUME NEW l \in Seq(Block), NEW b \in Block, Distinct(l), b \notin Elems(l)
    PROVE  /\ <<b>> \o l \in Seq(Block) /\ Distinct(<<b>> \o l)
           /\ Elems(<<b>> \o l) = Elems(l) \cup {b}
<1> DEFINE m == <<b>> \o l
<1>0. /\ m \in Seq(Block) /\ Len(m) = Len(l) + 1 /\ m[1] = b /\ Len(l) \in Nat
      /\ DOMAIN l = 1..Len(l) /\ DOMAIN m = 1..Len(m)
      /\ \A i \in DOMAIN l : m[i + 1] = l[i]
  OBVIOUS
<1>1. \A i \in DOMAIN m : i = 1 \/ (i - 1 \in DOMAIN l /\ m[i] = l[i - 1])
  <2>1. ASSUME NEW i \in DOMAIN m, i # 1
        PROVE  i - 1 \in DOMAIN l /\ m[i] = l[i - 1]
    <3>1. i - 1 \in DOMAIN l
      BY <1>0, <2>1
    <3>2. m[(i - 1) + 1] = l[i - 1]
      BY <1>0, <3>1
    <3>3. (i - 1) + 1 = i
      BY <1>0, <2>1
    <3> QED
      BY <3>1, <3>2, <3>3
  <2> QED
    BY <2>1
<1> HIDE DEF m
<1>2. \A i \in DOMAIN l : i + 1 \in DOMAIN m /\ 1 \in DOMAIN m
  BY <1>0
<1>3. Elems(m) = Elems(l) \cup {b}
  <2>1. ASSUME NEW x \in Elems(m)
        PROVE  x \in Elems(l) \cup {b}
    BY <1>0, <1>1, <2>1 DEF Elems
  <2>2. b \in Elems(m)
    BY <1>0 DEF Elems
  <2>3. ASSUME NEW x \in Elems(l)
        PROVE  x \in Elems(m)
    BY <1>0, <1>2, <2>3 DEF Elems
  <2> QED
    BY <2>1, <2>2, <2>3
<1>4. Distinct(m)
  <2> SUFFICES ASSUME NEW i \in DOMAIN m, NEW j \in DOMAIN m, m[i] = m[j]
               PROVE  i = j
    BY DEF Distinct
  <2>1. ASSUME NEW i2 \in DOMAIN m, i2 # 1
        PROVE  m[i2] # b
    BY <1>1, <2>1 DEF Elems
  <2>2. CASE i # 1 /\ j # 1
    <3>1. i - 1 = j - 1
      BY <1>1, <2>2 DEF Distinct
    <3> QED
      BY <1>0, <3>1
  <2> QED
    BY <1>0, <2>1, <2>2
<1> QED
  BY <1>0, <1>3, <1>4 DEF m

\* The first block taken from a list.
LEMMA PopFront ==
    ASSUME NEW l \in Seq(Block), l # <<>>, Distinct(l)
    PROVE  /\ Head(l) \in Block /\ Head(l) \in Elems(l) /\ Tail(l) \in Seq(Block)
           /\ Distinct(Tail(l)) /\ Elems(Tail(l)) = Elems(l) \ {Head(l)}
<1> DEFINE m == Tail(l)
<1>0. /\ m \in Seq(Block) /\ Len(m) = Len(l) - 1 /\ Len(l) \in Nat /\ Len(l) >= 1
      /\ Head(l) = l[1] /\ l[1] \in Block
      /\ DOMAIN l = 1..Len(l) /\ DOMAIN m = 1..Len(m)
      /\ \A i \in DOMAIN m : m[i] = l[i + 1]
  OBVIOUS
<1> HIDE DEF m
<1>1. \A i \in DOMAIN l : i # 1 => i - 1 \in DOMAIN m /\ m[i - 1] = l[i]
  <2>1. ASSUME NEW i \in DOMAIN l, i # 1
        PROVE  i - 1 \in DOMAIN m /\ m[i - 1] = l[i]
    <3>1. i - 1 \in DOMAIN m /\ (i - 1) + 1 = i
      BY <1>0, <2>1
    <3> QED
      BY <1>0, <3>1
  <2> QED
    BY <2>1
<1>2. \A i \in DOMAIN m : i + 1 \in DOMAIN l /\ i + 1 # 1
  BY <1>0
<1>3. 1 \in DOMAIN l
  BY <1>0
<1>4. Distinct(m)
  <2> SUFFICES ASSUME NEW i \in DOMAIN m, NEW j \in DOMAIN m, m[i] = m[j]
               PROVE  i = j
    BY DEF Distinct
  <2>1. i + 1 = j + 1
    BY <1>0, <1>2 DEF Distinct
  <2> QED
    BY <1>0, <2>1
<1>5. Elems(m) = Elems(l) \ {l[1]}
  <2>1. ASSUME NEW x \in Elems(m)
        PROVE  x \in Elems(l) \ {l[1]}
    <3>1. PICK i \in DOMAIN m : x = m[i]
      BY DEF Elems
    <3>2. x = l[i + 1] /\ i + 1 \in DOMAIN l /\ i + 1 # 1
      BY <1>0, <1>2, <3>1
    <3> QED
      BY <1>3, <3>2 DEF Elems, Distinct
  <2>2. ASSUME NEW x \in Elems(l), x # l[1]
        PROVE  x \in Elems(m)
    <3>1. PICK i \in DOMAIN l : x = l[i]
      BY DEF Elems
    <3> QED
      BY <1>1, <2>2, <3>1 DEF Elems
  <2> QED
    BY <2>1, <2>2
<1> QED
  BY <1>0, <1>3, <1>4, <1>5 DEF Elems, m

\* The empty list.
LEMMA EmptyList == <<>> \in Seq(Block) /\ Elems(<<>>) = {} /\ Distinct(<<>>)
  BY DEF Elems, Distinct

\* A list holds blocks.
LEMMA ElemsBlocks ==
    ASSUME NEW l \in Seq(Block)
    PROVE  Elems(l) \subseteq Block /\ (l = <<>> <=> Elems(l) = {})
<1>1. DOMAIN l = 1..Len(l) /\ Len(l) \in Nat /\ \A i \in 1..Len(l) : l[i] \in Block
  OBVIOUS
<1>2. l # <<>> => 1 \in DOMAIN l
  BY <1>1
<1> QED
  BY <1>1, <1>2, EmptyList DEF Elems

\* The names for no scheduler are none.
LEMMA Sentinels == "heap" \notin Scheduler /\ "none" \notin Scheduler /\ "dummy" \notin Scheduler
  BY NameAssumption

\* Steps that move no block.
Stays(p) ==
    /\ UNCHANGED <<origin, holder, my_free_list, my_return_list, plugged>>
    /\ \A s \in Scheduler : s # p => pc'[s] = pc[s]
    /\ pc[p].at \in Working => pc'[p].at \in Working
    /\ pc'[p].at \in Returning => pc'[p].block \in Block /\ holder[pc'[p].block] = p
    /\ pc'[p].at = "take back" => my_free_list[p] = <<>> /\ my_return_list[p] # <<>>
    /\ pc'[p].at \in Working => ~plugged[p]
    /\ pc'[p].at \in {"give up", "gone"} => plugged[p] /\ my_free_list[p] = <<>>

\* Such a step keeps the blocks where they are.
LEMMA BlocksStay ==
    ASSUME SmallTypes, Blocks, NEW p \in Scheduler, Stays(p)
    PROVE  Blocks'
<1>1. ListsApart' /\ OneDummy'
  BY DEF Blocks, ListsApart, OneDummy, InLists, Stays
<1>2. \A s \in Scheduler : pc[s].at \in Working => pc'[s].at \in Working
  BY DEF Stays
<1>3. Placed'
  <2>1. \A b \in Block : holder[b] = "dummy" => origin[b] \in Scheduler
    BY Sentinels DEF Blocks, Placed, SmallTypes
  <2> QED
    BY <1>2, <2>1 DEF Blocks, Placed, InLists, Stays
<1>4. Control'
  BY DEF Blocks, Control, Stays
<1> QED
  BY <1>1, <1>3, <1>4 DEF Blocks

\* What the invariant says of one block and of one scheduler.
WellPlaced(b) ==
    /\ origin[b] = "heap" => holder[b] = "none"
    /\ origin[b] # "heap" /\ holder[b] = "none" => b \in InLists(origin[b])
    /\ holder[b] \in Scheduler => pc[holder[b]].at \in Working
    /\ holder[b] = "dummy" => pc[origin[b]].at \in Working

Controlled(p) ==
    /\ pc[p].at \in Returning => pc[p].block \in Block /\ holder[pc[p].block] = p
    /\ pc[p].at = "take back" => my_free_list[p] = <<>> /\ my_return_list[p] # <<>>
    /\ pc[p].at \in Working => ~plugged[p]
    /\ plugged[p] => my_return_list[p] = <<>>
    /\ pc[p].at \in {"give up", "gone"} => plugged[p] /\ my_free_list[p] = <<>>

\* What it says of the two lists of a scheduler.
Apart(s) == /\ Distinct(my_free_list[s]) /\ Distinct(my_return_list[s])
            /\ Elems(my_free_list[s]) \cap Elems(my_return_list[s]) = {}

\* So the invariant can be shown block by block, and scheduler by scheduler,
LEMMA BlocksAre == Blocks <=> /\ \A s \in Scheduler : Apart(s) /\ Controlled(s)
                              /\ \A s \in Scheduler : \A b \in InLists(s) :
                                    origin[b] = s /\ holder[b] = "none"
                              /\ \A b \in Block : WellPlaced(b)
                              /\ OneDummy
  BY DEF Blocks, ListsApart, Placed, Control, Apart, Controlled, WellPlaced

\* also after a step.
LEMMA BlocksWere == Blocks' <=> /\ \A s \in Scheduler : Apart(s)' /\ Controlled(s)'
                                /\ \A s \in Scheduler : \A b \in InLists(s)' :
                                      origin'[b] = s /\ holder'[b] = "none"
                                /\ \A b \in Block : WellPlaced(b)'
                                /\ OneDummy'
  BY DEF Blocks, ListsApart, Placed, Control, Apart, Controlled, WellPlaced

\* p takes block b, for itself or for q: from a list, the heap or a thread.
Takes(p, b, q) ==
    /\ plugged' = plugged /\ holder' = [holder EXCEPT ![b] = q]
    /\ \A c \in Block : c # b => origin'[c] = origin[c]
    /\ origin'[b] \in Scheduler /\ holder[b] # "dummy"
    /\ \A s \in Scheduler : InLists(s)' = InLists(s) \ {b} /\ Apart(s)'
    /\ \A s \in Scheduler : s # p => /\ my_free_list'[s] = my_free_list[s]
                                     /\ my_return_list'[s] = my_return_list[s]
                                     /\ pc'[s] = pc[s]
    /\ \A s \in Scheduler : pc'[s].at \in Returning => pc'[s].block # b /\ pc'[s] = pc[s]
    /\ pc[p].at \in Working /\ pc'[p].at \in Working /\ pc[q].at \in Working
    /\ pc'[p].at # "take back" \/ UNCHANGED <<my_free_list, my_return_list, pc>>

\* A block that is taken is in one place again: in a hand.
LEMMA BlockTaken ==
    ASSUME SmallTypes, Blocks, NEW p \in Scheduler, NEW b \in Block, NEW q \in Scheduler,
           Takes(p, b, q)
    PROVE  Blocks'
<1>0. /\ holder \in [Block -> Scheduler \cup {"none", "dummy"}]
      /\ holder'[b] = q /\ \A c \in Block : c # b => holder'[c] = holder[c]
      /\ q # "none" /\ q # "dummy"
  BY Sentinels DEF SmallTypes, Takes
<1>1. \A s \in Scheduler : \A c \in InLists(s)' : origin'[c] = s /\ holder'[c] = "none"
  <2>1. ASSUME NEW s \in Scheduler, NEW c \in InLists(s)'
        PROVE  origin'[c] = s /\ holder'[c] = "none"
    <3>1. c \in InLists(s) /\ c # b
      BY <2>1 DEF Takes
    <3>2. c \in Block
      BY <3>1, ElemsBlocks DEF SmallTypes, InLists
    <3>3. origin[c] = s /\ holder[c] = "none"
      BY <3>1, BlocksAre
    <3>4. origin'[c] = origin[c]
      BY <3>1, <3>2 DEF Takes
    <3> QED
      BY <1>0, <3>1, <3>2, <3>3, <3>4
  <2> QED
    BY <2>1
<1>2. ASSUME NEW c \in Block
      PROVE  WellPlaced(c)'
  <2>1. CASE c = b
    <3>1. origin'[b] \in Scheduler /\ pc'[q].at \in Working
      BY DEF Takes
    <3> QED
      BY <1>0, <2>1, <3>1, Sentinels DEF WellPlaced
  <2>2. CASE c # b
    <3>1. origin'[c] = origin[c] /\ holder'[c] = holder[c]
      BY <1>0, <2>2 DEF Takes
    <3>2. origin[c] # "heap" => origin[c] \in Scheduler
      BY DEF SmallTypes
    <3>3. \A s \in Scheduler : pc[s].at \in Working => pc'[s].at \in Working
      BY DEF Takes
    <3>4. \A s \in Scheduler : c \in InLists(s) => c \in InLists(s)'
      BY <2>2 DEF Takes
    <3>5. WellPlaced(c)
      BY BlocksAre
    <3>6. origin[c] = "heap" => holder[c] # "dummy"
      BY <3>5 DEF WellPlaced
    <3> QED
      BY <3>1, <3>2, <3>3, <3>4, <3>5, <3>6 DEF WellPlaced
  <2> QED
    BY <2>1, <2>2
<1>3. OneDummy'
  <2>1. \A c \in Block : holder'[c] = "dummy" => holder[c] = "dummy" /\ origin'[c] = origin[c]
    BY <1>0 DEF Takes
  <2> QED
    BY <2>1 DEF Blocks, OneDummy
<1>4. ASSUME NEW s \in Scheduler
      PROVE  Controlled(s)'
  <2>1. Controlled(s)
    BY BlocksAre
  <2>2. pc'[s].at \in Returning => pc'[s].block \in Block /\ holder'[pc'[s].block] = s
    BY <1>0, <2>1 DEF Controlled, Takes
  <2>3. CASE s # p
    <3>1. /\ my_free_list'[s] = my_free_list[s] /\ my_return_list'[s] = my_return_list[s]
          /\ pc'[s] = pc[s] /\ plugged'[s] = plugged[s]
      BY <2>3 DEF Takes
    <3> QED
      BY <2>1, <2>2, <3>1 DEF Controlled
  <2>4. CASE s = p
    <3>1. /\ pc[p].at \in Working /\ pc'[p].at \in Working /\ plugged'[p] = plugged[p]
          /\ pc'[p].at # "take back" \/ UNCHANGED <<my_free_list, my_return_list, pc>>
      BY DEF Takes
    <3>2. pc'[p].at \notin {"give up", "gone"}
      BY <3>1 DEF Working
    <3> QED
      BY <2>1, <2>2, <2>4, <3>1, <3>2 DEF Controlled
  <2> QED
    BY <2>3, <2>4
<1>5. \A s \in Scheduler : Apart(s)'
  BY DEF Takes
<1> QED
  BY <1>1, <1>2, <1>3, <1>4, <1>5, BlocksWere

\* p puts block b, from its hand or as its dummy task, to the front of a list
\* of its owner s.
Lists(p, b, s) ==
    /\ UNCHANGED <<plugged, origin>> /\ origin[b] = s
    /\ holder[b] = p \/ (holder[b] = "dummy" /\ s = p)
    /\ holder' = [holder EXCEPT ![b] = "none"]
    /\ \/ /\ my_free_list' = [my_free_list EXCEPT ![s] = <<b>> \o @]
          /\ my_return_list' = my_return_list /\ s = p
       \/ /\ my_return_list' = [my_return_list EXCEPT ![s] = <<b>> \o @]
          /\ my_free_list' = my_free_list /\ ~plugged[s]
    /\ \A u \in Scheduler : u # p => pc'[u] = pc[u]
    /\ pc[p].at \in Working /\ pc[p].at # "take back"
    /\ \/ pc'[p].at = "run"
       \/ /\ pc'[p].at = "empty lists" /\ \A c \in Block : holder[c] # p
          /\ holder[b] = "dummy"

\* A block that is put on a list of its owner is in one place again: there.
LEMMA BlockListed ==
    ASSUME SmallTypes, Blocks, NEW p \in Scheduler, NEW b \in Block, NEW s \in Scheduler,
           Lists(p, b, s)
    PROVE  Blocks'
<1>0. /\ holder \in [Block -> Scheduler \cup {"none", "dummy"}]
      /\ holder'[b] = "none" /\ \A c \in Block : c # b => holder'[c] = holder[c]
      /\ holder[b] # "none"
  BY Sentinels DEF SmallTypes, Lists
<1>1. /\ my_free_list \in [Scheduler -> Seq(Block)] /\ my_return_list \in [Scheduler -> Seq(Block)]
      /\ origin' = origin /\ origin[b] = s /\ plugged' = plugged
  BY DEF SmallTypes, Lists
<1>2. \A u \in Scheduler : b \notin InLists(u)
  BY <1>0, BlocksAre
<1>3. \A u \in Scheduler : Apart(u) /\ Controlled(u)
  BY BlocksAre
<1>4. /\ InLists(s)' = InLists(s) \cup {b} /\ Apart(s)'
      /\ \A u \in Scheduler : u # s => /\ my_free_list'[u] = my_free_list[u]
                                       /\ my_return_list'[u] = my_return_list[u]
      /\ \/ s = p /\ my_return_list'[s] = my_return_list[s]
         \/ /\ my_free_list'[s] = my_free_list[s] /\ my_return_list'[s] # <<>>
            /\ ~plugged[s]
  <2>0. b \notin Elems(my_free_list[s]) /\ b \notin Elems(my_return_list[s])
    BY <1>2 DEF InLists
  <2>1. CASE /\ my_free_list' = [my_free_list EXCEPT ![s] = <<b>> \o @]
             /\ my_return_list' = my_return_list /\ s = p
    <3>1. /\ Distinct(<<b>> \o my_free_list[s])
          /\ Elems(<<b>> \o my_free_list[s]) = Elems(my_free_list[s]) \cup {b}
      BY <1>1, <1>3, <2>0, PushFront DEF Apart
    <3>2. /\ my_free_list'[s] = <<b>> \o my_free_list[s]
          /\ \A u \in Scheduler : u # s => my_free_list'[u] = my_free_list[u]
      BY <1>1, <2>1
    <3>3. Apart(s)'
      BY <1>3, <2>0, <2>1, <3>1, <3>2 DEF Apart
    <3>4. InLists(s)' = InLists(s) \cup {b}
      BY <2>1, <3>1, <3>2 DEF InLists
    <3> QED
      BY <2>1, <3>2, <3>3, <3>4
  <2>2. CASE /\ my_return_list' = [my_return_list EXCEPT ![s] = <<b>> \o @]
             /\ my_free_list' = my_free_list /\ ~plugged[s]
    <3>1. /\ Distinct(<<b>> \o my_return_list[s]) /\ <<b>> \o my_return_list[s] \in Seq(Block)
          /\ Elems(<<b>> \o my_return_list[s]) = Elems(my_return_list[s]) \cup {b}
      BY <1>1, <1>3, <2>0, PushFront DEF Apart
    <3>2. /\ my_return_list'[s] = <<b>> \o my_return_list[s]
          /\ \A u \in Scheduler : u # s => my_return_list'[u] = my_return_list[u]
      BY <1>1, <2>2
    <3>3. my_return_list'[s] # <<>>
      BY <3>1, <3>2, ElemsBlocks
    <3>4. Apart(s)'
      BY <1>3, <2>0, <2>2, <3>1, <3>2 DEF Apart
    <3>5. InLists(s)' = InLists(s) \cup {b}
      BY <2>2, <3>1, <3>2 DEF InLists
    <3> QED
      BY <2>2, <3>2, <3>3, <3>4, <3>5
  <2> QED
    BY <2>1, <2>2 DEF Lists
<1>5. \A u \in Scheduler : u # s => InLists(u)' = InLists(u) /\ Apart(u)'
  BY <1>3, <1>4 DEF InLists, Apart
<1>6. \A u \in Scheduler : \A c \in InLists(u)' : origin'[c] = u /\ holder'[c] = "none"
  <2>1. ASSUME NEW u \in Scheduler, NEW c \in InLists(u)', c # b
        PROVE  origin'[c] = u /\ holder'[c] = "none"
    <3>1. c \in InLists(u)
      BY <1>4, <1>5, <2>1
    <3>2. c \in Block
      BY <1>1, <3>1, ElemsBlocks DEF InLists
    <3>3. origin[c] = u /\ holder[c] = "none"
      BY <3>1, BlocksAre
    <3> QED
      BY <1>0, <1>1, <2>1, <3>2, <3>3
  <2>2. \A u \in Scheduler : b \in InLists(u)' => u = s
    BY <1>2, <1>5
  <2> QED
    BY <1>0, <1>1, <2>1, <2>2
<1>7. ASSUME NEW c \in Block
      PROVE  WellPlaced(c)'
  <2>1. CASE c = b
    BY <1>0, <1>1, <1>4, <2>1, Sentinels DEF WellPlaced
  <2>2. CASE c # b
    <3>1. origin'[c] = origin[c] /\ holder'[c] = holder[c]
      BY <1>0, <1>1, <2>2
    <3>2. origin[c] # "heap" => origin[c] \in Scheduler
      BY DEF SmallTypes
    <3>3. WellPlaced(c)
      BY BlocksAre
    <3>4. \A u \in Scheduler : c \in InLists(u) => c \in InLists(u)'
      BY <1>4, <1>5
    <3>5. holder[c] \in Scheduler => pc'[holder[c]].at \in Working
      BY <3>3 DEF WellPlaced, Lists, Working
    <3>6. holder[c] = "dummy" => pc'[origin[c]].at \in Working
      <4>1. CASE pc'[p].at = "run"
        BY <3>2, <3>3, <4>1 DEF WellPlaced, Lists, Working
      <4>2. CASE holder[b] = "dummy" /\ s = p
        <5>1. holder[c] = "dummy" => origin[c] # p
          BY <1>1, <2>2, <4>2 DEF Blocks, OneDummy
        <5> QED
          BY <3>2, <3>3, <5>1 DEF WellPlaced, Lists
      <4> QED
        BY <4>1, <4>2, Sentinels DEF Lists
    <3> QED
      BY <3>1, <3>2, <3>3, <3>4, <3>5, <3>6 DEF WellPlaced
  <2> QED
    BY <2>1, <2>2
<1>8. OneDummy'
  <2>1. \A c \in Block : holder'[c] = "dummy" => holder[c] = "dummy" /\ origin'[c] = origin[c]
    BY <1>0, <1>1
  <2> QED
    BY <2>1 DEF Blocks, OneDummy
<1>9. ASSUME NEW u \in Scheduler
      PROVE  Controlled(u)'
  <2>1. CASE u # p
    <3>1. pc'[u] = pc[u] /\ plugged'[u] = plugged[u]
      BY <2>1 DEF Lists
    <3>2. pc[u].at \in Returning => pc[u].block \in Block /\ holder[pc[u].block] = u
      BY <1>3 DEF Controlled
    <3>3. holder[b] # u
      BY <2>1, Sentinels DEF Lists
    <3>4. pc'[u].at \in Returning => pc'[u].block \in Block /\ holder'[pc'[u].block] = u
      BY <1>0, <3>1, <3>2, <3>3
    <3>5. CASE u # s
      BY <1>3, <1>4, <3>1, <3>4, <3>5 DEF Controlled
    <3>6. CASE u = s
      BY <1>3, <1>4, <2>1, <3>1, <3>4, <3>6 DEF Controlled
    <3> QED
      BY <3>5, <3>6
  <2>2. CASE u = p
    <3>1. pc'[p].at \in {"run", "empty lists"} /\ pc[p].at \in Working /\ plugged' = plugged
      BY DEF Lists
    <3>2. ~plugged[p]
      BY <1>3, <3>1 DEF Controlled
    <3>3. pc'[p].at \notin Returning /\ pc'[p].at \notin {"take back", "give up", "gone"}
      BY <3>1 DEF Returning
    <3> QED
      BY <2>2, <3>1, <3>2, <3>3 DEF Controlled
  <2> QED
    BY <2>1, <2>2
<1>10. \A u \in Scheduler : Apart(u)'
  BY <1>4, <1>5
<1> QED
  BY <1>6, <1>7, <1>8, <1>9, <1>10, BlocksWere

\* deallocate: the block goes to the heap, from a hand.
LEMMA BlockDeallocated ==
    ASSUME SmallTypes, Blocks, NEW p \in Scheduler, deallocate(p)
    PROVE  Blocks'
<1> DEFINE b == pc[p].block
<1>0. /\ origin \in [Block -> Scheduler \cup {"heap"}]
      /\ holder \in [Block -> Scheduler \cup {"none", "dummy"}]
      /\ pc \in [Scheduler -> [at : Places, block : Block \cup {NoBlock}]]
  BY DEF SmallTypes
<1>1. \A s \in Scheduler : Controlled(s) /\ Apart(s)
  BY BlocksAre
<1>2. b \in Block /\ holder[b] = p /\ pc[p].at = "deallocate" /\ ~plugged[p]
  BY <1>1 DEF deallocate, Controlled, Returning, Working
<1>3. /\ origin' = [origin EXCEPT ![b] = "heap"] /\ holder' = [holder EXCEPT ![b] = "none"]
      /\ UNCHANGED <<my_free_list, my_return_list, plugged>>
      /\ pc' = [pc EXCEPT ![p] = [at |-> "run", block |-> NoBlock]]
  BY DEF deallocate, Goto
<1> HIDE DEF b
<1>4. /\ origin'[b] = "heap" /\ holder'[b] = "none" /\ pc'[p].at = "run"
      /\ \A c \in Block : c # b => origin'[c] = origin[c] /\ holder'[c] = holder[c]
      /\ \A s \in Scheduler : s # p => pc'[s] = pc[s]
  BY <1>0, <1>2, <1>3
<1>5. \A s \in Scheduler : InLists(s)' = InLists(s) /\ Apart(s)'
  BY <1>1, <1>3 DEF InLists, Apart
<1>6. \A s \in Scheduler : \A c \in InLists(s)' : origin'[c] = s /\ holder'[c] = "none"
  <2>1. ASSUME NEW s \in Scheduler, NEW c \in InLists(s)
        PROVE  origin'[c] = s /\ holder'[c] = "none"
    <3>1. c \in Block
      BY ElemsBlocks DEF InLists, SmallTypes
    <3>2. origin[c] = s /\ holder[c] = "none"
      BY BlocksAre
    <3>3. c # b
      BY <1>2, <3>2, Sentinels
    <3> QED
      BY <1>4, <3>1, <3>2, <3>3
  <2> QED
    BY <1>5, <2>1
<1>7. ASSUME NEW c \in Block
      PROVE  WellPlaced(c)'
  <2>1. CASE c = b
    BY <1>4, <2>1, Sentinels DEF WellPlaced
  <2>2. CASE c # b
    <3>1. origin'[c] = origin[c] /\ holder'[c] = holder[c]
      BY <1>4, <2>2
    <3>2. origin[c] # "heap" => origin[c] \in Scheduler
      BY <1>0
    <3>3. WellPlaced(c)
      BY BlocksAre
    <3>4. \A s \in Scheduler : pc[s].at \in Working => pc'[s].at \in Working
      BY <1>4 DEF Working
    <3> QED
      BY <1>5, <3>1, <3>2, <3>3, <3>4 DEF WellPlaced
  <2> QED
    BY <2>1, <2>2
<1>8. OneDummy'
  <2>1. \A c \in Block : holder'[c] = "dummy" => holder[c] = "dummy" /\ origin'[c] = origin[c]
    BY <1>4
  <2> QED
    BY <2>1 DEF Blocks, OneDummy
<1>9. ASSUME NEW u \in Scheduler
      PROVE  Controlled(u)'
  <2>1. CASE u # p
    <3>1. pc[u].at \in Returning => pc[u].block \in Block /\ holder[pc[u].block] = u
      BY <1>1 DEF Controlled
    <3>2. pc[u].at \in Returning => pc[u].block \in Block /\ holder'[pc[u].block] = u
      BY <1>2, <1>4, <2>1, <3>1
    <3> QED
      BY <1>1, <1>3, <1>4, <2>1, <3>2 DEF Controlled
  <2>2. CASE u = p
    BY <1>1, <1>2, <1>3, <1>4, <2>2 DEF Controlled, Returning
  <2> QED
    BY <2>1, <2>2
<1> QED
  BY <1>5, <1>6, <1>7, <1>8, <1>9, BlocksWere

\* The loop of free_scheduler: the blocks of the free list go to the heap.
LEMMA ListsEmptied ==
    ASSUME SmallTypes, Blocks, NEW p \in Scheduler, emptyLists(p)
    PROVE  Blocks'
<1> DEFINE out == Elems(my_free_list[p])
<1>0. /\ origin \in [Block -> Scheduler \cup {"heap"}]
      /\ holder \in [Block -> Scheduler \cup {"none", "dummy"}]
      /\ pc \in [Scheduler -> [at : Places, block : Block \cup {NoBlock}]]
      /\ my_free_list \in [Scheduler -> Seq(Block)]
      /\ my_return_list \in [Scheduler -> Seq(Block)]
      /\ plugged \in [Scheduler -> BOOLEAN]
  BY DEF SmallTypes
<1>1. \A s \in Scheduler : Controlled(s) /\ Apart(s)
  BY BlocksAre
<1>2. /\ pc[p].at = "empty lists" /\ UNCHANGED holder
      /\ origin' = [b \in Block |-> IF b \in out THEN "heap" ELSE origin[b]]
      /\ my_free_list' = [my_free_list EXCEPT ![p] = IF plugged[p] THEN <<>>
                                                      ELSE my_return_list[p]]
      /\ my_return_list' = [my_return_list EXCEPT ![p] = <<>>]
      /\ plugged' = [plugged EXCEPT ![p] = TRUE]
      /\ pc' = [pc EXCEPT ![p] = [at |-> IF plugged[p] THEN "give up" ELSE "empty lists",
                                  block |-> NoBlock]]
  BY DEF emptyLists, Goto, Elems
<1>3. plugged[p] => my_return_list[p] = <<>>
  BY <1>1 DEF Controlled
<1>4. /\ my_free_list'[p] = my_return_list[p] /\ my_return_list'[p] = <<>> /\ plugged'[p]
      /\ pc'[p].at = IF plugged[p] THEN "give up" ELSE "empty lists"
      /\ \A s \in Scheduler : s # p => /\ my_free_list'[s] = my_free_list[s]
                                       /\ my_return_list'[s] = my_return_list[s]
                                       /\ plugged'[s] = plugged[s] /\ pc'[s] = pc[s]
  BY <1>0, <1>2, <1>3
<1> HIDE DEF out
<1>5. \A b \in Block : origin'[b] = IF b \in out THEN "heap" ELSE origin[b]
  BY <1>2
<1>6. \A b \in out : b \in Block /\ origin[b] = p /\ holder[b] = "none"
  <2>1. out \subseteq Block /\ out \subseteq InLists(p)
    BY <1>0, ElemsBlocks DEF out, InLists
  <2> QED
    BY <2>1, BlocksAre
<1>7. /\ \A s \in Scheduler : Apart(s)'
      /\ InLists(p)' = InLists(p) \ out
      /\ \A s \in Scheduler : s # p => InLists(s)' = InLists(s)
  BY <1>1, <1>4, EmptyList DEF Apart, InLists, out
<1>8. \A s \in Scheduler : \A c \in InLists(s)' : origin'[c] = s /\ holder'[c] = "none"
  <2>1. ASSUME NEW s \in Scheduler, NEW c \in InLists(s)'
        PROVE  origin'[c] = s /\ holder'[c] = "none"
    <3>1. c \in InLists(s)
      BY <1>7, <2>1
    <3>2. origin[c] = s /\ holder[c] = "none" /\ c \in Block
      BY <1>0, <3>1, BlocksAre, ElemsBlocks DEF InLists
    <3>3. c \notin out
      BY <1>6, <1>7, <2>1, <3>2
    <3> QED
      BY <1>2, <1>5, <3>2, <3>3
  <2> QED
    BY <2>1
<1>9. ASSUME NEW c \in Block
      PROVE  WellPlaced(c)'
  <2>1. CASE c \in out
    BY <1>2, <1>5, <1>6, <2>1, Sentinels DEF WellPlaced
  <2>2. CASE c \notin out
    <3>1. origin'[c] = origin[c] /\ holder'[c] = holder[c]
      BY <1>2, <1>5, <2>2
    <3>2. origin[c] # "heap" => origin[c] \in Scheduler
      BY <1>0
    <3>3. WellPlaced(c)
      BY BlocksAre
    <3>4. \A s \in Scheduler : pc[s].at \in Working => pc'[s].at \in Working
      BY <1>2, <1>4 DEF Working
    <3>5. \A s \in Scheduler : c \in InLists(s) => c \in InLists(s)'
      BY <1>7, <2>2
    <3> QED
      BY <3>1, <3>2, <3>3, <3>4, <3>5, Sentinels DEF WellPlaced
  <2> QED
    BY <2>1, <2>2
<1>10. OneDummy'
  <2>1. \A c \in Block : holder'[c] = "dummy" => holder[c] = "dummy" /\ origin'[c] = origin[c]
    BY <1>2, <1>5, <1>6, Sentinels
  <2> QED
    BY <2>1 DEF Blocks, OneDummy
<1>11. ASSUME NEW u \in Scheduler
      PROVE  Controlled(u)'
  <2>1. CASE u # p
    <3>1. /\ my_free_list'[u] = my_free_list[u] /\ my_return_list'[u] = my_return_list[u]
          /\ plugged'[u] = plugged[u] /\ pc'[u] = pc[u] /\ holder' = holder
      BY <1>2, <1>4, <2>1
    <3>2. Controlled(u)
      BY <1>1
    <3> QED
      BY <3>1, <3>2 DEF Controlled
  <2>2. CASE u = p
    <3>1. /\ pc'[p].at \in {"give up", "empty lists"}
          /\ pc'[p].at = "give up" => my_free_list'[p] = <<>>
          /\ plugged'[p] /\ my_return_list'[p] = <<>>
      BY <1>3, <1>4
    <3>2. pc'[p].at \notin Returning /\ pc'[p].at \notin Working
          /\ pc'[p].at # "take back" /\ pc'[p].at # "gone"
      BY <3>1 DEF Returning, Working
    <3> QED
      BY <2>2, <3>1, <3>2 DEF Controlled
  <2> QED
    BY <2>1, <2>2
<1> QED
  BY <1>7, <1>8, <1>9, <1>10, <1>11, BlocksWere

\* Every step keeps the types.
LEMMA TypesStep ==
    ASSUME SmallTypes, Blocks, NEW p \in Scheduler,
           step(p) \/ \E q \in Scheduler : steal(p, q)
    PROVE  SmallTypes'
<1>0. /\ origin \in [Block -> Scheduler \cup {"heap"}]
      /\ holder \in [Block -> Scheduler \cup {"none", "dummy"}]
      /\ my_free_list \in [Scheduler -> Seq(Block)]
      /\ my_return_list \in [Scheduler -> Seq(Block)]
      /\ plugged \in [Scheduler -> BOOLEAN]
      /\ memory \in [Scheduler -> {"live", "freed"}]
      /\ pc \in [Scheduler -> [at : Places, block : Block \cup {NoBlock}]]
      /\ old \in [Scheduler -> Seq(Block)]
      /\ k \in [Scheduler -> Nat]
  BY DEF SmallTypes
<1>1. \A s \in Scheduler : Controlled(s)
  BY BlocksAre
<1>2. ASSUME NEW l \in Places, NEW b \in Block \cup {NoBlock}, Goto(p, l, b)
      PROVE  pc' \in [Scheduler -> [at : Places, block : Block \cup {NoBlock}]]
  BY <1>0, <1>2 DEF Goto
<1>3. /\ "run" \in Places /\ "take back" \in Places /\ "read list" \in Places
      /\ "swap list" \in Places /\ "deallocate" \in Places /\ "empty lists" \in Places
      /\ "give up" \in Places /\ "gone" \in Places
  BY DEF Places
<1>4. \A s \in Scheduler : my_free_list[s] # <<>> =>
          Head(my_free_list[s]) \in Block /\ Tail(my_free_list[s]) \in Seq(Block)
  <2>1. \A s \in Scheduler : my_free_list[s] \in Seq(Block)
    BY <1>0
  <2> QED
    BY <2>1
<1>5. \A s \in Scheduler : my_return_list[s] # <<>> =>
          Head(my_return_list[s]) \in Block /\ Tail(my_return_list[s]) \in Seq(Block)
  <2>1. \A s \in Scheduler : my_return_list[s] \in Seq(Block)
    BY <1>0
  <2> QED
    BY <2>1
<1>6. CASE allocate_task(p)
  <2>1. CASE /\ my_free_list[p] # <<>>
             /\ holder' = [holder EXCEPT ![Head(my_free_list[p])] = p]
             /\ my_free_list' = [my_free_list EXCEPT ![p] = Tail(@)]
             /\ UNCHANGED <<origin, my_small_task_count, pc>>
    BY <1>0, <1>4, <1>6, <2>1 DEF allocate_task, SmallTypes
  <2>2. CASE /\ Goto(p, "take back", NoBlock)
             /\ UNCHANGED <<origin, holder, my_free_list, my_small_task_count>>
    BY <1>0, <1>2, <1>3, <1>6, <2>2 DEF allocate_task, SmallTypes
  <2>3. ASSUME NEW b \in Block, origin' = [origin EXCEPT ![b] = p],
               holder' = [holder EXCEPT ![b] = p], UNCHANGED <<my_free_list, pc>>
        PROVE  SmallTypes'
    BY <1>0, <1>6, <2>3 DEF allocate_task, SmallTypes
  <2> QED
    BY <1>6, <2>1, <2>2, <2>3 DEF allocate_task
<1>7. CASE takeBack(p)
  <2>1. my_return_list[p] # <<>>
    BY <1>1, <1>7 DEF takeBack, Controlled
  <2> QED
    BY <1>0, <1>2, <1>3, <1>5, <1>7, <2>1, EmptyList DEF takeBack, SmallTypes
<1>8. CASE free_task(p)
  <2>1. PICK b \in Block : /\ holder[b] = p
             /\ \/ /\ my_free_list' = [my_free_list EXCEPT ![p] = <<b>> \o @]
                   /\ holder' = [holder EXCEPT ![b] = "none"] /\ pc' = pc
                \/ /\ Goto(p, "read list", b) /\ UNCHANGED <<my_free_list, holder>>
    BY <1>8 DEF free_task
  <2>2. <<b>> \o my_free_list[p] \in Seq(Block)
    BY <1>0
  <2>3. my_free_list' \in [Scheduler -> Seq(Block)]
    BY <1>0, <2>1, <2>2
  <2>4. pc' \in [Scheduler -> [at : Places, block : Block \cup {NoBlock}]]
    BY <1>0, <1>2, <1>3, <2>1
  <2>5. holder' \in [Block -> Scheduler \cup {"none", "dummy"}]
    BY <1>0, <2>1
  <2> QED
    BY <1>0, <1>8, <2>3, <2>4, <2>5 DEF free_task, SmallTypes
<1>9. CASE readList(p)
  <2>1. pc[p].block \in Block /\ holder[pc[p].block] = p
    BY <1>1, <1>9 DEF readList, Controlled, Returning
  <2>2. Home(p) \in Scheduler
    BY <1>0, <2>1, Sentinels, BlocksAre DEF Home, WellPlaced
  <2>3. old' \in [Scheduler -> Seq(Block)]
    BY <1>0, <1>9, <2>2, EmptyList DEF readList
  <2>4. pc' \in [Scheduler -> [at : Places, block : Block \cup {NoBlock}]]
    BY <1>2, <1>3, <1>9, <2>1 DEF readList
  <2> QED
    BY <1>0, <1>9, <2>3, <2>4 DEF readList, SmallTypes
<1>10. CASE swapList(p)
  <2>1. pc[p].block \in Block /\ holder[pc[p].block] = p
    BY <1>1, <1>10 DEF swapList, Controlled, Returning
  <2>2. <<pc[p].block>> \o old[p] \in Seq(Block)
    BY <1>0, <2>1
  <2>3. my_return_list' \in [Scheduler -> Seq(Block)]
    BY <1>0, <1>10, <2>2 DEF swapList
  <2>4. holder' \in [Block -> Scheduler \cup {"none", "dummy"}]
    BY <1>0, <1>10 DEF swapList
  <2>5. pc' \in [Scheduler -> [at : Places, block : Block \cup {NoBlock}]]
    BY <1>2, <1>3, <1>10, <2>1 DEF swapList
  <2>6. old' \in [Scheduler -> Seq(Block)]
    BY <1>0, <1>10, EmptyList DEF swapList
  <2> QED
    BY <1>0, <1>10, <2>3, <2>4, <2>5, <2>6 DEF swapList, SmallTypes
<1>11. CASE deallocate(p)
  <2>1. pc' \in [Scheduler -> [at : Places, block : Block \cup {NoBlock}]]
    BY <1>2, <1>3, <1>11 DEF deallocate
  <2>2. memory' \in [Scheduler -> {"live", "freed"}]
    BY <1>0, <1>11 DEF deallocate
  <2>3. /\ origin' \in [Block -> Scheduler \cup {"heap"}]
        /\ holder' \in [Block -> Scheduler \cup {"none", "dummy"}]
    BY <1>0, <1>11 DEF deallocate
  <2> QED
    BY <1>0, <1>11, <2>1, <2>2, <2>3 DEF deallocate, SmallTypes
<1>12. CASE free_scheduler(p)
  <2>1. PICK b \in Block : /\ my_free_list' = [my_free_list EXCEPT ![p] = <<b>> \o @]
                           /\ holder' = [holder EXCEPT ![b] = "none"]
    BY <1>12 DEF free_scheduler
  <2>2. <<b>> \o my_free_list[p] \in Seq(Block)
    BY <1>0
  <2>3. /\ my_free_list' \in [Scheduler -> Seq(Block)]
        /\ holder' \in [Block -> Scheduler \cup {"none", "dummy"}]
    BY <1>0, <2>1, <2>2
  <2>4. pc' \in [Scheduler -> [at : Places, block : Block \cup {NoBlock}]]
    BY <1>2, <1>3, <1>12 DEF free_scheduler
  <2>5. k' \in [Scheduler -> Nat]
    BY <1>0, <1>12 DEF free_scheduler
  <2> QED
    BY <1>0, <1>12, <2>3, <2>4, <2>5 DEF free_scheduler, SmallTypes
<1>13. CASE emptyLists(p)
  <2> DEFINE out == {my_free_list[p][i] : i \in DOMAIN my_free_list[p]}
  <2>1. IsFiniteSet(out) /\ Cardinality(out) \in Nat
    <3>1. out \subseteq Block
      BY <1>0, ElemsBlocks DEF Elems
    <3> QED
      BY <3>1, BlockAssumption, FS_Subset, FS_CardinalityType
  <2>2. k' = [k EXCEPT ![p] = @ + Cardinality(out)]
    BY <1>13 DEF emptyLists
  <2>3. k' \in [Scheduler -> Nat]
    <3> HIDE DEF out
    <3> QED
      BY <1>0, <2>1, <2>2
  <2>4. origin' \in [Block -> Scheduler \cup {"heap"}]
    BY <1>0, <1>13 DEF emptyLists
  <2>5. /\ my_free_list' \in [Scheduler -> Seq(Block)]
        /\ my_return_list' \in [Scheduler -> Seq(Block)]
        /\ plugged' \in [Scheduler -> BOOLEAN]
    BY <1>0, <1>13, EmptyList DEF emptyLists
  <2>6. pc' \in [Scheduler -> [at : Places, block : Block \cup {NoBlock}]]
    BY <1>2, <1>3, <1>13 DEF emptyLists
  <2> QED
    BY <1>0, <1>13, <2>3, <2>4, <2>5, <2>6 DEF emptyLists, SmallTypes
<1>14. CASE giveUp(p)
  BY <1>0, <1>2, <1>3, <1>14 DEF giveUp, SmallTypes
<1>15. ASSUME NEW q \in Scheduler, steal(p, q)
       PROVE  SmallTypes'
  BY <1>0, <1>15 DEF steal, SmallTypes
<1> QED
  BY <1>6, <1>7, <1>8, <1>9, <1>10, <1>11, <1>12, <1>13, <1>14, <1>15 DEF step

\* Every step keeps blocks and threads where they should be.
LEMMA BlocksStep ==
    ASSUME SmallTypes, Blocks, NEW p \in Scheduler,
           step(p) \/ \E q \in Scheduler : steal(p, q)
    PROVE  Blocks'
<1>0. /\ origin \in [Block -> Scheduler \cup {"heap"}]
      /\ holder \in [Block -> Scheduler \cup {"none", "dummy"}]
      /\ my_free_list \in [Scheduler -> Seq(Block)]
      /\ my_return_list \in [Scheduler -> Seq(Block)]
      /\ pc \in [Scheduler -> [at : Places, block : Block \cup {NoBlock}]]
  BY DEF SmallTypes
<1>1. \A s \in Scheduler : Controlled(s) /\ Apart(s)
  BY BlocksAre
<1>2. \A b \in Block : WellPlaced(b)
  BY BlocksAre
<1>3. \A s \in Scheduler : \A b \in InLists(s) : origin[b] = s /\ holder[b] = "none"
  BY BlocksAre
<1>4. ASSUME NEW l, NEW b, Goto(p, l, b)
      PROVE  pc'[p].at = l /\ pc'[p].block = b /\ \A s \in Scheduler : s # p => pc'[s] = pc[s]
  BY <1>0, <1>4 DEF Goto
<1>5. \A b \in Block : holder[b] \in Scheduler \/ holder[b] = "dummy" =>
          origin[b] \in Scheduler /\ \A s \in Scheduler : b \notin InLists(s)
  BY <1>0, <1>2, <1>3, Sentinels DEF WellPlaced
<1>a. ASSUME NEW b, holder[b] = "none", NEW s \in Scheduler, pc[s].at \in Returning
      PROVE  pc[s].block # b
  <2>1. holder[pc[s].block] = s
    BY <1>1, <1>a DEF Controlled
  <2> QED
    BY <1>a, <2>1, Sentinels
<1>6. CASE allocate_task(p)
  <2>1. ASSUME my_free_list[p] # <<>>,
               holder' = [holder EXCEPT ![Head(my_free_list[p])] = p],
               my_free_list' = [my_free_list EXCEPT ![p] = Tail(@)],
               UNCHANGED <<origin, pc>>
        PROVE  Blocks'
    <3> DEFINE b == Head(my_free_list[p])
    <3>1. /\ b \in Block /\ b \in Elems(my_free_list[p]) /\ Distinct(Tail(my_free_list[p]))
          /\ Elems(Tail(my_free_list[p])) = Elems(my_free_list[p]) \ {b}
      BY <1>0, <1>1, <2>1, PopFront DEF Apart
    <3>2. /\ my_free_list'[p] = Tail(my_free_list[p])
          /\ \A s \in Scheduler : s # p => my_free_list'[s] = my_free_list[s]
      BY <1>0, <2>1
    <3>3. UNCHANGED <<my_return_list, plugged>> /\ pc[p].at = "run"
      BY <1>6 DEF allocate_task, Running
    <3> HIDE DEF b
    <3>4. b \in InLists(p) /\ origin[b] = p /\ holder[b] = "none"
      BY <1>3, <3>1 DEF InLists
    <3>5. \A s \in Scheduler : s # p => b \notin InLists(s)
      BY <1>3, <3>4
    <3>6. b \notin Elems(my_return_list[p])
      BY <1>1, <3>1 DEF Apart
    <3>7. \A s \in Scheduler : InLists(s)' = InLists(s) \ {b} /\ Apart(s)'
      BY <1>1, <3>1, <3>2, <3>3, <3>5, <3>6 DEF Apart, InLists
    <3>8. \A s \in Scheduler : pc[s].at \in Returning => pc[s].block # b
      BY <1>a, <3>4
    <3>9. holder' = [holder EXCEPT ![b] = p] /\ UNCHANGED <<origin, pc>>
      BY <2>1 DEF b
    <3>10. Takes(p, b, p)
      BY <3>2, <3>3, <3>4, <3>7, <3>8, <3>9 DEF Takes, Working
    <3> QED
      BY <3>1, <3>10, BlockTaken
  <2>2. ASSUME my_free_list[p] = <<>>, my_return_list[p] # <<>>,
               Goto(p, "take back", NoBlock), UNCHANGED <<origin, holder, my_free_list>>
        PROVE  Blocks'
    <3>1. UNCHANGED <<my_return_list, plugged>> /\ pc[p].at = "run"
      BY <1>6 DEF allocate_task, Running
    <3>2. pc'[p].at = "take back" /\ \A s \in Scheduler : s # p => pc'[s] = pc[s]
      BY <1>4, <2>2
    <3>3. ~plugged[p]
      BY <1>1, <3>1 DEF Controlled, Working
    <3>4. Stays(p)
      BY <2>2, <3>1, <3>2, <3>3 DEF Stays, Working, Returning
    <3> QED
      BY <3>4, BlocksStay
  <2>3. ASSUME NEW b \in Block, origin[b] = "heap", origin' = [origin EXCEPT ![b] = p],
               holder' = [holder EXCEPT ![b] = p], UNCHANGED <<my_free_list, pc>>
        PROVE  Blocks'
    <3>1. UNCHANGED <<my_return_list, plugged>> /\ pc[p].at = "run"
      BY <1>6 DEF allocate_task, Running
    <3>2. holder[b] = "none"
      BY <1>2, <2>3 DEF WellPlaced
    <3>3. \A s \in Scheduler : b \notin InLists(s)
      BY <1>3, <2>3, Sentinels
    <3>4. \A s \in Scheduler : InLists(s)' = InLists(s) \ {b} /\ Apart(s)'
      BY <1>1, <2>3, <3>1, <3>3 DEF InLists, Apart
    <3>5. \A s \in Scheduler : pc[s].at \in Returning => pc[s].block # b
      BY <1>a, <3>2
    <3>6. origin'[b] = p /\ \A c \in Block : c # b => origin'[c] = origin[c]
      BY <1>0, <2>3
    <3>7. Takes(p, b, p)
      BY <2>3, <3>1, <3>2, <3>4, <3>5, <3>6 DEF Takes, Working
    <3> QED
      BY <3>7, BlockTaken
  <2> QED
    BY <1>6, <2>1, <2>2, <2>3 DEF allocate_task
<1>7. CASE takeBack(p)
  <2> DEFINE l == my_return_list[p]
             b == Head(l)
  <2>1. pc[p].at = "take back" /\ my_free_list[p] = <<>> /\ l # <<>>
    BY <1>1, <1>7 DEF takeBack, Controlled
  <2>2. /\ b \in Block /\ b \in Elems(l) /\ Distinct(Tail(l))
        /\ Elems(Tail(l)) = Elems(l) \ {b}
    BY <1>0, <1>1, <2>1, PopFront DEF Apart
  <2>3. /\ holder' = [holder EXCEPT ![b] = p]
        /\ my_free_list' = [my_free_list EXCEPT ![p] = Tail(l)]
        /\ my_return_list' = [my_return_list EXCEPT ![p] = <<>>]
        /\ Goto(p, "run", NoBlock) /\ UNCHANGED <<origin, plugged>>
    BY <1>7 DEF takeBack
  <2>4. /\ my_free_list'[p] = Tail(l) /\ my_return_list'[p] = <<>>
        /\ \A s \in Scheduler : s # p => /\ my_free_list'[s] = my_free_list[s]
                                         /\ my_return_list'[s] = my_return_list[s]
    BY <1>0, <2>3
  <2>5. pc'[p].at = "run" /\ \A s \in Scheduler : s # p => pc'[s] = pc[s]
    BY <1>4, <2>3
  <2> HIDE DEF b
  <2>6. b \in InLists(p) /\ origin[b] = p /\ holder[b] = "none"
    BY <1>3, <2>2 DEF InLists
  <2>7. \A s \in Scheduler : s # p => b \notin InLists(s)
    BY <1>3, <2>6
  <2>8. \A s \in Scheduler : InLists(s)' = InLists(s) \ {b} /\ Apart(s)'
    <3>1. InLists(p)' = InLists(p) \ {b} /\ Apart(p)'
      BY <2>1, <2>2, <2>4, EmptyList DEF InLists, Apart
    <3>2. \A s \in Scheduler : s # p => InLists(s)' = InLists(s) \ {b} /\ Apart(s)'
      BY <1>1, <2>4, <2>7 DEF InLists, Apart
    <3> QED
      BY <3>1, <3>2
  <2>9. \A s \in Scheduler : pc'[s].at \in Returning => pc'[s].block # b /\ pc'[s] = pc[s]
    <3>1. \A s \in Scheduler : pc[s].at \in Returning => pc[s].block # b
      BY <1>a, <2>6
    <3> QED
      BY <2>5, <3>1 DEF Returning
  <2>10. Takes(p, b, p)
    BY <2>1, <2>3, <2>4, <2>5, <2>6, <2>8, <2>9, Sentinels DEF Takes, Working
  <2> QED
    BY <2>2, <2>10, BlockTaken
<1>8. CASE free_task(p)
  <2>1. PICK b \in Block : /\ holder[b] = p
             /\ \/ /\ my_free_list' = [my_free_list EXCEPT ![p] = <<b>> \o @] /\ origin[b] = p
                   /\ holder' = [holder EXCEPT ![b] = "none"] /\ pc' = pc
                \/ /\ Goto(p, "read list", b) /\ UNCHANGED <<my_free_list, holder>>
    BY <1>8 DEF free_task
  <2>2. UNCHANGED <<origin, my_return_list, plugged>> /\ pc[p].at = "run"
    BY <1>8 DEF free_task, Running
  <2>3. CASE /\ my_free_list' = [my_free_list EXCEPT ![p] = <<b>> \o @] /\ origin[b] = p
             /\ holder' = [holder EXCEPT ![b] = "none"] /\ pc' = pc
    <3>1. Lists(p, b, p)
      BY <2>1, <2>2, <2>3 DEF Lists, Working
    <3> QED
      BY <3>1, BlockListed
  <2>4. CASE Goto(p, "read list", b) /\ UNCHANGED <<my_free_list, holder>>
    <3>1. /\ pc'[p].at = "read list" /\ pc'[p].block = b
          /\ \A s \in Scheduler : s # p => pc'[s] = pc[s]
      BY <1>4, <2>4
    <3>2. ~plugged[p]
      BY <1>1, <2>2 DEF Controlled, Working
    <3>3. Stays(p)
      BY <2>1, <2>2, <2>4, <3>1, <3>2 DEF Stays, Working
    <3> QED
      BY <3>3, BlocksStay
  <2> QED
    BY <2>1, <2>3, <2>4
<1>9. CASE readList(p)
  <2>1. /\ pc[p].at = "read list" /\ ~plugged[p]
        /\ pc[p].block \in Block /\ holder[pc[p].block] = p
    BY <1>1, <1>9 DEF readList, Controlled, Returning, Working
  <2>2. UNCHANGED <<origin, holder, my_free_list, my_return_list, plugged>>
    BY <1>9 DEF readList
  <2>3. pc'[p].at \in {"swap list", "deallocate"} /\ pc'[p].block = pc[p].block
        /\ \A s \in Scheduler : s # p => pc'[s] = pc[s]
    BY <1>4, <1>9 DEF readList
  <2>4. Stays(p)
    BY <2>1, <2>2, <2>3 DEF Stays, Working
  <2> QED
    BY <2>4, BlocksStay
<1>10. CASE swapList(p)
  <2> DEFINE b == pc[p].block
             s == Home(p)
  <2>1. pc[p].at = "swap list" /\ ~plugged[p] /\ b \in Block /\ holder[b] = p
    BY <1>1, <1>10 DEF swapList, Controlled, Returning, Working
  <2>2. s \in Scheduler /\ origin[b] = s
    BY <1>5, <2>1 DEF Home
  <2>3. UNCHANGED <<origin, my_free_list, plugged>>
    BY <1>10 DEF swapList
  <2>4. CASE Unchanged(p)
    <3>1. /\ my_return_list' = [my_return_list EXCEPT ![s] = <<b>> \o old[p]]
          /\ my_return_list[s] = old[p] /\ ~plugged[s]
          /\ holder' = [holder EXCEPT ![b] = "none"] /\ Goto(p, "run", NoBlock)
      BY <1>10, <2>4 DEF swapList, Unchanged
    <3>2. my_return_list' = [my_return_list EXCEPT ![s] = <<b>> \o @]
      BY <1>0, <3>1
    <3>3. pc'[p].at = "run" /\ \A u \in Scheduler : u # p => pc'[u] = pc[u]
      BY <1>4, <3>1
    <3> HIDE DEF b, s
    <3>4. Lists(p, b, s)
      BY <2>1, <2>2, <2>3, <3>1, <3>2, <3>3 DEF Lists, Working
    <3> QED
      BY <2>1, <2>2, <3>4, BlockListed
  <2>5. CASE ~Unchanged(p)
    <3>1. Goto(p, "read list", b) /\ UNCHANGED <<my_return_list, holder>>
      BY <1>10, <2>5 DEF swapList
    <3>2. /\ pc'[p].at = "read list" /\ pc'[p].block = b
          /\ \A u \in Scheduler : u # p => pc'[u] = pc[u]
      BY <1>4, <3>1
    <3> HIDE DEF b
    <3>3. Stays(p)
      BY <2>1, <2>3, <3>1, <3>2 DEF Stays, Working
    <3> QED
      BY <3>3, BlocksStay
  <2> QED
    BY <2>4, <2>5
<1>11. CASE free_scheduler(p)
  <2>1. PICK b \in Block : /\ origin[b] = p /\ holder[b] = "dummy"
                           /\ my_free_list' = [my_free_list EXCEPT ![p] = <<b>> \o @]
                           /\ holder' = [holder EXCEPT ![b] = "none"]
    BY <1>11 DEF free_scheduler
  <2>2. /\ UNCHANGED <<origin, my_return_list, plugged>> /\ pc[p].at = "run"
        /\ \A c \in Block : holder[c] # p
        /\ Goto(p, "empty lists", NoBlock)
    BY <1>11 DEF free_scheduler, Running
  <2>3. pc'[p].at = "empty lists" /\ \A s \in Scheduler : s # p => pc'[s] = pc[s]
    BY <1>4, <2>2
  <2>4. Lists(p, b, p)
    BY <2>1, <2>2, <2>3 DEF Lists, Working
  <2> QED
    BY <2>4, BlockListed
<1>12. CASE giveUp(p)
  <2>1. /\ pc[p].at = "give up" /\ Goto(p, "gone", NoBlock)
        /\ UNCHANGED <<origin, holder, my_free_list, my_return_list, plugged>>
    BY <1>12 DEF giveUp
  <2>2. pc'[p].at = "gone" /\ \A s \in Scheduler : s # p => pc'[s] = pc[s]
    BY <1>4, <2>1
  <2>3. plugged[p] /\ my_free_list[p] = <<>>
    BY <1>1, <2>1 DEF Controlled
  <2>4. Stays(p)
    BY <2>1, <2>2, <2>3 DEF Stays, Working, Returning
  <2> QED
    BY <2>4, BlocksStay
<1>13. ASSUME NEW q \in Scheduler, steal(p, q)
       PROVE  Blocks'
  <2>1. PICK b \in Block : /\ holder[b] = p /\ pc[p].block # b
                           /\ holder' = [holder EXCEPT ![b] = q]
    BY <1>13 DEF steal
  <2>2. /\ UNCHANGED <<origin, my_free_list, my_return_list, plugged, pc>>
        /\ pc[q].at = "run"
    BY <1>13 DEF steal, Running
  <2>3. pc[p].at \in Working /\ origin[b] \in Scheduler /\ \A s \in Scheduler : b \notin InLists(s)
    BY <1>2, <1>5, <2>1 DEF WellPlaced
  <2>4. \A s \in Scheduler : InLists(s)' = InLists(s) \ {b} /\ Apart(s)'
    BY <1>1, <2>2, <2>3 DEF InLists, Apart
  <2>5. \A s \in Scheduler : pc[s].at \in Returning => pc[s].block # b
    BY <1>1, <2>1 DEF Controlled
  <2>6. Takes(p, b, q)
    BY <2>1, <2>2, <2>3, <2>4, <2>5, Sentinels DEF Takes, Working
  <2> QED
    BY <2>6, BlockTaken
<1> QED
  BY <1>6, <1>7, <1>8, <1>9, <1>10, <1>11, <1>12, <1>13, BlockDeallocated, ListsEmptied DEF step

\* The blocks of a scheduler can be counted.
LEMMA OwnFinite ==
    ASSUME NEW s \in Scheduler
    PROVE  IsFiniteSet(Own(s)) /\ Cardinality(Own(s)) \in Nat
<1>1. Own(s) \subseteq Block
  BY DEF Own
<1> QED
  BY <1>1, BlockAssumption, FS_Subset, FS_CardinalityType

\* Steps that leave the count and the scheduler's blocks alone.
LEMMA CountKept ==
    ASSUME NEW s \in Scheduler, CountOf(s), origin' = origin, Guard(s)' = Guard(s),
           my_small_task_count'[s] = my_small_task_count[s], memory'[s] = memory[s],
           pc'[s].at \in Ending => k'[s] > 0
    PROVE  CountOf(s)'
  BY DEF CountOf, Own

\* What the guard of a scheduler is worth depends on its thread alone.
LEMMA GuardWas ==
    ASSUME NEW s \in Scheduler
    PROVE  /\ pc[s].at \in Working => Guard(s) = 1
           /\ pc'[s].at \in Working => Guard(s)' = 1
           /\ pc'[s].at \in Working => pc'[s].at \notin Ending
           /\ pc'[s] = pc[s] /\ k'[s] = k[s] => Guard(s)' = Guard(s)
<1>1. \A x \in Working : x \notin Ending /\ x # "gone"
  BY DEF Working, Ending
<1> QED
  BY <1>1 DEF Guard

\* Every step keeps the counts: what is not in the count yet or still in it is
\* in the guard.
LEMMA CountedStep ==
    ASSUME SmallTypes, Blocks, Counted, NEW p \in Scheduler,
           step(p) \/ \E q \in Scheduler : steal(p, q)
    PROVE  Counted'
<1>0. /\ origin \in [Block -> Scheduler \cup {"heap"}]
      /\ holder \in [Block -> Scheduler \cup {"none", "dummy"}]
      /\ my_free_list \in [Scheduler -> Seq(Block)]
      /\ memory \in [Scheduler -> {"live", "freed"}]
      /\ pc \in [Scheduler -> [at : Places, block : Block \cup {NoBlock}]]
      /\ k \in [Scheduler -> Nat]
      /\ my_small_task_count \in [Scheduler -> Int]
  BY DEF SmallTypes, Counted
<1>1. \A s \in Scheduler : Controlled(s)
  BY BlocksAre
<1>2. \A s \in Scheduler : CountOf(s)
  BY DEF Counted
<1>3. ASSUME NEW l, NEW b, Goto(p, l, b)
      PROVE  pc'[p].at = l /\ pc'[p].block = b /\ \A s \in Scheduler : s # p => pc'[s] = pc[s]
  BY <1>0, <1>3 DEF Goto
<1>4. ASSUME UNCHANGED <<origin, my_small_task_count, memory, k>>,
             pc[p].at \in Working, pc'[p].at \in Working,
             \A s \in Scheduler : s # p => pc'[s] = pc[s]
      PROVE  Counted'
  <2>1. \A s \in Scheduler : Guard(s)' = Guard(s)
    BY <1>4 DEF Guard, Working, Ending
  <2>2. \A s \in Scheduler : pc'[s].at \in Ending => k'[s] > 0
    BY <1>2, <1>4 DEF CountOf, Working, Ending
  <2>3. \A s \in Scheduler : CountOf(s)'
    BY <1>2, <1>4, <2>1, <2>2, CountKept
  <2> QED
    BY <1>0, <1>4, <2>3 DEF Counted
<1>5. CASE allocate_task(p)
  <2>1. CASE UNCHANGED <<origin, my_small_task_count, pc>>
    BY <1>4, <1>5, <2>1 DEF allocate_task, Running, Working
  <2>2. CASE Goto(p, "take back", NoBlock) /\ UNCHANGED <<origin, my_small_task_count>>
    BY <1>3, <1>4, <1>5, <2>2 DEF allocate_task, Running, Working
  <2>3. ASSUME NEW b \in Block, origin[b] = "heap", origin' = [origin EXCEPT ![b] = p],
               my_small_task_count' = [my_small_task_count EXCEPT ![p] = @ + 1], pc' = pc
        PROVE  Counted'
    <3>1. UNCHANGED <<memory, k>> /\ pc[p].at = "run"
      BY <1>5 DEF allocate_task, Running
    <3>2. /\ my_small_task_count'[p] = my_small_task_count[p] + 1
          /\ \A s \in Scheduler : s # p => my_small_task_count'[s] = my_small_task_count[s]
          /\ my_small_task_count' \in [Scheduler -> Int]
      BY <1>0, <2>3
    <3>3. Own(p)' = Own(p) \cup {b} /\ b \notin Own(p)
      BY <1>0, <2>3, Sentinels DEF Own
    <3>4. \A s \in Scheduler : s # p => Own(s)' = Own(s)
      BY <1>0, <2>3, Sentinels DEF Own
    <3>5. Cardinality(Own(p)') = Cardinality(Own(p)) + 1
      BY <3>3, OwnFinite, FS_AddElement
    <3>6. CountOf(p)'
      <4>1. my_small_task_count[p] = Cardinality(Own(p)) + 1 /\ Cardinality(Own(p)) \in Nat
        BY <1>2, <3>1, OwnFinite DEF CountOf, Guard, Ending
      <4>2. Guard(p)' = 1 /\ pc'[p].at \notin Ending
        BY <2>3, <3>1 DEF Guard, Ending
      <4>3. memory'[p] = memory[p] /\ memory[p] # "freed"
        BY <1>2, <3>1, <4>1 DEF CountOf
      <4>4. my_small_task_count'[p] = Cardinality(Own(p)') + Guard(p)'
            /\ my_small_task_count'[p] # 0
        BY <3>2, <3>5, <4>1, <4>2
      <4> QED
        BY <4>2, <4>3, <4>4 DEF CountOf
    <3>7. \A s \in Scheduler : s # p => CountOf(s)'
      BY <1>2, <2>3, <3>1, <3>2, <3>4 DEF CountOf, Guard
    <3> QED
      BY <3>2, <3>6, <3>7 DEF Counted
  <2> QED
    BY <1>5, <2>1, <2>2, <2>3 DEF allocate_task
<1>6. CASE takeBack(p)
  BY <1>3, <1>4, <1>6 DEF takeBack, Working
<1>7. CASE free_task(p)
  <2>1. /\ UNCHANGED <<origin, my_small_task_count, memory, k>> /\ pc[p].at = "run"
        /\ pc' = pc \/ \E b \in Block : Goto(p, "read list", b)
    BY <1>7 DEF free_task, Running
  <2>2. pc'[p].at \in {"run", "read list"} /\ \A s \in Scheduler : s # p => pc'[s] = pc[s]
    BY <1>3, <2>1
  <2> QED
    BY <1>4, <2>1, <2>2 DEF Working
<1>8. CASE readList(p)
  BY <1>3, <1>4, <1>8 DEF readList, Working
<1>9. CASE swapList(p)
  BY <1>3, <1>4, <1>9 DEF swapList, Working
<1>10. CASE deallocate(p)
  <2> PICK b, h : b = pc[p].block /\ h = Home(p)
    OBVIOUS
  <2>1. pc[p].at = "deallocate" /\ b \in Block /\ holder[b] = p
    BY <1>1, <1>10 DEF deallocate, Controlled, Returning
  <2>2. h \in Scheduler /\ origin[b] = h
    BY <1>0, <2>1, BlocksAre, Sentinels DEF Home, WellPlaced
  <2>3. /\ origin' = [origin EXCEPT ![b] = "heap"] /\ k' = k
        /\ my_small_task_count' = [my_small_task_count EXCEPT ![h] = @ - 1]
        /\ memory' = [memory EXCEPT ![h] = IF my_small_task_count[h] = 1 THEN "freed" ELSE @]
        /\ Goto(p, "run", NoBlock)
    BY <1>10 DEF deallocate
  <2>4. /\ my_small_task_count'[h] = my_small_task_count[h] - 1
        /\ memory'[h] = IF my_small_task_count[h] = 1 THEN "freed" ELSE memory[h]
        /\ my_small_task_count' \in [Scheduler -> Int]
        /\ \A s \in Scheduler : s # h => /\ my_small_task_count'[s] = my_small_task_count[s]
                                         /\ memory'[s] = memory[s]
    BY <1>0, <2>2, <2>3
  <2>5. \A s \in Scheduler : Guard(s)' = Guard(s) /\ (pc'[s].at \in Ending <=> pc[s].at \in Ending)
    <3>1. pc'[p].at = "run" /\ \A s \in Scheduler : s # p => pc'[s] = pc[s]
      BY <1>3, <2>3
    <3>2. \A s \in Scheduler : s # p => Guard(s)' = Guard(s)
      BY <2>3, <3>1, GuardWas
    <3>3. Guard(p)' = Guard(p)
      BY <2>1, <3>1, GuardWas DEF Working
    <3>4. pc'[p].at \notin Ending /\ pc[p].at \notin Ending
      BY <2>1, <3>1 DEF Ending
    <3> QED
      BY <3>1, <3>2, <3>3, <3>4
  <2>6. Own(h)' = Own(h) \ {b} /\ b \in Own(h)
    BY <1>0, <2>1, <2>2, <2>3, Sentinels DEF Own
  <2>7. \A s \in Scheduler : s # h => Own(s)' = Own(s)
    BY <1>0, <2>1, <2>2, <2>3, Sentinels DEF Own
  <2>8. Cardinality(Own(h)') = Cardinality(Own(h)) - 1
    <3>1. IsFiniteSet(Own(h))
      BY <2>2, OwnFinite
    <3>2. b \in Own(h)
      BY <2>6
    <3>3. Cardinality(Own(h) \ {b}) = Cardinality(Own(h)) - 1
      BY <3>1, <3>2, FS_RemoveElement
    <3> QED
      BY <2>6, <3>3
  <2>9. CountOf(h)'
    <3>1. /\ my_small_task_count[h] = Cardinality(Own(h)) + Guard(h)
          /\ Guard(h) \in Nat /\ Cardinality(Own(h)) \in Nat
          /\ memory[h] = "freed" <=> my_small_task_count[h] = 0
          /\ pc[h].at \in Ending => k[h] > 0
      BY <1>0, <1>2, <2>2, OwnFinite DEF CountOf, Guard
    <3>2. Cardinality(Own(h)) > 0
      BY <2>2, <2>6, OwnFinite, FS_EmptySet
    <3>3. my_small_task_count[h] >= 1 /\ my_small_task_count[h] \in Int
      BY <3>1, <3>2
    <3>4. my_small_task_count'[h] = Cardinality(Own(h)') + Guard(h)'
      <4>1. Guard(h)' = Guard(h)
        BY <2>2, <2>5
      <4>2. my_small_task_count'[h] = (Cardinality(Own(h)) - 1) + Guard(h)
        BY <2>4, <3>1
      <4> QED
        BY <2>8, <4>1, <4>2
    <3>5. memory'[h] = "freed" <=> my_small_task_count'[h] = 0
      BY <2>4, <3>1, <3>3
    <3>6. pc'[h].at \in Ending => k'[h] > 0
      BY <2>2, <2>3, <2>5, <3>1
    <3> QED
      BY <3>4, <3>5, <3>6 DEF CountOf
  <2>10. ASSUME NEW s \in Scheduler, s # h
         PROVE  CountOf(s)'
    <3>1. Own(s)' = Own(s) /\ Guard(s)' = Guard(s)
      BY <2>5, <2>7, <2>10
    <3>2. my_small_task_count'[s] = my_small_task_count[s] /\ memory'[s] = memory[s]
      BY <2>4, <2>10
    <3>3. pc'[s].at \in Ending => pc[s].at \in Ending /\ k'[s] = k[s]
      BY <2>3, <2>5
    <3>4. CountOf(s)
      BY <1>2
    <3> QED
      BY <3>1, <3>2, <3>3, <3>4 DEF CountOf
  <2> QED
    BY <2>4, <2>9, <2>10 DEF Counted
<1>11. CASE free_scheduler(p)
  <2>1. /\ pc[p].at = "run" /\ k' = [k EXCEPT ![p] = 1] /\ Goto(p, "empty lists", NoBlock)
        /\ UNCHANGED <<origin, my_small_task_count, memory>>
    BY <1>11 DEF free_scheduler, Running
  <2>2. /\ pc'[p].at = "empty lists" /\ k'[p] = 1
        /\ \A s \in Scheduler : s # p => pc'[s] = pc[s] /\ k'[s] = k[s]
    BY <1>0, <1>3, <2>1
  <2>3. \A s \in Scheduler : Guard(s)' = Guard(s)
    BY <2>1, <2>2 DEF Guard, Ending
  <2>4. \A s \in Scheduler : pc'[s].at \in Ending => k'[s] > 0
    <3>1. k'[p] > 0
      <4>1. k'[p] = 1
        BY <2>2
      <4> QED
        BY <4>1
    <3>2. \A s \in Scheduler : s # p => (pc'[s].at \in Ending => k'[s] > 0)
      BY <1>2, <2>2 DEF CountOf
    <3> QED
      BY <3>1, <3>2
  <2>5. \A s \in Scheduler : CountOf(s)'
    BY <1>2, <2>1, <2>3, <2>4, CountKept
  <2> QED
    BY <1>0, <2>1, <2>5 DEF Counted
<1>12. CASE emptyLists(p)
  <2> DEFINE out == Elems(my_free_list[p])
  <2>1. /\ pc[p].at = "empty lists" /\ UNCHANGED <<my_small_task_count, memory>>
        /\ origin' = [b \in Block |-> IF b \in out THEN "heap" ELSE origin[b]]
        /\ k' = [k EXCEPT ![p] = @ + Cardinality(out)]
        /\ Goto(p, IF plugged[p] THEN "give up" ELSE "empty lists", NoBlock)
    BY <1>12 DEF emptyLists, Elems
  <2>2. out \subseteq Block /\ \A b \in out : origin[b] = p
    BY <1>0, BlocksAre, ElemsBlocks DEF InLists
  <2> HIDE DEF out
  <2>3. IsFiniteSet(out) /\ Cardinality(out) \in Nat
    BY <2>2, BlockAssumption, FS_Subset, FS_CardinalityType
  <2>4. Own(p)' = Own(p) \ out /\ out \subseteq Own(p)
    BY <2>1, <2>2, Sentinels DEF Own
  <2>5. \A s \in Scheduler : s # p => Own(s)' = Own(s)
    BY <2>1, <2>2, Sentinels DEF Own
  <2>6. Cardinality(Own(p)') = Cardinality(Own(p)) - Cardinality(out)
    <3>1. Own(p) \cap out = out
      BY <2>4
    <3>2. Cardinality(Own(p) \ out) = Cardinality(Own(p)) - Cardinality(Own(p) \cap out)
      BY OwnFinite, FS_Difference
    <3> QED
      BY <2>4, <3>1, <3>2
  <2>7. /\ pc'[p].at \in Ending /\ pc[p].at \in Ending /\ k'[p] = k[p] + Cardinality(out)
        /\ \A s \in Scheduler : s # p => pc'[s] = pc[s] /\ k'[s] = k[s]
    BY <1>0, <1>3, <2>1 DEF Ending
  <2>8. CountOf(p)'
    <3>1. my_small_task_count[p] = Cardinality(Own(p)) + k[p] /\ k[p] > 0 /\ k[p] \in Nat
      BY <1>0, <1>2, <2>7 DEF CountOf, Guard
    <3>2. Guard(p)' = k'[p]
      BY <2>7 DEF Guard
    <3>3. my_small_task_count'[p] = my_small_task_count[p] /\ memory'[p] = memory[p]
      BY <2>1
    <3>4. Cardinality(Own(p)) \in Nat
      BY OwnFinite
    <3>5. k'[p] = k[p] + Cardinality(out)
      BY <2>7
    <3>6. my_small_task_count'[p] = Cardinality(Own(p)') + k'[p] /\ k'[p] > 0
      BY <2>3, <2>6, <3>1, <3>3, <3>4, <3>5
    <3>7. memory[p] = "freed" <=> my_small_task_count[p] = 0
      BY <1>2 DEF CountOf
    <3> QED
      BY <3>2, <3>3, <3>6, <3>7 DEF CountOf
  <2>9. \A s \in Scheduler : s # p => CountOf(s)'
    BY <1>2, <2>1, <2>5, <2>7 DEF CountOf, Guard
  <2> QED
    BY <1>0, <2>1, <2>8, <2>9 DEF Counted
<1>13. CASE giveUp(p)
  <2>1. /\ pc[p].at = "give up" /\ UNCHANGED <<origin, k>>
        /\ my_small_task_count' = [my_small_task_count EXCEPT ![p] = @ - k[p]]
        /\ memory' = [memory EXCEPT ![p] = IF my_small_task_count[p] = k[p] THEN "freed" ELSE @]
        /\ Goto(p, "gone", NoBlock)
    BY <1>13 DEF giveUp
  <2>2. /\ my_small_task_count'[p] = my_small_task_count[p] - k[p]
        /\ memory'[p] = IF my_small_task_count[p] = k[p] THEN "freed" ELSE memory[p]
        /\ my_small_task_count' \in [Scheduler -> Int]
        /\ \A s \in Scheduler : s # p => /\ my_small_task_count'[s] = my_small_task_count[s]
                                         /\ memory'[s] = memory[s]
    <3>1. my_small_task_count[p] - k[p] \in Int
      BY <1>0
    <3> QED
      BY <1>0, <2>1, <3>1
  <2>3. pc'[p].at = "gone" /\ \A s \in Scheduler : s # p => pc'[s] = pc[s]
    BY <1>3, <2>1
  <2>4. CountOf(p)'
    <3>1. /\ my_small_task_count[p] = Cardinality(Own(p)) + k[p] /\ k[p] > 0 /\ k[p] \in Nat
          /\ memory[p] = "freed" <=> my_small_task_count[p] = 0
      BY <1>0, <1>2, <2>1 DEF CountOf, Guard, Ending
    <3>2. Guard(p)' = 0 /\ pc'[p].at \notin Ending /\ Own(p)' = Own(p)
      BY <2>1, <2>3 DEF Guard, Ending, Own
    <3>3. my_small_task_count'[p] = Cardinality(Own(p)') + Guard(p)'
      BY <2>2, <3>1, <3>2, OwnFinite
    <3>4. memory'[p] = "freed" <=> my_small_task_count'[p] = 0
      <4>1. my_small_task_count[p] # 0 /\ my_small_task_count[p] \in Int
        BY <3>1, OwnFinite
      <4> QED
        BY <2>2, <3>1, <4>1
    <3> QED
      BY <3>2, <3>3, <3>4 DEF CountOf
  <2>5. ASSUME NEW s \in Scheduler, s # p
        PROVE  CountOf(s)'
    <3>1. /\ CountOf(s) /\ origin' = origin
          /\ my_small_task_count'[s] = my_small_task_count[s] /\ memory'[s] = memory[s]
          /\ pc'[s] = pc[s] /\ k'[s] = k[s]
      BY <1>2, <2>1, <2>2, <2>3, <2>5
    <3>2. Guard(s)' = Guard(s)
      BY <3>1, GuardWas
    <3>3. pc'[s].at \in Ending => k'[s] > 0
      BY <3>1 DEF CountOf
    <3> QED
      BY <3>1, <3>2, <3>3, CountKept
  <2> QED
    BY <2>2, <2>4, <2>5 DEF Counted
<1>14. ASSUME NEW q \in Scheduler, steal(p, q)
       PROVE  Counted'
  <2>1. UNCHANGED <<origin, my_small_task_count, memory, k, pc>>
    BY <1>14 DEF steal
  <2> QED
    BY <2>1 DEF Counted, CountOf, Guard, Own
<1> QED
  BY <1>5, <1>6, <1>7, <1>8, <1>9, <1>10, <1>11, <1>12, <1>13, <1>14 DEF step

\* The invariant holds of the schedulers that have just been made, each with its
\* dummy task.
LEMMA SmallStart == MemoryInit => SmallInv
<1> SUFFICES ASSUME MemoryInit PROVE SmallInv
  OBVIOUS
<1> DEFINE dummy == CHOOSE f \in [Scheduler -> Block] :
                        \A s, r \in Scheduler : s # r => f[s] # f[r]
           Owners(b) == {s \in Scheduler : dummy[s] = b}
<1>1. /\ origin = [b \in Block |-> IF Owners(b) = {} THEN "heap"
                                   ELSE CHOOSE s \in Owners(b) : TRUE]
      /\ holder = [b \in Block |-> IF Owners(b) = {} THEN "none" ELSE "dummy"]
  BY DEF MemoryInit
<1>2. /\ my_free_list = [s \in Scheduler |-> <<>>] /\ my_return_list = [s \in Scheduler |-> <<>>]
      /\ plugged = [s \in Scheduler |-> FALSE] /\ my_small_task_count = [s \in Scheduler |-> 2]
      /\ memory = [s \in Scheduler |-> "live"]
      /\ pc = [s \in Scheduler |-> [at |-> "run", block |-> NoBlock]]
      /\ old = [s \in Scheduler |-> <<>>] /\ k = [s \in Scheduler |-> 0]
  BY DEF MemoryInit
<1>3. dummy \in [Scheduler -> Block] /\ \A s, r \in Scheduler : s # r => dummy[s] # dummy[r]
  BY DummyAssumption
<1> HIDE DEF dummy
<1>4. ASSUME NEW b \in Block
      PROVE  \/ origin[b] = "heap" /\ holder[b] = "none" /\ Owners(b) = {}
             \/ origin[b] \in Scheduler /\ holder[b] = "dummy" /\ dummy[origin[b]] = b
  <2>1. CASE Owners(b) = {}
    BY <1>1, <2>1
  <2>2. CASE Owners(b) # {}
    <3>1. (CHOOSE s \in Owners(b) : TRUE) \in Owners(b)
      BY <2>2
    <3> HIDE DEF Owners
    <3>2. origin[b] \in Owners(b) /\ holder[b] = "dummy"
      BY <1>1, <2>2, <3>1
    <3> QED
      BY <3>2 DEF Owners
  <2> QED
    BY <2>1, <2>2
<1>5. SmallTypes
  <2>1. "run" \in Places
    BY DEF Places
  <2>2. /\ origin \in [Block -> Scheduler \cup {"heap"}]
        /\ holder \in [Block -> Scheduler \cup {"none", "dummy"}]
    <3> HIDE DEF Owners
    <3>1. origin = [b \in Block |-> origin[b]] /\ holder = [b \in Block |-> holder[b]]
      BY <1>1
    <3> QED
      BY <1>4, <3>1
  <2> QED
    BY <1>2, <2>1, <2>2, EmptyList DEF SmallTypes
<1>6. Blocks
  <2>1. \A s \in Scheduler : InLists(s) = {} /\ Apart(s)
    BY <1>2, EmptyList DEF InLists, Apart
  <2>2. \A b \in Block : WellPlaced(b)
    BY <1>2, <1>4, Sentinels DEF WellPlaced, Working
  <2>3. \A s \in Scheduler : Controlled(s)
    BY <1>2 DEF Controlled, Working, Returning
  <2>4. OneDummy
    BY <1>4, Sentinels DEF OneDummy
  <2> QED
    BY <2>1, <2>2, <2>3, <2>4, BlocksAre
<1>7. ASSUME NEW s \in Scheduler
      PROVE  CountOf(s)
  <2>1. Own(s) = {dummy[s]}
    <3>1. dummy[s] \in Block /\ Owners(dummy[s]) # {}
      BY <1>3
    <3>2. origin[dummy[s]] \in Scheduler /\ dummy[origin[dummy[s]]] = dummy[s]
      BY <1>4, <3>1
    <3>3. origin[dummy[s]] = s
      BY <1>3, <3>2
    <3>4. \A b \in Block : origin[b] = s => b = dummy[s]
      BY <1>4, Sentinels
    <3> QED
      BY <3>1, <3>3, <3>4 DEF Own
  <2>2. Cardinality(Own(s)) = 1
    BY <2>1, FS_Singleton
  <2>3. /\ my_small_task_count[s] = 2 /\ memory[s] = "live" /\ pc[s].at = "run"
    BY <1>2
  <2>4. Guard(s) = 1 /\ pc[s].at \notin Ending
    BY <2>3 DEF Guard, Ending
  <2>5. my_small_task_count[s] = Cardinality(Own(s)) + Guard(s)
    BY <2>2, <2>3, <2>4
  <2> QED
    BY <2>3, <2>4, <2>5 DEF CountOf
<1>8. Counted
  BY <1>2, <1>7 DEF Counted
<1> QED
  BY <1>5, <1>6, <1>8 DEF SmallInv

\* Every step keeps it.
LEMMA SmallStep == SmallInv /\ [MemoryNext]_memoryVars => SmallInv'
<1> SUFFICES ASSUME SmallInv, [MemoryNext]_memoryVars
             PROVE  SmallInv'
  OBVIOUS
<1>1. CASE UNCHANGED memoryVars
  <2>1. SmallTypes'
    BY <1>1 DEF memoryVars, SmallInv, SmallTypes
  <2>2. ListsApart' /\ Placed'
    BY <1>1 DEF memoryVars, SmallInv, Blocks, ListsApart, Placed, InLists
  <2>3. OneDummy' /\ Control'
    BY <1>1 DEF memoryVars, SmallInv, Blocks, OneDummy, Control
  <2>4. Counted'
    BY <1>1 DEF memoryVars, SmallInv, Counted, CountOf, Own, Guard
  <2> QED
    BY <2>1, <2>2, <2>3, <2>4 DEF SmallInv, Blocks
<1>2. ASSUME NEW p \in Scheduler, step(p) \/ \E q \in Scheduler : steal(p, q)
      PROVE  SmallInv'
  BY <1>2, TypesStep, BlocksStep, CountedStep DEF SmallInv
<1> QED
  BY <1>1, <1>2 DEF MemoryNext

\* Whatever the threads allocate, steal and free, the invariant holds.
THEOREM SmallInvariant == MemorySpec => []SmallInv
  BY SmallStart, SmallStep, PTL DEF MemorySpec

\* A scheduler that is in use has a block or a guard in its count.
LEMMA UseIsLive == SmallInv => SchedulerOutlivesUse
<1> SUFFICES ASSUME SmallInv PROVE SchedulerOutlivesUse
  OBVIOUS
<1>0. /\ origin \in [Block -> Scheduler \cup {"heap"}]
      /\ memory \in [Scheduler -> {"live", "freed"}] /\ k \in [Scheduler -> Nat]
  BY DEF SmallInv, SmallTypes
<1>1. \A s \in Scheduler : Controlled(s)
  BY BlocksAre DEF SmallInv
<1>2. ASSUME NEW s \in Scheduler, Guard(s) > 0 \/ Own(s) # {}
      PROVE  memory[s] = "live"
  <2>1. /\ my_small_task_count[s] = Cardinality(Own(s)) + Guard(s)
        /\ memory[s] = "freed" <=> my_small_task_count[s] = 0
    BY DEF SmallInv, Counted, CountOf
  <2>2. Cardinality(Own(s)) \in Nat /\ (Own(s) # {} => Cardinality(Own(s)) > 0)
    BY OwnFinite, FS_EmptySet
  <2>3. Guard(s) \in Nat
    BY <1>0 DEF Guard
  <2>4. my_small_task_count[s] # 0
    BY <1>2, <2>1, <2>2, <2>3
  <2> QED
    BY <1>0, <2>1, <2>4
<1>3. \A p \in Scheduler : pc[p].at # "gone" => memory[p] = "live"
  <2>1. \A p \in Scheduler : pc[p].at # "gone" => Guard(p) > 0
    BY DEF SmallInv, Counted, CountOf, Guard
  <2> QED
    BY <1>2, <2>1
<1>4. \A p \in Scheduler : pc[p].at \in Returning => memory[Home(p)] = "live"
  <2> SUFFICES ASSUME NEW p \in Scheduler, pc[p].at \in Returning
               PROVE  memory[Home(p)] = "live"
    OBVIOUS
  <2>1. pc[p].block \in Block /\ holder[pc[p].block] = p
    BY <1>1 DEF Controlled
  <2>2. Home(p) \in Scheduler
    BY <1>0, <2>1, BlocksAre, Sentinels DEF SmallInv, Home, WellPlaced
  <2>3. pc[p].block \in Own(Home(p))
    BY <2>1 DEF Own, Home
  <2> QED
    BY <1>2, <2>2, <2>3
<1>5. \A b \in Block : Cardinality(
          {s \in Scheduler : \E i \in DOMAIN my_free_list[s] : my_free_list[s][i] = b}
          \cup {s \in Scheduler : \E i \in DOMAIN my_return_list[s] : my_return_list[s][i] = b})
            <= (IF holder[b] = "none" THEN 1 ELSE 0)
  <2> TAKE b \in Block
  <2> DEFINE S == {s \in Scheduler : \E i \in DOMAIN my_free_list[s] : my_free_list[s][i] = b}
                \cup {s \in Scheduler : \E i \in DOMAIN my_return_list[s] :
                                            my_return_list[s][i] = b}
  <2>1. \A s \in S : s \in Scheduler /\ b \in InLists(s)
    BY DEF InLists, Elems
  <2> HIDE DEF S
  <2>2. \A s \in S : origin[b] = s /\ holder[b] = "none"
    BY <2>1, BlocksAre DEF SmallInv
  <2>3. S \subseteq {origin[b]}
    BY <2>2
  <2>4. IsFiniteSet({origin[b]}) /\ Cardinality({origin[b]}) = 1
    BY FS_Singleton
  <2>5. Cardinality(S) <= 1
    BY <2>3, <2>4, FS_Subset
  <2>6. holder[b] # "none" => Cardinality(S) = 0
    BY <2>2, FS_EmptySet
  <2>7. Cardinality(S) <= (IF holder[b] = "none" THEN 1 ELSE 0)
    BY <2>5, <2>6
  <2> QED
    BY <2>7 DEF S
<1> QED
  BY <1>3, <1>4, <1>5 DEF SchedulerOutlivesUse, Returning

\* A scheduler is there as long as its thread or one that returns a task uses
\* it, and no block is on two lists (free_task, free_nonlocal_small_task and
\* free_scheduler of tbb/scheduler.cpp).
THEOREM SchedulersOutliveUse == MemorySpec => []SchedulerOutlivesUse
  BY SmallInvariant, UseIsLive, PTL

\* In the end no list has a block and no thread a guard.
LEMMA EndIsClean == SmallInv => NothingLeaks
<1> SUFFICES ASSUME SmallInv, AllGone
             PROVE  /\ \A s \in Scheduler : memory[s] = "freed"
                    /\ \A b \in Block : origin[b] = "heap"
  BY DEF NothingLeaks
<1>0. /\ origin \in [Block -> Scheduler \cup {"heap"}]
      /\ holder \in [Block -> Scheduler \cup {"none", "dummy"}]
  BY DEF SmallInv, SmallTypes
<1>1. \A s \in Scheduler : pc[s].at = "gone" /\ pc[s].at \notin Working
  BY DEF AllGone, Working
<1>2. \A s \in Scheduler : InLists(s) = {}
  BY <1>1, BlocksAre, EmptyList DEF SmallInv, Controlled, InLists
<1>3. ASSUME NEW b \in Block
      PROVE  origin[b] = "heap"
  <2>1. WellPlaced(b)
    BY BlocksAre DEF SmallInv
  <2>2. holder[b] \notin Scheduler
    BY <1>1, <2>1 DEF WellPlaced
  <2>3. origin[b] \in Scheduler => holder[b] # "dummy" /\ holder[b] # "none"
    BY <1>1, <1>2, <2>1, Sentinels DEF WellPlaced
  <2> QED
    BY <1>0, <2>2, <2>3
<1>4. ASSUME NEW s \in Scheduler
      PROVE  memory[s] = "freed"
  <2>1. Own(s) = {}
    BY <1>3, Sentinels DEF Own
  <2>2. Cardinality(Own(s)) = 0
    BY <2>1, FS_EmptySet
  <2>3. Guard(s) = 0
    BY <1>1 DEF Guard, Ending
  <2> QED
    BY <2>2, <2>3 DEF SmallInv, Counted, CountOf
<1> QED
  BY <1>3, <1>4

\* When all threads are gone every scheduler and every block has been freed,
\* by its owner or by the thread that came last.
THEOREM SchedulersFreed == MemorySpec => []NothingLeaks
  BY SmallInvariant, EndIsClean, PTL
=============================================================================
