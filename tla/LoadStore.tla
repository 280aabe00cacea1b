------------------------------ MODULE LoadStore -----------------------------
(***************************************************************************)
(* The loads and stores of instrumented code.  Tanger replaces each by a   *)
(* call of a function of the STM for integers of 8, 16, 32 or 64 bits,     *)
(* aligned or not, and converts the other types to these                   *)
(* (TransformLoadStore); the DSTM library defines most of the functions.   *)
(* The code runs next to what it was before, on a memory of its own.       *)
(***************************************************************************)
EXTENDS Integers, Sequences

CONSTANTS
    Types,      \* [kind, bits] of the values in memory
    Address,    \* bytes of the memory, from 0
    Alignments, \* alignments in bytes an instruction may have, 0 if unknown
    MaxSteps

VARIABLES plain, stm,   \* the two memories
          loaded,       \* what the last load gave in each of them
          outcome, steps

vars == <<plain, stm, loaded, outcome, steps>>

\* Bytes that a value of a type takes in memory.
StoreSize(t) == (t.bits + 7) \div 8

\* Two values of every type, as bytes; the unused bits of a small integer are 0.
Values(t) == IF t.bits = 1 THEN {<<0>>, <<1>>}
             ELSE {[i \in 1..StoreSize(t) |-> i], [i \in 1..StoreSize(t) |-> 255 - i]}

Init ==
    /\ plain = [a \in Address |-> 0] /\ stm = plain
    /\ loaded = <<<<>>, <<>>>> /\ outcome = "running" /\ steps = 0

\* Fault: pointers are taken to have 32 bits.
getLoadStoreConversion_Short(t) ==
    CASE t.kind = "pointer" -> [kind |-> "int", bits |-> 32]
      [] t.kind = "float" /\ t.bits \in {32, 64} -> [kind |-> "int", bits |-> t.bits]
      [] t.kind = "int" /\ t.bits < 8 -> [kind |-> "int", bits |-> 8 * StoreSize(t)]
      [] OTHER -> t

\* The integer type a value is converted to; a type that stays as it is when
\* there is none.
getLoadStoreConversion(t) ==
    CASE t.kind = "pointer" \/ (t.kind = "float" /\ t.bits \in {32, 64}) ->
            [kind |-> "int", bits |-> t.bits]
      [] t.kind = "int" /\ t.bits < 8 -> [kind |-> "int", bits |-> 8 * StoreSize(t)]
      [] OTHER -> t

Aligned(t, align) == align * 8 >= t.bits

\* The functions that the pass declares: operation, bits, aligned.
initLoadStore(op) == {<<op, 8, FALSE>>} \cup {<<op, b, a>> : b \in {16, 32, 64}, a \in BOOLEAN}

\* The function of the STM for a type that has been converted.
getIntLoadStoreFunction(op, t, align) ==
    {f \in initLoadStore(op) : /\ t.kind = "int" /\ f[2] = t.bits
                               /\ f[3] = (t.bits > 8 /\ Aligned(t, align))}

\* The functions the library defines (dstm_p1-ls.cpp).
Defined == (initLoadStore("load") \ {<<"load", 16, FALSE>>})
           \cup {f \in initLoadStore("store") : f[2] # 16}

Bytes(mem, a, n) == [i \in 1..n |-> mem[a + i - 1]]
Written(mem, a, v) == [b \in DOMAIN mem |-> IF b - a + 1 \in DOMAIN v THEN v[b - a + 1] ELSE mem[b]]

\* Padded or cut to n bytes.
Converted(v, n) == [i \in 1..n |-> IF i \in DOMAIN v THEN v[i] ELSE 0]

Fits(t, a, align) == /\ a + StoreSize(t) - 1 \in Address
                     /\ align > 0 => a % align = 0

\* Unsupported types end the pass with an error, functions that are not
\* defined end the link.
Refused(op, t, align) ==
    LET f == getIntLoadStoreFunction(op, getLoadStoreConversion(t), align)
    IN  IF f = {} THEN {"error"} ELSE IF f \subseteq Defined THEN {} ELSE {"unlinked"}

Step == outcome = "running" /\ steps < MaxSteps /\ steps' = steps + 1

refuse(op, t, align) ==
    /\ Step /\ outcome' \in Refused(op, t, align)
    /\ UNCHANGED <<plain, stm, loaded>>

replaceLoad(t, a, align) ==
    LET c == getLoadStoreConversion(t)
    IN  /\ Step /\ Fits(t, a, align) /\ Refused("load", t, align) = {}
        /\ loaded' = <<Bytes(plain, a, StoreSize(t)),
                       Converted(Bytes(stm, a, StoreSize(c)), StoreSize(t))>>
        /\ UNCHANGED <<plain, stm, outcome>>

replaceStore(t, a, align, v) ==
    LET c == getLoadStoreConversion(t)
    IN  /\ Step /\ Fits(t, a, align) /\ Refused("store", t, align) = {}
        /\ plain' = Written(plain, a, v)
        /\ stm' = Written(stm, a, Converted(v, StoreSize(c)))
        /\ UNCHANGED <<loaded, outcome>>

Finished == (outcome # "running" \/ steps = MaxSteps) /\ UNCHANGED vars

Next == \/ \E t \in Types, align \in Alignments :
              \/ \E op \in {"load", "store"} : refuse(op, t, align)
              \/ \E a \in Address : \/ replaceLoad(t, a, align)
                                    \/ \E v \in Values(t) : replaceStore(t, a, align, v)
        \/ Finished

-----------------------------------------------------------------------------
Supported(t) == \/ t.kind = "int" /\ (t.bits <= 8 \/ t.bits \in {16, 32, 64})
                \/ t.kind \in {"pointer", "float"} /\ t.bits \in {32, 64}

(***************************************************************************)
(* Instrumented code stores the bytes the original would store, and only   *)
(* these, and loads what it would load, for types of every width that is   *)
(* supported, mixed at the same addresses; a function for an alignment     *)
(* that the address need not have is not called.                           *)
(***************************************************************************)
InstrumentedEqual ==
    /\ stm = plain /\ loaded[1] = loaded[2]
    /\ \A t \in Types, align \in Alignments, op \in {"load", "store"} :
          /\ Supported(t) <=> "error" \notin Refused(op, t, align)
          /\ \A x \in getIntLoadStoreFunction(op, getLoadStoreConversion(t), align) :
                x[3] => \A a \in Address : Fits(t, a, align) => a % StoreSize(t) = 0
=============================================================================
