-------------------------- MODULE MCRegisterCodec --------------------------
(***************************************************************************)
(* Bytes of one bit, words of two: every word of every type is enumerated. *)
(* All types without scaling at two addresses, one of them moved by a      *)
(* sunspec offset, and one type with every combination of the scalings.    *)
(***************************************************************************)
EXTENDS RegisterCodec

Plain(k, n, o) == [kind |-> k, words |-> n, order |-> o, addr |-> 1, offset |-> 0,
                   sf |-> 0, div |-> 0, mul |-> 0, dec |-> 0, force |-> "none"]

Integers48 == {Plain(k, n, o) : k \in {"int", "uint"}, n \in 2 .. 4, o \in {"high", "low"}}
Floats == {Plain("float", 2, o) : o \in {"abcd", "cdab", "badc"}}
Short == {Plain(k, 1, "high") : k \in {"int", "uint"}}

Scaled == {[Plain("int", 1, "high") EXCEPT !.sf = s, !.div = d, !.mul = m,
                                          !.dec = c, !.force = f] :
             s \in -1 .. 1, d \in {0, 3}, m \in {0, 2},
             c \in {0, 1}, f \in {"none", "int", "float"}}

Moved == {[f EXCEPT !.addr = 0, !.offset = 1] : f \in Short \cup {Plain("uint", 2, "low")}}

MCFields == Integers48 \cup Floats \cup Short \cup Scaled \cup Moved
=============================================================================
