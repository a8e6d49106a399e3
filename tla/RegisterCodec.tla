---------------------------- MODULE RegisterCodec ----------------------------
(***************************************************************************)
(* The value of one register of a meter: read out of a block of words by   *)
(* getRegisterValue, scaled by applyDevider, and written by a [Write]      *)
(* definition through createModbusRegWriteBuff.  A word has two bytes of   *)
(* base ByteBase (256 in the program), a value is a fraction, and a float  *)
(* stands for the number its bit pattern makes.  The program keeps values  *)
(* as doubles: rounding beyond 53 bits is not modelled.                    *)
(***************************************************************************)
EXTENDS Integers, SequencesExt

CONSTANTS
  ByteBase,    (* values of a byte                                         *)
  LastAddr,    (* bound: the device has the registers 0 .. LastAddr        *)
  Fields       (* the register definitions considered                      *)

Kinds == {"int", "uint", "float"}
Orders == {"high", "low", "abcd", "cdab", "badc"}

(* type: its kind, number of words and order; addr: in the configuration;  *)
(* offset: what the sunspec resolve adds; sf, div and mul: the scaling, 0   *)
(* if there is none; dec and force as in the configuration.                *)
Field == [kind : Kinds, words : 1 .. 4, order : Orders, addr : 0 .. LastAddr,
          offset : 0 .. LastAddr, sf : Int, div : Nat, mul : Nat,
          dec : Nat, force : {"none", "int", "float"}]

ASSUME CodecAssumption ==
  /\ ByteBase \in Nat \ {0, 1} /\ LastAddr \in Nat
  /\ Fields \subseteq Field
  /\ \A f \in Fields :
       /\ f.addr + f.offset + f.words - 1 <= LastAddr
       /\ IF f.kind = "float" THEN f.words = 2 /\ f.order \in {"abcd", "cdab", "badc"}
          ELSE f.order \in {"high", "low"}

VARIABLES
  rr,        (* the register definition                                    *)
  device,    (* the words of the device                                    *)
  fvalue,    (* the value read, a fraction                                 *)
  isInt,     (* the value is sent as an integer                            *)
  fresh,     (* history: the device has not changed since fvalue was read  *)
  written    (* history: <<v>> after v has been written, until it changes   *)

vars == <<rr, device, fvalue, isInt, fresh, written>>

WordBase == ByteBase * ByteBase
Words == 0 .. WordBase - 1
Power(b, n) == LET p[k \in 0 .. n] == IF k = 0 THEN 1 ELSE p[k - 1] * b IN p[n]
Modulus(n) == Power(WordBase, n)
StartAddr == rr.addr + rr.offset
Nothing == <<>>

(* Words stored from an address on.                                        *)
Changed(mem, addr, ws) == [a \in 0 .. LastAddr |->
  IF a \in addr .. addr + Len(ws) - 1 THEN ws[a - addr + 1] ELSE mem[a]]

(* The number whose digits to a base are d, the most significant first.    *)
Number(base, d) ==
  LET v[k \in 0 .. Len(d)] == IF k = 0 THEN 0 ELSE v[k - 1] * base + d[k]
  IN v[Len(d)]
Signed(u, n) == IF 2 * u >= Modulus(n) THEN u - Modulus(n) ELSE u

-----------------------------------------------------------------------------
(* The reference: a register of n words holds n words, or 2n bytes, in the *)
(* order its type names, two's complement if it is signed.                 *)
Bytes(ws) == [k \in 1 .. 2 * Len(ws) |->
  IF k % 2 = 1 THEN ws[(k + 1) \div 2] \div ByteBase ELSE ws[k \div 2] % ByteBase]

Place == [abcd |-> <<1, 2, 3, 4>>, cdab |-> <<3, 4, 1, 2>>, badc |-> <<2, 1, 4, 3>>]

Meaning(f, ws) ==
  LET b == Bytes(ws)
      n == f.words
      u == CASE f.order = "high" -> Number(ByteBase, b)
             [] f.order = "low"  -> Number(ByteBase, [k \in 1 .. 2 * n |->
                                      b[2 * n + 2 * ((k + 1) % 2) - k]])
             [] OTHER -> Number(ByteBase, [k \in 1 .. 4 |-> b[Place[f.order][k]]])
  IN IF f.kind = "int" THEN Signed(u, n) ELSE u

-----------------------------------------------------------------------------
(* Mutant: the words are taken from the start of the block.                *)
BufferNoStart(regStart) == [k \in 1 .. rr.words |-> device[regStart + k - 1]]

(* The words of the register within a block read from regStart on.         *)
Buffer(regStart) ==
  LET bufStartAddr == StartAddr - regStart
  IN [k \in 1 .. rr.words |-> device[regStart + bufStartAddr + k - 1]]

(* The accessors of m-data.c put the bytes a b c d of two words together.  *)
GetFloat(order, ws) ==
  LET a == ws[1] \div ByteBase  b == ws[1] % ByteBase
      c == ws[2] \div ByteBase  d == ws[2] % ByteBase
  IN Number(ByteBase, CASE order = "abcd" -> <<a, b, c, d>>
                        [] order = "cdab" -> <<c, d, a, b>>
                        [] order = "badc" -> <<b, a, d, c>>)

(* The types of 48 bits are put together in 64 bits without extending the  *)
(* sign; the uppermost word of the unsigned ones of 64 bits is or'ed with  *)
(* 0x7fff: it becomes 0x7fff or, with its upper bit set, 0xffff.           *)
RawValue(ws) ==
  LET d == IF rr.order = "low" THEN Reverse(ws) ELSE ws
      top == IF 2 * d[1] >= WordBase THEN WordBase - 1 ELSE WordBase \div 2 - 1
  IN CASE rr.kind = "float" -> GetFloat(rr.order, ws)
       [] rr.kind = "int" /\ rr.words # 3 -> Signed(Number(WordBase, d), rr.words)
       [] rr.kind = "uint" /\ rr.words = 4 ->
            Signed(Number(WordBase, <<top>> \o Tail(d)), 4)
       [] OTHER -> Number(WordBase, d)

(* applyDevider: the scaling factor, the divider and the multiplier.       *)
ApplyDevider(raw) ==
  <<raw * Power(10, IF rr.sf > 0 THEN rr.sf ELSE 0)
        * (IF rr.mul # 0 THEN rr.mul ELSE 1),
    Power(10, IF rr.sf < 0 THEN -rr.sf ELSE 0)
        * (IF rr.div # 0 THEN rr.div ELSE 1)>>

(* Mutant: a divider leaves the value an integer.                          *)
IsIntDivided ==
  CASE rr.force = "int"   -> TRUE
    [] rr.force = "float" -> FALSE
    [] OTHER -> rr.kind # "float" /\ rr.dec = 0 /\ rr.sf >= 0

IsInt ==
  CASE rr.force = "int"   -> TRUE
    [] rr.force = "float" -> FALSE
    [] OTHER -> rr.kind # "float" /\ rr.dec = 0 /\ rr.sf >= 0 /\ rr.div = 0

(* The register within the block is converted, otherwise left alone.       *)
Covered(regStart, regEnd) ==
  regStart <= StartAddr /\ StartAddr + rr.words - 1 <= regEnd

GetRegisterValue(regStart, regEnd) ==
  /\ Covered(regStart, regEnd)
  /\ fvalue' = ApplyDevider(RawValue(Buffer(regStart)))
  /\ isInt' = IsInt
  /\ fresh' = TRUE
  /\ UNCHANGED <<rr, device, written>>

-----------------------------------------------------------------------------
(* The words of a number, most significant first.                          *)
Digits(x, n) == [k \in 1 .. n |-> (x \div Power(WordBase, n - k)) % WordBase]

InRange(v) ==
  IF rr.kind = "int" THEN -Modulus(rr.words) <= 2 * v /\ 2 * v < Modulus(rr.words)
  ELSE 0 <= v /\ v < Modulus(rr.words)

(* Mutant: all types have their high word first.                           *)
CreateModbusRegWriteBuffHigh(v) == {Digits(v, rr.words)}

(* A value the integer type cannot hold is converted by what the processor *)
(* does: truncated, the indefinite value 0x80..0, or the nearest value.    *)
Undefined(v) ==
  LET m == Modulus(rr.words)
  IN {v % m, m \div 2, m \div 2 - 1, m - 1, 0}

(* Floats go through libmodbus, whose versions order the bytes differently. *)
SetFloat(v) ==
  LET b == Bytes(Digits(v % Modulus(2), 2))
  IN {[k \in 1 .. 2 |-> ByteBase * b[p[2 * k - 1]] + b[p[2 * k]]] :
        p \in {<<1, 2, 3, 4>>, <<3, 4, 1, 2>>, <<2, 1, 4, 3>>, <<4, 3, 2, 1>>}}

(* createModbusRegWriteBuff: the words it can make of a value.  Values of  *)
(* 48 bits are kept in 64, the sign bit of a negative one is set.          *)
CreateModbusRegWriteBuff(v) ==
  LET n == rr.words
      sign == Modulus(3) \div 2
      low == v % Modulus(n)
      xs == CASE n = 3 /\ v >= 0 -> {low}
              [] n = 3 /\ rr.kind = "int" -> {IF low < sign THEN low + sign ELSE low}
              [] InRange(v) -> {low}
              [] OTHER -> Undefined(v)
  IN IF rr.kind = "float" THEN SetFloat(v)
     ELSE {IF rr.order = "low" THEN Reverse(Digits(x, n)) ELSE Digits(x, n) : x \in xs}

(* execMeterWrite sends them to the address of the definition.             *)
WriteRegister(v) ==
  /\ \E ws \in CreateModbusRegWriteBuff(v) :
       device' = Changed(device, rr.addr, ws)
  /\ written' = IF InRange(v) THEN <<v>> ELSE Nothing
  /\ fresh' = FALSE
  /\ UNCHANGED <<rr, fvalue, isInt>>

(* The device changes the register by itself; its first content is any.    *)
DeviceSets(ws) ==
  /\ device' = Changed(device, StartAddr, ws)
  /\ fresh' = FALSE
  /\ written' = Nothing
  /\ UNCHANGED <<rr, fvalue, isInt>>

(* Values at the edges of what a type can hold, and beyond them.           *)
Edges(n) == {-Modulus(n), -(Modulus(n) \div 2) - 1, -(Modulus(n) \div 2), -1, 0, 1,
             Modulus(n) \div 2 - 1, Modulus(n) \div 2, Modulus(n) - 1, Modulus(n)}

Init ==
  /\ rr \in Fields
  /\ \E ws \in [1 .. rr.words -> Words] : device = Changed([a \in 0 .. LastAddr |-> 1], StartAddr, ws)
  /\ fvalue = <<0, 1>> /\ isInt = FALSE
  /\ fresh = FALSE /\ written = Nothing

Next ==
  \/ \E s, e \in 0 .. LastAddr : GetRegisterValue(s, e)
  \/ \E c \in Words : DeviceSets([k \in 1 .. rr.words |-> c])
  \/ \E v \in Edges(rr.words) : WriteRegister(v)

Spec == Init /\ [][Next]_vars

-----------------------------------------------------------------------------
(* Properties.                                                             *)

SameFraction(p, q) == p[1] * q[2] = q[1] * p[2]
DeviceWords == [k \in 1 .. rr.words |-> device[StartAddr + k - 1]]

(* The types whose values the conversions do not give back: the sign of    *)
(* the 48 bit ones is lost, the unsigned ones of 64 bits are destroyed (an *)
(* or with 0x7fff sets the bits it should leave, though readme.md:523 says *)
(* that 63 bits are stored).                                               *)
Broken(v) == (rr.kind = "int" /\ rr.words = 3 /\ v < 0) \/ (rr.kind = "uint" /\ rr.words = 4)

(* The value is what the words of the register meant when they were read,  *)
(* wherever in the block they were, scaled once.                           *)
ReadsDeviceValue ==
  LET v == Meaning(rr, DeviceWords)
  IN fresh /\ ~Broken(v) => SameFraction(fvalue, ApplyDevider(v))

(* A value written to a register of an integer type that has no sunspec    *)
(* offset is read back, unscaled as it was written.                        *)
ReadBack ==
  fresh /\ written # Nothing /\ rr.kind # "float" /\ rr.offset = 0 =>
    Broken(written[1]) \/ SameFraction(fvalue, ApplyDevider(written[1]))

(* A value is sent as an integer only if it is one, unless the user forces *)
(* it.                                                                     *)
IntegersAreWhole ==
  fresh /\ isInt /\ rr.force = "none" => fvalue[1] % fvalue[2] = 0

-----------------------------------------------------------------------------
(* Inductive invariant.                                                    *)

TypeOK ==
  /\ rr \in Fields
  /\ device \in [0 .. LastAddr -> Words]
  /\ fvalue \in Seq(Int) /\ Len(fvalue) = 2 /\ fvalue[2] > 0
  /\ isInt \in BOOLEAN /\ fresh \in BOOLEAN
  /\ written = Nothing \/ (written \in Seq(Int) /\ Len(written) = 1)

(* While nothing has changed, the value is the conversion of the words the *)
(* device has, and these are words createModbusRegWriteBuff makes of the   *)
(* value written last.                                                     *)
CodecInv ==
  /\ fresh => fvalue = ApplyDevider(RawValue(DeviceWords)) /\ isInt = IsInt
  /\ written # Nothing => InRange(written[1])
  /\ written # Nothing /\ rr.offset = 0 =>
       DeviceWords \in CreateModbusRegWriteBuff(written[1])
=============================================================================
