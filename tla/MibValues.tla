----------------------------- MODULE MibValues -----------------------------
(***************************************************************************)
(* The values of the MIB modules (switch-model/src/mib.rs), and those that *)
(* mstpctl prints for them (switch-net/src/stp.rs): numbers with their     *)
(* width, identifiers, and base64 text, which is here the sequence of the  *)
(* numbers of its characters.                                              *)
(***************************************************************************)
EXTENDS Integers, Sequences

CONSTANTS
    U32,    \* 2^32 in the code; less here, as TLC's integers have 32 bits
    None

ASSUME ValuesAssumption == U32 \in Nat /\ U32 > 2^17

DivCeil(n, d) == (n + d - 1) \div d
AtMost(x, y) == IF x <= y THEN x ELSE y

Pad == 64

\* Mutant of Base64: one character less of an incomplete chunk.
Base64Short(octets) ==
    [ k \in 1..(4 * DivCeil(Len(octets), 3)) |->
        LET c == (k - 1) \div 4
            i == (k - 1) % 4
            b(j) == IF 3 * c + j <= Len(octets) THEN octets[3 * c + j] ELSE 0
            n == 65536 * b(1) + 256 * b(2) + b(3)
        IN  IF i < AtMost(3, Len(octets) - 3 * c) THEN (n \div 2^(18 - 6 * i)) % 64 ELSE Pad ]

\* base64: four characters for each chunk of up to three octets.
Base64(octets) ==
    [ k \in 1..(4 * DivCeil(Len(octets), 3)) |->
        LET c == (k - 1) \div 4
            i == (k - 1) % 4
            b(j) == IF 3 * c + j <= Len(octets) THEN octets[3 * c + j] ELSE 0
            n == 65536 * b(1) + 256 * b(2) + b(3)
        IN  IF i <= AtMost(3, Len(octets) - 3 * c) THEN (n \div 2^(18 - 6 * i)) % 64 ELSE Pad ]

-----------------------------------------------------------------------------
\* number: a text that is no number of the type is not there.
Number(x, size) == IF x = None THEN None ELSE IF x < size THEN x ELSE None

\* bridge_id of stp.rs, of the text p.system.mac: checked_mul fails above 16 bits.
BridgeId(t) ==
    IF t = None THEN None
    ELSE IF t.p * 4096 < 65536 THEN [priority |-> t.p * 4096, address |-> t.mac] ELSE None

\* port_id, of the text p.n: priority in 8 bits, number in 16.
PortId(t) ==
    IF t = None THEN None
    ELSE IF t.p * 16 < 256 /\ t.n < 65536 THEN [priority |-> t.p * 16, num |-> t.n] ELSE None

\* bridge_id of mib.rs, where an address that does not parse is zero.
BridgeIdText(id) ==
    Base64(<<id.priority \div 256, id.priority % 256>>
           \o (IF id.address = None THEN <<0, 0, 0, 0, 0, 0>> ELSE id.address))

\* dot1dStpPortDesignatedPort: four bits of priority, twelve of the number.
DesignatedPort(priority, num) ==
    LET id == (priority \div 16) * 4096 + (num % 4096)
    IN  Base64(<<id \div 256, id % 256>>)

\* Mutant of Int32: as it is.
Int32Wide(v) == v

\* int32, of an unsigned number
Int32(v) == AtMost(v, U32 \div 2 - 1)

\* A counter that wraps.
Counter32(n) == n % U32

-----------------------------------------------------------------------------
\* What a manager reads (RFC 4648): the bits of the text that are set, from 1.
Bits(text) ==
    { n \in 1..(6 * Len(text)) :
        LET c == text[(n - 1) \div 6 + 1]
        IN  c # Pad /\ (c \div 2^(5 - ((n - 1) % 6))) % 2 = 1 }

\* The octets whose bits are set, as a reference for what the text stands for.
BitsOf(octets) ==
    { n \in 1..(8 * Len(octets)) : (octets[(n - 1) \div 8 + 1] \div 2^(7 - ((n - 1) % 8))) % 2 = 1 }
=============================================================================
