------------------------------ MODULE MCPciBar ------------------------------
(***************************************************************************)
(* PciBar in an address space of eight bits, with the sixteen values of    *)
(* the flags at their real width, for adapters with two registers: two     *)
(* 32-bit ones, or one 64-bit one below the top.                           *)
(***************************************************************************)
EXTENDS PciBar

Register(k, s, f, b) == [kind |-> k, size |-> s, flags |-> f, base |-> b]
Aligned(s) == {b \in 0 .. Top - 1 : b % s = 0}

Absent == {Register("none", Top, 0, 0)}
Ports == {Register("port", s, 1, b) : s \in {4, 16}, b \in {0, 16, 48, 208}}
Memory(flags) ==
  UNION {{Register("memory", s, f, b) : f \in flags, b \in Aligned(s)} : s \in {16, 32, 64, 128}}

\* The low half of a register of Top bytes or more has no address bits.
Huge == {Register("none", Top, 12, 0)}
High == {Register("high", 1, 0, 0)}

Single == Absent \cup Ports \cup Memory({0, 8})
Pair(a, b) == [j \in 0 .. 1 |-> IF j = 0 THEN a ELSE b]
SmallLayouts ==
  {Pair(a, b) : a, b \in Single} \cup {Pair(a, b) : a \in Memory({4, 12}) \cup Huge, b \in High}

\* The other function of a device that carries an adapter as its function 1.
TwoFunctions == {0, 1}
OtherLayouts == {Pair(Register("memory", 64, 8, 64), Register("port", 16, 1, 48))}
=============================================================================
