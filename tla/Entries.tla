------------------------------ MODULE Entries ------------------------------
(***************************************************************************)
(* How the entries of each command are merged (the HashAndOrd impls of     *)
(* idle.rs, ttl.rs, memory.rs and sum.rs).  Bits is the width of an i64,   *)
(* scaled down.                                                            *)
(***************************************************************************)
EXTENDS Integers

CONSTANT Bits

\* The second line, a fact of arithmetic, is what the proofs use of powers.
ASSUME BitsAssumption ==
  /\ Bits \in Nat /\ Bits >= 2
  /\ 2 ^ (Bits - 1) \in Nat /\ 2 ^ (Bits - 1) >= 2 /\ 2 ^ Bits = 2 * 2 ^ (Bits - 1)

Int64 == -(2 ^ (Bits - 1)) .. 2 ^ (Bits - 1) - 1

\* i64 addition as the release build does it: it wraps.
Wrapped(x) == ((x + 2 ^ (Bits - 1)) % 2 ^ Bits) - 2 ^ (Bits - 1)

\* idle, ttl: the entry stays as it is
FirstWins(old, new) == old

\* memory, sum: += in place
AddUp(old, new) == Wrapped(old + new)
=============================================================================
