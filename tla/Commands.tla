------------------------------ MODULE Commands ------------------------------
(***************************************************************************)
(* What distinguishes the four commands that report rows: the arguments    *)
(* that shape the result, how a reply becomes an entry, the size of the    *)
(* queue, and which of the sorted results are printed.                     *)
(*                                                                         *)
(* Keys and groups are integers that stand for their int_hash (sum and     *)
(* memory hash the two under different prefixes, so they never coincide);  *)
(* hash collisions are not modelled.  Option values are sets of at most    *)
(* one element.  An operator whose name ends in _Fault is a plausible bug  *)
(* in the one that follows it; nothing uses it but the mutation runs.      *)
(***************************************************************************)
EXTENDS Entries, SequencesExt

CONSTANTS
  Nil,              \* no value: a nil reply, None in an Option
  Command,          \* "idle", "ttl", "memory" or "sum"
  Decr,             \* --decr, of sum
  SkipMissing,      \* --skip-missing, of ttl
  Limit, Offset,    \* --limit, --offset
  MaxIndexSize,     \* --max-index-size, of memory and sum: {} or {a number}
  GroupBy,          \* --group-by is given (and is a valid expression)
  GroupOf,          \* the keys it captures something of, mapped to the group
  FilterMissing     \* --filter-missing-groups

ASSUME CommandAssumption ==
  /\ Command \in {"idle", "ttl", "memory", "sum"}
  /\ Decr => Command = "sum"
  /\ SkipMissing => Command = "ttl"
  /\ GroupBy \/ MaxIndexSize # {} => Command \in {"memory", "sum"}
  /\ ~GroupBy => DOMAIN GroupOf = {}
  /\ Limit \in Nat /\ Offset \in Nat /\ MaxIndexSize \subseteq Nat

\* What identifies the entry of key k.
Identity_Fault(k) == k
Identity(k) == IF k \in DOMAIN GroupOf THEN GroupOf[k] ELSE k

HasTotal == Command \in {"memory", "sum"}

MergeOf(old, new) == IF HasTotal THEN AddUp(old, new) ELSE FirstWins(old, new)

\* The replies for which no entry is made but the key counts as skipped.
Skips_Fault(k, reply) == FALSE
Skips(k, reply) ==
  CASE HasTotal        -> FilterMissing /\ GroupBy /\ k \notin DOMAIN GroupOf
    [] Command = "ttl" -> SkipMissing /\ reply \in {Nil, -1}
    [] OTHER           -> FALSE

\* The replies that are passed over in silence.
Ignores(reply) == reply = Nil /\ Command # "ttl"

WeightOf(reply) == IF reply = Nil THEN -1 ELSE reply

\* u64 arithmetic, in the scaled-down width: it wraps, or saturates.
U64Max == 2 ^ Bits - 1
Saturating(x) == IF x > U64Max THEN U64Max ELSE x

QueueSize_Fault == Saturating(Limit)    \* the offset is forgotten
QueueSize ==
  IF ~HasTotal THEN (Limit + Offset) % (U64Max + 1)
  ELSE IF Command = "sum" /\ Limit = 0 THEN 0
  ELSE IF MaxIndexSize # {} THEN CHOOSE m \in MaxIndexSize : TRUE
  ELSE Saturating(Limit + Offset)

\* Iterator::skip and Iterator::take
Skip(s, n) == SubSeq(s, n + 1, Len(s))
First(s, n) == SubSeq(s, 1, IF n < Len(s) THEN n ELSE Len(s))

Printed_Fault(results) ==    \* take before skip
  Skip(First(results, Limit), Offset)
Printed(results) ==
  IF HasTotal /\ ~(Command = "sum" /\ Limit = 0)
  THEN First(Skip(results, Offset), Limit)
  ELSE Skip(results, Offset)
=============================================================================
