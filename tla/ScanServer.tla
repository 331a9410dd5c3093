----------------------------- MODULE ScanServer -----------------------------
(***************************************************************************)
(* What the scan loops of all commands have in common: which keys of a     *)
(* page are left after the regular expressions, which pages a server can   *)
(* send, and how utils::scan_server goes from one to the next.             *)
(***************************************************************************)
EXTENDS Integers, FiniteSets, FiniteSetsExt

CONSTANTS
  Filter, Reject,   \* --filter, --reject: {} or an Expression; an invalid one
                    \* matches nothing
  Faults,           \* which of AllFaults the environment shows
  MaxPages          \* bounds the pages of a SCAN iteration

AllFaults == {"connect",      \* a connection cannot be set up
              "scan",         \* a SCAN fails
              "pipeline",     \* a pipeline fails, perhaps half executed
              "reply",        \* one command of a pipeline fails, or its reply is lost
              "duplicates",   \* a key is returned by several pages
              "interrupt"}    \* the user presses ctrl-c

ASSUME ScanServerAssumption ==
  /\ Cardinality(Filter) <= 1 /\ Cardinality(Reject) <= 1
  /\ \A e \in Filter \cup Reject : /\ DOMAIN e = {"valid", "matches"}
                                   /\ e.valid \in BOOLEAN
                                   /\ ~e.valid => e.matches = {}
  /\ Faults \subseteq AllFaults /\ MaxPages \in Nat \ {0}

\* and_then(|s| Regex::new(s).ok()): what does not compile is as good as absent.
Compiled(option) == {e \in option : e.valid}

\* regexp_match of the expression there is
Matches(option, k) == \E e \in option : k \in e.matches

ShouldSkip_Fault(k) ==    \* skips a key only if both expressions say so
  LET filter == Compiled(Filter)
  IN  filter # {} /\ ~Matches(filter, k) /\ Matches(Compiled(Reject), k)

ShouldSkip(k) ==
  LET filter == Compiled(Filter)
      reject == Compiled(Reject)
  IN  ~((filter # {} => Matches(filter, k)) /\ ~Matches(reject, k))

\* argv.rs:72-77: the keys that commands are about, of ks: "Keys that do not match
\* will be skipped before any subsequent operations are performed."
Selected(ks) == {k \in ks : (Filter # {} => Matches(Filter, k)) /\ ~Matches(Reject, k)}

\* The sum of the values of a function.
SumOver(f) == MapThenSumSet(LAMBDA x : f[x], DOMAIN f)

NoCounts == [scanned |-> 0, success |-> 0, skipped |-> 0, errored |-> 0]

\* The pages that can follow number of pages which returned seen, and whether
\* another one follows: SCAN returns every key that is there throughout the
\* iteration at least once, before or with the page that is the last.
Pages(present, seen, number) ==
  {p \in [keys : SUBSET present, more : BOOLEAN] :
     /\ p.more => number + 1 < MaxPages
     /\ ~p.more => present \subseteq seen \cup p.keys
     /\ "duplicates" \notin Faults => p.keys \cap seen = {}}

\* Where the scan loop goes after a page, a the task's state.
NextPage(a) == IF a.more THEN "scan" ELSE "done"
=============================================================================
