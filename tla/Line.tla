---------------------------------- MODULE Line ----------------------------------
(***************************************************************************)
(* What a limit on work done at once promises whoever asks for some: at     *)
(* most AtOnce of those in line have begun, they begin in the order they    *)
(* came, and the line is never longer than MaxWaiting.                      *)
(*                                                                          *)
(* Whoever is turned away never entered, and is no step of this module.     *)
(***************************************************************************)
EXTENDS Naturals, FiniteSets

CONSTANTS
  Callers,
  AtOnce,       \* how many may be at work
  MaxWaiting    \* how many more may be in line

VARIABLES
  line,         \* callers that were let in and whose work is not over
  before,       \* of each of them, the ones that came before it
  begun         \* the ones whose work has begun

vars == <<line, before, begun>>

TypeOK ==
  /\ line \subseteq Callers
  /\ before \in [Callers -> SUBSET Callers]
  /\ begun \subseteq line

Init ==
  /\ line = {}
  /\ before = [c \in Callers |-> {}]
  /\ begun = {}

\* One with a free place begins as it comes.
Enter(c) ==
  /\ c \notin line
  /\ Cardinality(line) < AtOnce + MaxWaiting
  /\ line' = line \cup {c}
  /\ before' = [before EXCEPT ![c] = line]
  /\ begun' = IF Cardinality(line) < AtOnce THEN begun \cup {c} ELSE begun

Begin(c) ==
  /\ c \in line \ begun
  /\ Cardinality(before[c]) < AtOnce
  /\ begun' = begun \cup {c}
  /\ UNCHANGED <<line, before>>

End(c) ==
  /\ c \in begun
  /\ line' = line \ {c}
  /\ before' = [d \in Callers |-> IF d = c THEN {} ELSE before[d] \ {c}]
  /\ begun' = begun \ {c}

Next == \E c \in Callers : Enter(c) \/ Begin(c) \/ End(c)

Spec == Init /\ [][Next]_vars

=============================================================================
