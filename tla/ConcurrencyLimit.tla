----------------------------- MODULE ConcurrencyLimit -----------------------------
(***************************************************************************)
(* src/lib/cache/concurrency.ts: limitConcurrency, and concurrencyBudget    *)
(* around it.  With MaxWaiting as large as the callers are many, nobody is  *)
(* ever turned away, and this is limitConcurrency alone.                    *)
(*                                                                          *)
(* One action is what runs between two awaits.  A caller that was handed a  *)
(* place wakes some turns of the microtask queue later, and one whose work  *)
(* is over is counted out of the budget later still; others ask meanwhile.  *)
(* Whether the work answered or threw makes no difference: finally.         *)
(***************************************************************************)
EXTENDS Naturals, FiniteSets, Sequences

CONSTANTS
  Callers,      \* of each, one call at a time; it may call again
  AtOnce,       \* atOnce
  MaxWaiting    \* maxWaiting

ASSUME LimitAssumption ==
  /\ IsFiniteSet(Callers)
  /\ AtOnce \in Nat \ {0}
  /\ MaxWaiting \in Nat

VARIABLES
  running,      \* places taken, the ones handed over included
  waiting,      \* the callers to be woken, in turn
  admitted,     \* callers in the budget
  at,           \* where each caller is
  before        \* of each caller, those that asked before it and are not over (history)

limitVars == <<running, waiting, admitted, at, before>>

Places == {"outside", "waiting", "woken", "working", "leaving", "refused"}

InLine == {c \in Callers : at[c] \in {"waiting", "woken", "working"}}
Placed == {c \in Callers : at[c] \in {"woken", "working"}}
Working == {c \in Callers : at[c] = "working"}
InBudget == {c \in Callers : at[c] \in {"waiting", "woken", "working", "leaving"}}

LimitTypeOK ==
  /\ running \in Nat
  /\ waiting \in Seq(Callers)
  /\ admitted \in Nat
  /\ at \in [Callers -> Places]
  /\ before \in [Callers -> SUBSET Callers]

LimitInit ==
  /\ running = 0
  /\ waiting = <<>>
  /\ admitted = 0
  /\ at = [c \in Callers |-> "outside"]
  /\ before = [c \in Callers |-> {}]

-----------------------------------------------------------------------------
\* The line is full.
Refuse(c) ==
  /\ at[c] = "outside"
  /\ admitted >= AtOnce + MaxWaiting
  /\ at' = [at EXCEPT ![c] = "refused"]
  /\ UNCHANGED <<running, waiting, admitted, before>>

Ask(c) ==
  /\ at[c] = "outside"
  /\ admitted < AtOnce + MaxWaiting
  /\ admitted' = admitted + 1
  /\ before' = [before EXCEPT ![c] = InLine]
  /\ IF running >= AtOnce
     THEN /\ waiting' = Append(waiting, c)
          /\ at' = [at EXCEPT ![c] = "waiting"]
          /\ UNCHANGED running
     ELSE /\ running' = running + 1
          /\ at' = [at EXCEPT ![c] = "working"]
          /\ UNCHANGED waiting

\* The promise a caller waited on was resolved some turns ago.
Wake(c) ==
  /\ at[c] = "woken"
  /\ at' = [at EXCEPT ![c] = "working"]
  /\ UNCHANGED <<running, waiting, admitted, before>>

Forgotten(c) == [d \in Callers |-> IF d = c THEN {} ELSE before[d] \ {c}]

\* Mutant: the place is handed over and given up.
EndGivenUpToo(c) ==
  /\ at[c] = "working"
  /\ before' = Forgotten(c)
  /\ running' = running - 1
  /\ IF waiting = <<>>
     THEN at' = [at EXCEPT ![c] = "leaving"] /\ UNCHANGED waiting
     ELSE /\ waiting' = Tail(waiting)
          /\ at' = [at EXCEPT ![c] = "leaving", ![Head(waiting)] = "woken"]
  /\ UNCHANGED admitted

\* Mutant: the place is given up, and nobody is woken.
EndWakesNobody(c) ==
  /\ at[c] = "working"
  /\ before' = Forgotten(c)
  /\ running' = running - 1
  /\ at' = [at EXCEPT ![c] = "leaving"]
  /\ UNCHANGED <<waiting, admitted>>

\* The work of a caller has settled: its place goes to the next in line.
End(c) ==
  /\ at[c] = "working"
  /\ before' = Forgotten(c)
  /\ IF waiting = <<>>
     THEN /\ running' = running - 1
          /\ at' = [at EXCEPT ![c] = "leaving"]
          /\ UNCHANGED waiting
     ELSE /\ waiting' = Tail(waiting)
          /\ at' = [at EXCEPT ![c] = "leaving", ![Head(waiting)] = "woken"]
          /\ UNCHANGED running
  /\ UNCHANGED admitted

\* Mutant: a place in the budget is not given back.
LeaveCounted(c) ==
  /\ at[c] = "leaving"
  /\ at' = [at EXCEPT ![c] = "outside"]
  /\ UNCHANGED <<running, waiting, admitted, before>>

\* The budget's own finally.
Leave(c) ==
  /\ at[c] = "leaving"
  /\ admitted' = admitted - 1
  /\ at' = [at EXCEPT ![c] = "outside"]
  /\ UNCHANGED <<running, waiting, before>>

\* The caller is told to try again shortly, and may.
TurnedAway(c) ==
  /\ at[c] = "refused"
  /\ at' = [at EXCEPT ![c] = "outside"]
  /\ UNCHANGED <<running, waiting, admitted, before>>

LimitNext == \E c \in Callers : \/ Refuse(c) \/ Ask(c) \/ Wake(c)
                           \/ End(c) \/ Leave(c) \/ TurnedAway(c)

LimitSpec == LimitInit /\ [][LimitNext]_limitVars

\* The loop runs what is due, and work settles in the end: a read of a source
\* has its own limit in time, and a card is drawn.  Nobody has to ask.
LimitFairness == \A c \in Callers : WF_limitVars(Wake(c)) /\ WF_limitVars(End(c)) /\ WF_limitVars(Leave(c))

LimitFairSpec == LimitSpec /\ LimitFairness

-----------------------------------------------------------------------------
(***************************************************************************)
(* The limit implements the line: nobody begins while AtOnce that came     *)
(* before are not over, whoever wakes late, and no more than MaxWaiting    *)
(* wait (concurrency.ts:19-24 on the place handed straight to the next,    *)
(* 47-53 on the bound of the line).                                        *)
(***************************************************************************)
Promise == INSTANCE Line WITH line <- InLine, begun <- Working

IsALine == Promise!Spec

\* A place is counted from the moment a task is admitted to the moment it
\* settles, whichever way (concurrency.ts:55-57): whoever is turned away was
\* turned away by as many others as the budget has places.
TurnedAwayWhenFull ==
  [][\A c \in Callers : at'[c] = "refused" /\ at[c] # "refused"
                          => Cardinality(InBudget) = AtOnce + MaxWaiting]_limitVars

\* Whoever is let in has its work begun: a place given back always goes to
\* somebody, and the line moves on past a task that failed (concurrency.ts:7).
EveryoneBegins == \A c \in Callers : at[c] = "waiting" ~> at[c] = "working"

=============================================================================
