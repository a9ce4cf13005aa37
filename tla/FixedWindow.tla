------------------------------ MODULE FixedWindow ------------------------------
(***************************************************************************)
(* The counter of requests in windows of a fixed length that a process     *)
(* keeps in its memory (src/lib/ratelimit/fixedWindowLimiter.ts).          *)
(*                                                                          *)
(* A table is the Map of the code: a sequence of windows, in the order they *)
(* were put in.                                                             *)
(***************************************************************************)
EXTENDS Tables

WindowsFrom(times, keys, limit) ==
  [key : keys, startedAt : times, count : 1..limit]

Tables(times, keys, limit, maxTracked) ==
  UNION {[1..n -> WindowsFrom(times, keys, limit)] : n \in 0..maxTracked}

\* Mutant: a window runs out a moment early.
OpenUntilLast(table, key, now, windowMs) ==
  {i \in DOMAIN table : table[i].key = key /\ now + 1 < table[i].startedAt + windowMs}

\* The window of a key, if it has one that has not run out.
OpenAt(table, key, now, windowMs) ==
  {i \in DOMAIN table : table[i].key = key /\ now < table[i].startedAt + windowMs}

Allows(table, key, now, limit, windowMs) ==
  \A i \in OpenAt(table, key, now, windowMs) : table[i].count < limit

\* A renewed window goes to the back.
StartWindow(table, key, now, maxTracked) ==
  PutLast(table, [key |-> key, startedAt |-> now, count |-> 1], maxTracked)

\* The table after one more request of a key: a refusal leaves it as it was.
Check(table, key, now, limit, windowMs, maxTracked) ==
  LET open == OpenAt(table, key, now, windowMs)
  IN  IF open = {} THEN StartWindow(table, key, now, maxTracked)
      ELSE [i \in DOMAIN table |->
              IF i \in open /\ table[i].count < limit
              THEN [table[i] EXCEPT !.count = @ + 1] ELSE table[i]]
=============================================================================
