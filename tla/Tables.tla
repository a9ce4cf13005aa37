--------------------------------- MODULE Tables ---------------------------------
(***************************************************************************)
(* The Maps with a ceiling that this code keeps in its memory               *)
(* (src/lib/ratelimit/fixedWindowLimiter.ts, src/lib/cache/keptReads.ts,    *)
(* src/lib/ai/interpretationCache.ts): sequences of entries, each with its  *)
(* key, in the order they were put in.                                      *)
(***************************************************************************)
EXTENDS Naturals, Sequences

\* A key has one entry at most.
Without(table, key) ==
  IF \E i \in DOMAIN table : table[i].key = key
  THEN LET i == CHOOSE i \in DOMAIN table : table[i].key = key
       IN  SubSeq(table, 1, i - 1) \o SubSeq(table, i + 1, Len(table))
  ELSE table

\* The oldest give way until there is room for one more.
EvictUntilRoom(table, max) ==
  IF Len(table) < max THEN table ELSE SubSeq(table, Len(table) - max + 2, Len(table))

\* An entry goes to the back, its key's own let go first, then the oldest.
PutLast(table, entry, max) ==
  Append(EvictUntilRoom(Without(table, entry.key), max), entry)
=============================================================================
