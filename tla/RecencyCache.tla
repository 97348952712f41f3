---------------------------- MODULE RecencyCache ----------------------------
(***************************************************************************)
(* What a least recently used cache promises: it holds at most Capacity    *)
(* keys, and a key leaves it only when it is removed, or for a new one     *)
(* when every other key was used after it.                                 *)
(***************************************************************************)
EXTENDS Integers, FiniteSets

CONSTANTS Key, Capacity

VARIABLES
  held,   \* the keys in the cache
  after   \* <<k, l>>: l was used after k

vars == <<held, after>>

Init == held = {} /\ after = {}

\* k becomes the key used last among those in s.
Latest(s, k) == {p \in after : {p[1], p[2]} \subseteq s \ {k}}
                  \cup {<<l, k>> : l \in s \ {k}}

Use(k) ==
  /\ k \in held
  /\ held' = held
  /\ after' = Latest(held, k)

Oldest(s) == {k \in s : \A l \in s \ {k} : <<k, l>> \in after}

Enter(k) ==
  LET out == IF Cardinality(held) < Capacity THEN {} ELSE Oldest(held) IN
  /\ k \notin held
  /\ held' = (held \ out) \cup {k}
  /\ after' = Latest(held', k)
  /\ Cardinality(held') <= Capacity

Leave(s) ==
  /\ s \subseteq held
  /\ held' = held \ s
  /\ after' = {p \in after : {p[1], p[2]} \subseteq held'}

Next == \/ \E k \in Key : Use(k) \/ Enter(k)
        \/ \E s \in SUBSET Key : Leave(s)

Spec == Init /\ [][Next]_vars
=============================================================================
