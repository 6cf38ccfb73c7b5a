------------------------------ MODULE VersionedMap ------------------------------
(***************************************************************************)
(* What one shard of the store promises, whatever its durability level: a  *)
(* map from keys to values of which the newest versions may be lost in a   *)
(* crash.  The sequence holds the versions a crash may fall back to; its   *)
(* first element is durable and its last one is the present map.           *)
(***************************************************************************)
EXTENDS Integers, Sequences

CONSTANTS Keys, Values, Absent

VARIABLES
    versions,   \* maps a crash may fall back to, oldest first
    up          \* the store is open

vars == <<versions, up>>

TypeOK ==
    /\ versions \in Seq([Keys -> Values \cup {Absent}])
    /\ versions # <<>>
    /\ up \in BOOLEAN

Init == versions = <<[k \in Keys |-> Absent]>> /\ up = TRUE

\* A Put or a Delete adds a version that differs in one key.
Write(k, v) ==
    /\ up /\ up' = up
    /\ versions' = Append(versions, [versions[Len(versions)] EXCEPT ![k] = v])

\* Versions become durable: the older ones cannot come back.
Persist(n) ==
    /\ up /\ up' = up
    /\ versions' = SubSeq(versions, n, Len(versions))

\* Only the end of a life loses anything, and it loses the newest versions.
Stop(m, n) ==
    /\ up' = FALSE
    /\ versions' = SubSeq(versions, m, n)

Start ==
    /\ ~ up /\ up' = TRUE
    /\ versions' = versions

Next ==
    \/ \E k \in Keys, v \in Values \cup {Absent} : Write(k, v)
    \/ \E n \in 1 .. Len(versions) : Persist(n)
    \/ \E n \in 1 .. Len(versions) : \E m \in 1 .. n : Stop(m, n)
    \/ Start

Spec == Init /\ [][Next]_vars

==============================================================================
