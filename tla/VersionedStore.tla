--------------------------- MODULE VersionedStore ---------------------------
(***************************************************************************)
(* What internal/database promises to its callers, with no transactions,   *)
(* no snapshots and no failures in sight: one register per key, every      *)
(* write stamped with a fresh version, and a write over an existing value  *)
(* allowed only to a client that holds the version it overwrites.          *)
(***************************************************************************)
EXTENDS Integers

CONSTANTS Keys,     \* the keys of the store
          Values,   \* what can be stored under a key
          Absent,   \* the content of a key that holds nothing
          Clients   \* whoever holds a version: the owners of entries

VARIABLES reg,      \* reg[k]: content of k and the version of its last write
          clock,    \* the last version given out
          held      \* held[c]: the version client c would write against

vsVars == <<reg, clock, held>>

VSInit ==
    /\ reg = [k \in Keys |-> [val |-> Absent, ts |-> 0]]
    /\ clock = 0
    /\ held = [c \in Clients |-> 0]

Stamp(k, x) ==
    /\ clock' = clock + 1
    /\ reg' = [reg EXCEPT ![k] = [val |-> x, ts |-> clock + 1]]
    /\ UNCHANGED held

\* A client may come to hold any version given out so far (reads may be
\* served from a snapshot), or 0, "no version".
Hold(c) ==
    \E n \in 0 .. clock :
        /\ held' = [held EXCEPT ![c] = n]
        /\ UNCHANGED <<reg, clock>>

Create(k, v) ==
    /\ reg[k].val = Absent
    /\ Stamp(k, v)

Replace(c, k, v) ==
    /\ reg[k].val # Absent
    /\ held[c] = reg[k].ts
    /\ Stamp(k, v)

Erase(c, k) ==
    /\ reg[k].val # Absent
    /\ held[c] = reg[k].ts
    /\ Stamp(k, Absent)

\* All clients disappear; the registers stay.
ForgetAll ==
    /\ held' = [c \in Clients |-> 0]
    /\ UNCHANGED <<reg, clock>>

VSNext ==
    \/ \E c \in Clients : Hold(c)
    \/ \E k \in Keys, v \in Values : Create(k, v)
    \/ \E c \in Clients, k \in Keys, v \in Values : Replace(c, k, v)
    \/ \E c \in Clients, k \in Keys : Erase(c, k)
    \/ ForgetAll

VSSpec == VSInit /\ [][VSNext]_vsVars
=============================================================================
