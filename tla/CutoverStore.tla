----------------------------- MODULE CutoverStore -----------------------------
(***************************************************************************)
(* The Agent's FileCutoverStore (agent/runtime/cutover_store.go): for each *)
(* slot the newest Deployment seen and whether it was canceled, in memory  *)
(* and in a file that replaceRestrictedStateFile replaces.                 *)
(*                                                                         *)
(* A replacement may fail before the rename (the file is unchanged) or     *)
(* after it (the directory could not be synced: the file is new, the       *)
(* caller is told it failed and takes its change of the memory back).      *)
(***************************************************************************)
EXTENDS Integers, FiniteSets

CONSTANTS
    Slots,        \* stable container names
    Deployments,  \* Deployment ids
    None,
    Maximum,      \* cutover_watermark_size
    MaxSequence   \* bound on the cutover sequences

ASSUME StoreAssumption ==
    /\ IsFiniteSet(Slots) /\ None \notin Deployments
    /\ Maximum \in Nat \ {0} /\ MaxSequence \in Nat

Numbers == 1 .. MaxSequence

Watermarks == [deployment : Deployments, seq : Numbers, canceled : BOOLEAN]

NoEntry == [deployment |-> None, seq |-> 0, canceled |-> FALSE]

VARIABLES
    entries,   \* the map in memory
    file,      \* the content of deployment-cutovers.json
    promised   \* for each slot, the last entry that a caller was told is
               \* stored, unless a release of the slot was asked for since

vars == <<entries, file, promised>>

Init ==
    /\ entries = [s \in Slots |-> NoEntry]
    /\ file = [s \in Slots |-> NoEntry]
    /\ promised = [s \in Slots |-> NoEntry]

Count(map) == Cardinality({s \in Slots : map[s] # NoEntry})

\* Mistake: off by one.
OverFull == Count(entries) > Maximum

\* There is no room for a new slot.
Full == Count(entries) >= Maximum

\* Entry w makes Observe report Deployment d with sequence n as stale.
Stale(w, d, n) == \/ n < w.seq
                  \/ n = w.seq /\ (d # w.deployment \/ w.canceled)

\* Entry v refuses everything that entry w refuses.
Covers(v, w) == \/ v.seq > w.seq
                \/ v.seq = w.seq /\ v.deployment = w.deployment
                   /\ (w.canceled => v.canceled)

\* Write entry w of slot s: memory first, then the file; on success the
\* caller is told, on failure the memory is put back.
Persist(s, w) ==
    \/ /\ entries' = [entries EXCEPT ![s] = w]
       /\ file' = [entries EXCEPT ![s] = w]
       /\ promised' = [promised EXCEPT ![s] = w]
    \/ /\ file' \in {file, [entries EXCEPT ![s] = w]}
       /\ UNCHANGED <<entries, promised>>

\* Mistake: the entry claims the sequence after the one observed.
NumberedBeyond(d, n) == [deployment |-> d, seq |-> n + 1, canceled |-> FALSE]

\* The entry that Observe stores.
Numbered(d, n) == [deployment |-> d, seq |-> n, canceled |-> FALSE]

\* Observe for a Deployment that moves the slot forward.  (A stale or an
\* unchanged entry is reported and nothing changes.)
Observe(s, d, n) ==
    LET e == entries[s] IN
    /\ ~Stale(e, d, n)
    /\ n # e.seq
    /\ e # NoEntry \/ ~Full
    /\ Persist(s, Numbered(d, n))

\* Mistake: an older cancel replaces the newer entry.
CancelAny(s, d, n) ==
    LET e == entries[s]
        w == [deployment |-> d, seq |-> n, canceled |-> TRUE] IN
    /\ e # NoEntry \/ ~Full
    /\ Persist(s, w)

\* Cancel of an execution that no newer entry covers.
Cancel(s, d, n) ==
    LET e == entries[s]
        w == [deployment |-> d, seq |-> n, canceled |-> TRUE] IN
    /\ ~Stale(e, d, n)
    /\ e # NoEntry \/ ~Full
    /\ Persist(s, w)

\* Release of exactly the current entry.
Release(s, d, n) ==
    /\ entries[s] # NoEntry
    /\ entries[s].deployment = d /\ entries[s].seq = n
    /\ promised' = [promised EXCEPT ![s] = NoEntry]
    /\ \/ /\ entries' = [entries EXCEPT ![s] = NoEntry]
          /\ file' = [entries EXCEPT ![s] = NoEntry]
       \/ /\ file' \in {file, [entries EXCEPT ![s] = NoEntry]}
          /\ UNCHANGED entries

\* The Agent restarts and loads the file.
Restart ==
    /\ entries' = file
    /\ UNCHANGED <<file, promised>>

Next ==
    \/ \E s \in Slots, d \in Deployments, n \in Numbers :
          Observe(s, d, n) \/ Cancel(s, d, n) \/ Release(s, d, n)
    \/ Restart

Spec == Init /\ [][Next]_vars
-----------------------------------------------------------------------------
(* Properties.                                                             *)

TypeOK ==
    /\ entries \in [Slots -> Watermarks \cup {NoEntry}]
    /\ file \in [Slots -> Watermarks \cup {NoEntry}]
    /\ promised \in [Slots -> Watermarks \cup {NoEntry}]

\* What Observe or Cancel reported as stored is refused or repeated from then
\* on, by this process and by one that restarts from the file, whatever
\* writes for this or another slot failed half-way, until the slot is
\* released: an older Deployment never becomes current again.
PromiseKept ==
    \A s \in Slots : /\ Covers(entries[s], promised[s])
                     /\ Covers(file[s], promised[s])

\* The file never holds more entries than load accepts: an Agent whose store
\* is full, or whose writes failed, can still restart.
RestartIsPossible == Count(file) <= Maximum
=============================================================================
