---------------------------- MODULE WriteOnceStore ----------------------------
(***************************************************************************)
(* What the registry promises of an artefact (ext/src/registry.rs:30-35):  *)
(* a path names one artefact for the life of the cluster, and a reader     *)
(* that has seen it keeps answering from what it saw.  The one exception   *)
(* is a loss of power, which may take keys, and takes all readers.         *)
(***************************************************************************)
EXTENDS Naturals

CONSTANTS Readers, Keys, Values, Nothing, MaxLosses

VARIABLES
  store,   \* store[k]: the artefact at k, or Nothing
  view,    \* view[r][k]: what reader r remembers of k, or Nothing
  losses   \* losses of power so far, at most MaxLosses

storeVars == <<store, view, losses>>

Init ==
  /\ store = [k \in Keys |-> Nothing]
  /\ view = [r \in Readers |-> [k \in Keys |-> Nothing]]
  /\ losses = 0

\* The one and only write of a key.
Put(k, v) ==
  /\ store[k] = Nothing
  /\ store' = [store EXCEPT ![k] = v]
  /\ UNCHANGED <<view, losses>>

\* A reader learns the artefact and remembers it.
Learn(r, k) ==
  /\ store[k] # Nothing
  /\ view[r][k] = Nothing
  /\ view' = [view EXCEPT ![r][k] = store[k]]
  /\ UNCHANGED <<store, losses>>

\* Readers that start afresh remember nothing.
Forget(R) ==
  /\ view' = [r \in Readers |-> IF r \in R THEN [k \in Keys |-> Nothing] ELSE view[r]]
  /\ UNCHANGED <<store, losses>>

Lose(gone) ==
  /\ losses < MaxLosses
  /\ losses' = losses + 1
  /\ store' = [k \in Keys |-> IF k \in gone THEN Nothing ELSE store[k]]
  /\ view' = [r \in Readers |-> [k \in Keys |-> Nothing]]

Next ==
  \/ \E k \in Keys, v \in Values : Put(k, v)
  \/ \E r \in Readers, k \in Keys : Learn(r, k)
  \/ \E R \in SUBSET Readers : Forget(R)
  \/ \E gone \in SUBSET Keys : Lose(gone)

Spec == Init /\ [][Next]_storeVars

\* registry.rs:24-27: two readers never disagree about a key.
ReadersAgree ==
  \A r, q \in Readers, k \in Keys :
    view[r][k] # Nothing /\ view[q][k] # Nothing => view[r][k] = view[q][k]

=============================================================================
