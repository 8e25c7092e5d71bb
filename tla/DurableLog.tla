------------------------------ MODULE DurableLog ------------------------------
(***************************************************************************)
(* What the consensus part of a safekeeper can rely on its WAL storage     *)
(* for: a log of records that grows at its end and is given up only from   *)
(* its end.  A kill takes nothing but what a truncation was about to cut.  *)
(* A power failure takes what is not flushed, and what is exposed: flushed *)
(* as far as the storage says, on the word of a restart after a kill.      *)
(***************************************************************************)
EXTENDS Integers, Sequences

CONSTANTS
    Terms,            \* who wrote a record
    MaxAppend         \* how many records one write may complete

VARIABLES
    log,              \* the records, as the terms that wrote them
    flushed,          \* how many of them are flushed
    keep,             \* how many a truncation asked to keep
    exposed           \* flushed and kept, and yet not on stable storage

logVars == <<log, flushed, keep, exposed>>

Prefix(n) == SubSeq(log, 1, n)

Init == log = << >> /\ flushed = 0 /\ keep = 0 /\ exposed = {}

Grow(t) ==
    /\ keep = Len(log)
    /\ \E n \in 1 .. MaxAppend : log' = log \o [i \in 1 .. n |-> t]
    /\ keep' = Len(log')
    /\ UNCHANGED <<flushed, exposed>>

(* Records that are reported as flushed only now are on stable storage.    *)
Flush ==
    /\ keep = Len(log)
    /\ flushed < Len(log)
    /\ flushed' = Len(log)
    /\ exposed' \in SUBSET exposed
    /\ UNCHANGED <<log, keep>>

(* Exposed records reach stable storage.                                   *)
Settle ==
    /\ exposed' \in SUBSET exposed
    /\ UNCHANGED <<log, flushed, keep>>

BeginTruncate ==
    /\ keep' \in 0 .. keep
    /\ exposed' \in SUBSET exposed
    /\ UNCHANGED <<log, flushed>>

FinishTruncate ==
    /\ log' = Prefix(keep)
    /\ flushed' = keep
    /\ exposed' \in SUBSET (exposed \cap 1 .. keep)
    /\ UNCHANGED keep

(* What is found is reported as flushed.  What the truncation was about to *)
(* cut is not given up: a power failure may bring it back.                 *)
Kill ==
    /\ \E n \in keep .. Len(log) :
          /\ keep' = n
          /\ flushed' = n
          /\ exposed' \in SUBSET (exposed \cup {i \in 1 .. n : i > flushed \/ i > keep})
    /\ UNCHANGED log

PowerFailure ==
    \E n \in 0 .. Len(log) :
        /\ n >= flushed \/ n >= keep \/ n + 1 \in exposed
        /\ log' = Prefix(n)
        /\ flushed' = n
        /\ keep' = n
        /\ exposed' \in SUBSET (exposed \cap 1 .. n)

Next ==
    \/ \E t \in Terms : Grow(t)
    \/ Flush \/ Settle
    \/ BeginTruncate \/ FinishTruncate
    \/ Kill \/ PowerFailure

Spec == Init /\ [][Next]_logVars

=============================================================================
