---------------------------- MODULE DurableTenant ----------------------------
(***************************************************************************)
(* What the generations and the deletion queue together promise of one     *)
(* tenant, however many pageservers believe they hold it: there is one     *)
(* index that the tenant is, or would be, served from; no layer it names   *)
(* is ever deleted; and it never falls behind an LSN that was shown to     *)
(* the safekeepers, which discard WAL up to what they are shown.           *)
(***************************************************************************)
EXTENDS Integers

CONSTANT Objects

VARIABLES
    index,            \* the layers it names and the LSN it covers
    objects,          \* what object storage holds
    visible           \* the highest LSN shown to safekeepers

durableVars == <<index, objects, visible>>

Index == [layers : SUBSET Objects, lsn : Nat]

Init ==
    /\ index \in Index
    /\ index.lsn = 0
    /\ objects = index.layers
    /\ visible = 0

(* New objects are uploaded; the index changes, or stays.                  *)
Publish ==
    /\ objects \subseteq objects'
    /\ index' \in Index
    /\ index'.layers \subseteq objects'
    /\ index'.lsn >= visible
    /\ UNCHANGED visible

Delete ==
    /\ objects' \subseteq objects
    /\ index.layers \subseteq objects'
    /\ UNCHANGED <<index, visible>>

Expose ==
    /\ visible' > visible
    /\ visible' <= index.lsn
    /\ UNCHANGED <<index, objects>>

Next == Publish \/ Delete \/ Expose

Spec == Init /\ [][Next]_durableVars

=============================================================================
