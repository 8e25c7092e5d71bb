---------------------------- MODULE TermHistory ----------------------------
(***************************************************************************)
(* The term history of a piece of WAL, as safekeepers persist it and       *)
(* walproposers compare it: a sequence of <<term, lsn>> switches, where    *)
(* lsn is the position at which the WAL written under that term begins.    *)
(*                                                                         *)
(* An LSN is a position between records; 0 is the invalid LSN.  A WAL is   *)
(* abstracted to the sequence of the terms its records were written under  *)
(* (see WalConsensus), which is all the consensus can tell apart.          *)
(***************************************************************************)
EXTENDS Integers, Sequences, FiniteSets

\* The invalid LSN does not occur in histories.
TermLsn == [term : Nat, lsn : Nat \ {0}]

MinOf(a, b) == IF a <= b THEN a ELSE b
MaxOf(a, b) == IF a >= b THEN a ELSE b

(***************************************************************************)
(* Number of leading switches that happen at or before lsn; the scan stops *)
(* at the first one that happens later.                                    *)
(***************************************************************************)
SwitchesUpTo(th, lsn) ==
    Cardinality({n \in 1..Len(th) : \A i \in 1..n : th[i].lsn <= lsn})

\* TermHistory::up_to: the history without the switches strictly after lsn.
UpTo(th, lsn) == SubSeq(th, 1, SwitchesUpTo(th, lsn))

\* GetHighestTerm: the term of the last switch, 0 for an empty history.
HighestTerm(th) == IF th = << >> THEN 0 ELSE th[Len(th)].term

\* AcceptorState::get_epoch: the term of the highest entry of a WAL that
\* ends at lsn.
EpochAt(th, lsn) == HighestTerm(UpTo(th, lsn))

(***************************************************************************)
(* Number of leading switches with the same term in both histories.        *)
(***************************************************************************)
CommonSwitches(prop_th, sk_th) ==
    Cardinality({n \in 1..MinOf(Len(prop_th), Len(sk_th)) :
                    \A i \in 1..n : prop_th[i].term = sk_th[i].term})

\* Mutant: the last common term is taken to fill the rest of the WAL.
TermEndAtWalEnd(th, i, wal_end) == wal_end

\* Where the term of switch i ends in a WAL with history th ending at wal_end.
TermEnd(th, i, wal_end) == IF i < Len(th) THEN th[i + 1].lsn ELSE wal_end

(***************************************************************************)
(* TermHistory::find_highest_common_point: the leader's history is taken   *)
(* to extend to infinity, the safekeeper's to sk_wal_end.  The result is a *)
(* sequence: empty for None, one element for Some.                         *)
(***************************************************************************)
FindHighestCommonPoint(prop_th, sk_th, sk_wal_end) ==
    LET i == CommonSwitches(prop_th, sk_th)
    IN  IF i = 0
        THEN << >>
        ELSE << [term |-> prop_th[i].term,
                 lsn  |-> IF i = Len(prop_th)
                          THEN sk_wal_end
                          ELSE MinOf(prop_th[i + 1].lsn,
                                     TermEnd(sk_th, i, sk_wal_end))] >>

(***************************************************************************)
(* The same computation as SendProposerElected does it: the leader's own   *)
(* term is recognised by its number, and without a common point streaming  *)
(* starts where the first term of the leader's history began.              *)
(***************************************************************************)
StartStreamingAt(prop_th, prop_term, sk_th, sk_flush_lsn) ==
    LET i == CommonSwitches(prop_th, sk_th)
    IN  IF i = 0
        THEN prop_th[1].lsn
        ELSE IF prop_th[i].term = prop_term
             THEN sk_flush_lsn
             ELSE MinOf(prop_th[i + 1].lsn, TermEnd(sk_th, i, sk_flush_lsn))

(***************************************************************************)
(* The term of the record at lsn in a WAL that has history th: the last    *)
(* switch at or before it.                                                 *)
(***************************************************************************)
TermOfRecord(th, lsn) == EpochAt(th, lsn)
=============================================================================
