------------------------------ MODULE FindingLog ------------------------------
(***************************************************************************)
(* What the alert path promises of one replica: a fingerprint is on record *)
(* from its first alert on, and its finding is announced until it is       *)
(* marked, which without the Slack post is at once.  The comment in        *)
(* ops_diagnosis_service.py says it in one line ("Only notify on first     *)
(* insert (not every duplicate alert)").  A restart forgets the record,    *)
(* which lives in the process.                                             *)
(***************************************************************************)
EXTENDS Naturals

CONSTANTS Replica, Fp

VARIABLES slack,       \* announcing takes time
          recorded,    \* recorded[r][fp]: replica r holds a finding for fp
          marked,      \* marked[r][fp]: it says that it was announced
          announced    \* announced[r][fp]: times it was announced

vars == <<slack, recorded, marked, announced>>

Init == /\ slack \in BOOLEAN
        /\ recorded = [r \in Replica |-> [fp \in Fp |-> FALSE]]
        /\ marked = [r \in Replica |-> [fp \in Fp |-> FALSE]]
        /\ announced = [r \in Replica |-> [fp \in Fp |-> 0]]

\* The first alert for fp.
Record(r, fp) == /\ ~recorded[r][fp]
                 /\ recorded' = [recorded EXCEPT ![r][fp] = TRUE]
                 /\ marked' = [marked EXCEPT ![r][fp] = ~slack]
                 /\ announced' = [announced EXCEPT ![r][fp] = 1]
                 /\ UNCHANGED slack

\* Another one, while the announcement is on its way.
Repeat(r, fp) == /\ recorded[r][fp] /\ ~marked[r][fp]
                 /\ announced' = [announced EXCEPT ![r][fp] = @ + 1]
                 /\ UNCHANGED <<slack, recorded, marked>>

\* The announcement is over.
Mark(r, fp) == /\ recorded[r][fp]
               /\ marked' = [marked EXCEPT ![r][fp] = TRUE]
               /\ UNCHANGED <<slack, recorded, announced>>

Forget(r) == /\ recorded' = [recorded EXCEPT ![r] = [fp \in Fp |-> FALSE]]
             /\ marked' = [marked EXCEPT ![r] = [fp \in Fp |-> FALSE]]
             /\ announced' = [announced EXCEPT ![r] = [fp \in Fp |-> 0]]
             /\ UNCHANGED slack

Next == \E r \in Replica :
          \/ Forget(r)
          \/ \E fp \in Fp : Record(r, fp) \/ Repeat(r, fp) \/ Mark(r, fp)

Spec == Init /\ [][Next]_vars
=============================================================================
