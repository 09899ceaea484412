----------------------------- MODULE MCAdmission -----------------------------
(***************************************************************************)
(* Instances of Admission on one nonce slot.                               *)
(***************************************************************************)
EXTENDS Admission, TLC

CONSTANTS a, b, c, s, r1, r2, r3

OneSlot == [o \in Ops |-> s]

\* Three requests, each for an operation of its own.
Distinct == r1 :> a @@ r2 :> b @@ r3 :> c

\* Renaming the operations together with their requests changes nothing.
Renamings ==
    {p \in Permutations({a, b, c, r1, r2, r3}) :
        \A r \in Requests : p[r] \in Requests /\ p[Distinct[r]] = Distinct[p[r]]}

\* One operation submitted twice, racing a different one.
Resubmitted == r1 :> a @@ r2 :> a @@ r3 :> b

\* The two requests of one operation are interchangeable.
Twins == Permutations({r1, r2})
==============================================================================
