-------------------------- MODULE RecordStoreProofs --------------------------
(***************************************************************************)
(* What RecordStore is proved to do for any set of operations,             *)
(* transactions and concurrent callers.                                    *)
(***************************************************************************)
EXTENDS RecordStore, TLAPS

\* A merge of a legal patch, and a submission, are records again.
LEMMA MergeType ==
    ASSUME NEW rec \in Record, NEW p \in Patches
    PROVE  Merge(rec, p) \in Record
  BY DEF Record, Patches, Merge, AdmittedPatch, DeferredPatch, NotSubmittedPatch,
         RejectedPatch, receipt_patch, Status, NoStatus

LEMMA SubmittedAsType ==
    ASSUME NEW rec \in Record, NEW t \in Tx
    PROVE  SubmittedAs(rec, t) \in Record
  BY DEF Record, SubmittedAs, Status

LEMMA QueuedType ==
    ASSUME NEW b \in BOOLEAN
    PROVE  queued_record(b) \in Record
  BY DEF Record, queued_record, Status

\* No record is NoRecord.
LEMMA RecordExists ==
    ASSUME NEW rec \in Record
    PROVE  rec # NoRecord
  BY NullsAssumption

\* What the two kinds of call look like when they begin and when they end.
LEMMA PatchCallTypes ==
    /\ IdlePatch \in PatchCall /\ IdlePatch.pc = "idle"
    /\ \A o \in Ops : LET call == [IdlePatch EXCEPT !.op = o, !.exhausted = TRUE]
                     IN  call \in PatchCall /\ call.pc = "idle"
    /\ \A o \in Ops, p \in Patches :
         LET call == [IdlePatch EXCEPT !.pc = "read", !.op = o, !.patch = p]
         IN  call \in PatchCall /\ call.op = o
  <1>1. AdmittedPatch \in Patches
    BY DEF Patches
  <1>2. IdlePatch \in PatchCall /\ IdlePatch.pc = "idle"
    BY <1>1, StoreAssumption DEF IdlePatch, PatchCall, Status, MaxRank
  <1>3. ASSUME NEW o \in Ops
        PROVE  LET call == [IdlePatch EXCEPT !.op = o, !.exhausted = TRUE]
               IN  call \in PatchCall /\ call.pc = "idle"
    BY <1>2 DEF PatchCall
  <1>4. ASSUME NEW o \in Ops, NEW p \in Patches
        PROVE  LET call == [IdlePatch EXCEPT !.pc = "read", !.op = o, !.patch = p]
               IN  call \in PatchCall /\ call.op = o
    BY <1>2 DEF PatchCall
  <1> QED
    BY <1>2, <1>3, <1>4

LEMMA IdleSubmitType == IdleSubmit \in SubmitCall /\ IdleSubmit.pc = "idle"
  BY StoreAssumption DEF IdleSubmit, SubmitCall, Status, MaxRank

LEMMA SubmitDoneType ==
    ASSUME NEW t \in Tx, NEW m \in SUBSET Ops, NEW i \in SUBSET Ops
    PROVE  DoneSubmit(t, m, i) \in SubmitCall /\ DoneSubmit(t, m, i).tx = t
  BY IdleSubmitType DEF SubmitCall, DoneSubmit

LEMMA SubmitBegunType ==
    ASSUME NEW t \in Tx, NEW m \in SUBSET Ops
    PROVE  BegunSubmit(t, m) \in SubmitCall /\ BegunSubmit(t, m).tx = t
  BY IdleSubmitType DEF SubmitCall, BegunSubmit

\* Every reachable state is well typed, whatever callers race and whichever
\* commands are lost.
THEOREM TypeCorrect == Spec => []TypeOK
  <1>1. Init => TypeOK
    BY PatchCallTypes, IdleSubmitType DEF Init, TypeOK
  <1>2. TypeOK /\ [Next]_vars => TypeOK'
    <2> SUFFICES ASSUME TypeOK, [Next]_vars PROVE TypeOK'
      OBVIOUS
    <2> USE StoreAssumption, NullsAssumption
    <2>1. ASSUME NEW o \in Ops, NEW b \in BOOLEAN, create_queued_with_admission(o, b)
          PROVE  TypeOK'
      BY <2>1, QueuedType DEF TypeOK, create_queued_with_admission
    <2>2. ASSUME NEW o \in Ops, Expire(o) PROVE TypeOK'
      BY <2>2 DEF TypeOK, Expire
    <2>3. ASSUME NEW c \in Patchers, NEW o \in Ops, NEW p \in Patches, patch_begin(c, o, p)
          PROVE  TypeOK'
      BY <2>3, PatchCallTypes DEF TypeOK, patch_begin
    <2>4. ASSUME NEW c \in Patchers, patch_read(c) PROVE TypeOK'
      <3>1. CASE PatchReturns(c) /\ UNCHANGED <<records, index, scall, expired>>
        BY <3>1, PatchCallTypes DEF TypeOK, PatchReturns
      <3>2. CASE ~PatchReturns(c)
        <4>1. pcall[c] \in PatchCall /\ pcall[c].op \in Ops
          BY <2>4 DEF TypeOK, patch_read
        <4>2. records[pcall[c].op] \in Record
          BY <2>4, <3>2, <4>1 DEF TypeOK, patch_read
        <4>3. records[pcall[c].op].status \in Status
          BY <4>2 DEF Record
        <4>4. pcall' = [pcall EXCEPT ![c].pc = "eval",
                                     ![c].observed = records[pcall[c].op].status]
          BY <2>4, <3>2 DEF patch_read
        <4> QED
          BY <2>4, <4>1, <4>3, <4>4 DEF TypeOK, PatchCall, patch_read
      <3> QED
        BY <2>4, <3>1, <3>2 DEF patch_read
    <2>5. ASSUME NEW c \in Patchers, patch_eval(c) PROVE TypeOK'
      <3>1. pcall[c].pc = "eval" /\ pcall[c].op \in Ops
        BY <2>5 DEF patch_eval, TypeOK
      <3>2. /\ pcall' \in [Patchers -> PatchCall]
            /\ \A d \in Patchers : pcall'[d].pc # "idle" => pcall'[d].op \in Ops
        <4>1. CASE pcall' = [pcall EXCEPT ![c].pc = "read", ![c].failures = @ + 1,
                                          ![c].observed = "queued"]
                   /\ pcall[c].failures + 1 < LIFECYCLE_GUARD_ATTEMPTS
          BY <3>1, <4>1 DEF TypeOK, PatchCall, Status
        <4>2. CASE PatchReturns(c)
          BY <4>2, PatchCallTypes DEF TypeOK, PatchReturns
        <4>3. CASE PatchGivesUp(c)
          BY <3>1, <4>3, PatchCallTypes DEF TypeOK, PatchGivesUp
        <4> QED
          BY <2>5, <4>1, <4>2, <4>3 DEF patch_eval
      <3>3. records' \in [Ops -> Record \cup {NoRecord}]
        BY <2>5, MergeType DEF TypeOK, patch_eval, PatchCall
      <3> QED
        BY <2>5, <3>2, <3>3 DEF TypeOK, patch_eval
    <2>6. ASSUME NEW c \in Patchers, patch_command_fails(c) PROVE TypeOK'
      BY <2>6, PatchCallTypes DEF TypeOK, patch_command_fails, PatchReturns
    <2>7. ASSUME NEW c \in Submitters, NEW t \in Tx, NEW m \in SUBSET Ops, submit_begin(c, t, m)
          PROVE  TypeOK'
      BY <2>7, SubmitBegunType DEF TypeOK, submit_begin
    <2>8. ASSUME NEW c \in Submitters, submit_read(c) PROVE TypeOK'
      <3> DEFINE call == scall[c]
                 touched == {o \in call.remaining :
                      /\ records[o] # NoRecord
                      /\ decide_bundle_submission(records[o].status, records[o].tx, call.tx)
                           # "skip"}
                 found == call.members \ {o \in call.remaining : records[o] = NoRecord}
                 observed == [o \in Ops |-> IF o \in touched THEN records[o].status
                                                             ELSE "queued"]
      <3>1. /\ call \in SubmitCall /\ call.tx \in Tx
            /\ found \in SUBSET Ops /\ touched \in SUBSET Ops /\ call.indexed \in SUBSET Ops
        BY <2>8 DEF TypeOK, submit_read, SubmitCall
      <3>2. observed \in [Ops -> Status]
        BY <3>1 DEF TypeOK, Record, Status
      <3>3. CASE SubmitReturns(c, found, call.indexed)
        <4>1. DoneSubmit(call.tx, found, call.indexed) \in SubmitCall
              /\ DoneSubmit(call.tx, found, call.indexed).tx \in Tx
          BY <3>1, SubmitDoneType
        <4> HIDE DEF found
        <4> QED
          BY <2>8, <3>3, <4>1 DEF TypeOK, SubmitReturns, submit_read
      <3>4. CASE scall' = [scall EXCEPT ![c].pc = "eval", ![c].members = found,
                                        ![c].planned = touched, ![c].observed = observed]
        <4> HIDE DEF found, touched, observed
        <4> QED
          BY <2>8, <3>1, <3>2, <3>4 DEF TypeOK, SubmitCall, submit_read
      <3> QED
        BY <2>8, <3>3, <3>4 DEF submit_read
    <2>9. ASSUME NEW c \in Submitters, submit_eval(c) PROVE TypeOK'
      <3> DEFINE call == scall[c]
                 applied == StillAsJudged(call)
                 moved == call.planned \ applied
      <3>1. /\ call \in SubmitCall /\ call.tx \in Tx
            /\ applied \in SUBSET Ops /\ moved \in SUBSET Ops
            /\ call.members \in SUBSET Ops /\ call.indexed \cup applied \in SUBSET Ops
        BY <2>9 DEF TypeOK, submit_eval, SubmitCall, StillAsJudged
      <3>2. records' \in [Ops -> Record \cup {NoRecord}]
        BY <2>9, <3>1, SubmittedAsType DEF TypeOK, submit_eval, StillAsJudged
      <3>3. index' \in [Tx -> SUBSET Ops]
        BY <2>9, <3>1 DEF TypeOK, submit_eval
      <3>4. /\ scall' \in [Submitters -> SubmitCall]
            /\ \A d \in Submitters : scall'[d].pc # "idle" => scall'[d].tx \in Tx
        <4>1. CASE SubmitReturns(c, call.members, call.indexed \cup applied)
          <5>1. DoneSubmit(call.tx, call.members, call.indexed \cup applied) \in SubmitCall
                /\ DoneSubmit(call.tx, call.members, call.indexed \cup applied).tx \in Tx
            BY <3>1, SubmitDoneType
          <5> HIDE DEF applied
          <5> QED
            BY <4>1, <5>1 DEF TypeOK, SubmitReturns
        <4>2. CASE SubmitFails(c)
          BY <4>2, IdleSubmitType DEF TypeOK, SubmitFails
        <4>3. CASE /\ call.failures + 1 < LIFECYCLE_GUARD_ATTEMPTS
                   /\ scall' = [scall EXCEPT ![c].pc = "read", ![c].remaining = moved,
                                    ![c].indexed = @ \cup applied, ![c].failures = @ + 1]
          <5> HIDE DEF moved, applied
          <5> QED
            BY <3>1, <4>3 DEF TypeOK, SubmitCall
        <4> QED
          BY <2>9, <4>1, <4>2, <4>3 DEF submit_eval
      <3> QED
        BY <2>9, <3>2, <3>3, <3>4 DEF TypeOK, submit_eval
    <2>10. ASSUME NEW c \in Submitters, submit_command_fails(c) PROVE TypeOK'
      BY <2>10, IdleSubmitType DEF TypeOK, submit_command_fails, SubmitFails
    <2>11. CASE UNCHANGED vars
      BY <2>11 DEF TypeOK, vars
    <2> QED
      BY <2>1, <2>2, <2>3, <2>4, <2>5, <2>6, <2>7, <2>8, <2>9, <2>10, <2>11 DEF Next
  <1> QED
    BY <1>1, <1>2, PTL DEF Spec
------------------------------------------------------------------------------
(* Refinement: what a call carries into its script is what was judged.     *)

\* A patch whose script runs was judged legal against the status it carries,
\* and a planned member was seen in a status that a submission touches.
Judged ==
    /\ \A c \in Patchers : pcall[c].pc = "eval" =>
         decide_patch(pcall[c].observed, pcall[c].patch.status)
    /\ \A c \in Submitters : scall[c].pc = "eval" =>
         /\ scall[c].planned \subseteq scall[c].remaining
         /\ \A o \in scall[c].planned :
              scall[c].observed[o] \in {"queued", "not_submitted", "submitted"}

LEMMA CallFields ==
    /\ IdlePatch.pc = "idle"
    /\ \A o : [IdlePatch EXCEPT !.op = o, !.exhausted = TRUE].pc = "idle"
    /\ \A o, p : [IdlePatch EXCEPT !.pc = "read", !.op = o, !.patch = p].pc = "read"
    /\ IdleSubmit.pc = "idle"
    /\ \A t, m : BegunSubmit(t, m).pc = "read"
    /\ \A t, m, i : DoneSubmit(t, m, i).pc = "done"
  BY DEF IdlePatch, IdleSubmit, BegunSubmit, DoneSubmit

LEMMA JudgedInvariant == Spec => []Judged
  <1>1. Init => Judged
    BY DEF Init, Judged, IdlePatch, IdleSubmit
  <1>2. TypeOK /\ Judged /\ [Next]_vars => Judged'
    <2> SUFFICES ASSUME TypeOK, Judged, [Next]_vars PROVE Judged'
      OBVIOUS
    <2>1. ASSUME NEW o \in Ops, NEW b \in BOOLEAN, create_queued_with_admission(o, b)
          PROVE  Judged'
      BY <2>1 DEF Judged, create_queued_with_admission
    <2>2. ASSUME NEW o \in Ops, Expire(o) PROVE Judged'
      BY <2>2 DEF Judged, Expire
    <2>3. ASSUME NEW c \in Patchers, NEW o \in Ops, NEW p \in Patches, patch_begin(c, o, p)
          PROVE  Judged'
      BY <2>3, CallFields DEF Judged, patch_begin, TypeOK
    <2>4. ASSUME NEW c \in Patchers, patch_read(c) PROVE Judged'
      <3>1. pcall'[c].pc = "eval" => decide_patch(pcall'[c].observed, pcall'[c].patch.status)
        <4>1. CASE PatchReturns(c)
          BY <4>1, CallFields DEF PatchReturns, TypeOK
        <4>2. CASE ~PatchReturns(c)
          BY <2>4, <4>2 DEF patch_read, TypeOK, PatchCall
        <4> QED
          BY <4>1, <4>2
      <3>2. \A d \in Patchers \ {c} : pcall'[d] = pcall[d]
        BY <2>4 DEF patch_read, PatchReturns, TypeOK
      <3> QED
        BY <2>4, <3>1, <3>2 DEF Judged, patch_read
    <2>5. ASSUME NEW c \in Patchers, patch_eval(c) PROVE Judged'
      <3>1. pcall'[c].pc # "eval" /\ \A d \in Patchers \ {c} : pcall'[d] = pcall[d]
        <4>1. CASE PatchReturns(c) \/ PatchGivesUp(c)
          BY <4>1, CallFields DEF PatchReturns, PatchGivesUp, TypeOK
        <4>2. CASE pcall' = [pcall EXCEPT ![c].pc = "read", ![c].failures = @ + 1,
                                          ![c].observed = "queued"]
          BY <4>2 DEF TypeOK, PatchCall
        <4> QED
          BY <2>5, <4>1, <4>2 DEF patch_eval
      <3> QED
        BY <2>5, <3>1 DEF Judged, patch_eval
    <2>6. ASSUME NEW c \in Patchers, patch_command_fails(c) PROVE Judged'
      BY <2>6, CallFields DEF Judged, patch_command_fails, PatchReturns, TypeOK
    <2>7. ASSUME NEW c \in Submitters, NEW t \in Tx, NEW m \in SUBSET Ops, submit_begin(c, t, m)
          PROVE  Judged'
      BY <2>7, CallFields DEF Judged, submit_begin, TypeOK
    <2>8. ASSUME NEW c \in Submitters, submit_read(c) PROVE Judged'
      <3> DEFINE call == scall[c]
                 touched == {o \in call.remaining :
                      /\ records[o] # NoRecord
                      /\ decide_bundle_submission(records[o].status, records[o].tx, call.tx)
                           # "skip"}
                 found == call.members \ {o \in call.remaining : records[o] = NoRecord}
                 observed == [o \in Ops |-> IF o \in touched THEN records[o].status
                                                             ELSE "queued"]
      <3>1. touched \subseteq call.remaining /\ touched \subseteq Ops
        BY <2>8 DEF TypeOK, SubmitCall
      <3>2. \A o \in touched : observed[o] \in {"queued", "not_submitted", "submitted"}
        BY <3>1 DEF decide_bundle_submission
      <3>3. CASE SubmitReturns(c, found, call.indexed)
        <4> HIDE DEF found
        <4> QED
          BY <2>8, <3>3, CallFields DEF Judged, SubmitReturns, submit_read, TypeOK
      <3>4. CASE scall' = [scall EXCEPT ![c].pc = "eval", ![c].members = found,
                                        ![c].planned = touched, ![c].observed = observed]
        <4> HIDE DEF found, touched, observed
        <4> QED
          BY <2>8, <3>1, <3>2, <3>4 DEF Judged, TypeOK, SubmitCall, submit_read
      <3> QED
        BY <2>8, <3>3, <3>4 DEF submit_read
    <2>9. ASSUME NEW c \in Submitters, submit_eval(c) PROVE Judged'
      <3>1. scall'[c].pc # "eval" /\ \A d \in Submitters \ {c} : scall'[d] = scall[d]
        BY <2>9, CallFields DEF submit_eval, SubmitReturns, SubmitFails, TypeOK, SubmitCall
      <3> QED
        BY <2>9, <3>1 DEF Judged, submit_eval
    <2>10. ASSUME NEW c \in Submitters, submit_command_fails(c) PROVE Judged'
      BY <2>10, CallFields DEF Judged, submit_command_fails, SubmitFails, TypeOK
    <2>11. CASE UNCHANGED vars
      BY <2>11 DEF Judged, vars
    <2> QED
      BY <2>1, <2>2, <2>3, <2>4, <2>5, <2>6, <2>7, <2>8, <2>9, <2>10, <2>11 DEF Next
  <1> QED
    BY <1>1, <1>2, TypeCorrect, PTL DEF Spec

\* The objects of Durable speak of records, patches and decisions as the store does.
LEMMA SameVocabulary ==
    /\ Durable!Record = Record
    /\ Durable!Patches = Patches
    /\ \A b : Durable!queued_record(b) = queued_record(b)
    /\ \A s, t : Durable!decide_patch(s, t) <=> decide_patch(s, t)
    /\ \A rec, p : Durable!Merge(rec, p) = Merge(rec, p)
    /\ \A s, t, u : Durable!decide_bundle_submission(s, t, u) = decide_bundle_submission(s, t, u)
    /\ \A rec, t : Durable!SubmittedAs(rec, t) = SubmittedAs(rec, t)
  <1>1. Durable!Record = Record
    BY DEF Durable!Record, Record, Durable!Status, Status
  <1>2. Durable!Patches = Patches
    BY DEF Durable!Patches, Patches, Durable!AdmittedPatch, AdmittedPatch,
           Durable!DeferredPatch, DeferredPatch, Durable!NotSubmittedPatch, NotSubmittedPatch,
           Durable!RejectedPatch, RejectedPatch, Durable!receipt_patch, receipt_patch,
           Durable!NoStatus, NoStatus
  <1>3. \A b : Durable!queued_record(b) = queued_record(b)
    BY DEF Durable!queued_record, queued_record
  <1>4. \A s, t : Durable!decide_patch(s, t) <=> decide_patch(s, t)
    BY DEF Durable!decide_patch, decide_patch, Durable!transition_is_allowed,
           transition_is_allowed, Durable!NoStatus, NoStatus
  <1>5. \A rec, p : Durable!Merge(rec, p) = Merge(rec, p)
    BY DEF Durable!Merge, Merge, Durable!NoStatus, NoStatus
  <1>6. \A s, t, u : Durable!decide_bundle_submission(s, t, u)
                       = decide_bundle_submission(s, t, u)
    BY DEF Durable!decide_bundle_submission, decide_bundle_submission
  <1>7. \A rec, t : Durable!SubmittedAs(rec, t) = SubmittedAs(rec, t)
    BY DEF Durable!SubmittedAs, SubmittedAs
  <1> QED
    BY <1>1, <1>2, <1>3, <1>4, <1>5, <1>6, <1>7

\* A step of the store is a command of one object, or of the objects of one
\* bundle, or it leaves every record alone.
LEMMA StepIsCommand ==
    ASSUME TypeOK, TypeOK', Judged, [Next]_vars
    PROVE  [Durable!Next]_records
  <1> DEFINE Moves(o) == records'[o] = records[o] \/ Durable!Command(o)
  <1> HIDE DEF Moves
  <1>1. SUFFICES ASSUME records' # records PROVE \A o \in Ops : Moves(o)
    BY SameVocabulary DEF TypeOK, Durable!Next, Moves
  <1>2. ASSUME NEW o \in Ops, NEW b \in BOOLEAN, create_queued_with_admission(o, b)
        PROVE  \A q \in Ops : Moves(q)
    BY <1>2, SameVocabulary
    DEF Moves, create_queued_with_admission, TypeOK, Durable!Command, Durable!CreateQueued,
                Durable!RestoreQueued, Durable!Exists
  <1>3. ASSUME NEW o \in Ops, Expire(o)
        PROVE  \A q \in Ops : Moves(q)
    BY <1>3 DEF Moves, Expire, TypeOK, Durable!Command, Durable!alarm, Durable!Exists
  <1>4. ASSUME NEW c \in Patchers, patch_eval(c)
        PROVE  \A q \in Ops : Moves(q)
    <2>1. pcall[c].op \in Ops /\ pcall[c].patch \in Patches
      BY <1>4 DEF patch_eval, TypeOK, PatchCall
    <2>2. /\ records[pcall[c].op] # NoRecord
          /\ records[pcall[c].op].status = pcall[c].observed
          /\ records' = [records EXCEPT ![pcall[c].op] = Merge(@, pcall[c].patch)]
      BY <1>1, <1>4 DEF patch_eval
    <2>3. decide_patch(records[pcall[c].op].status, pcall[c].patch.status)
      BY <1>4, <2>2 DEF Judged, patch_eval
    <2>4. Durable!apply_patch(pcall[c].op, pcall[c].patch)
      BY <2>1, <2>2, <2>3, SameVocabulary DEF Durable!apply_patch, Durable!Exists, TypeOK
    <2> QED
      BY <2>1, <2>2, <2>4, SameVocabulary DEF Moves, Durable!Command, TypeOK
  <1>5. ASSUME NEW c \in Submitters, submit_eval(c)
        PROVE  \A q \in Ops : Moves(q)
    <2> SUFFICES ASSUME NEW q \in Ops, records'[q] # records[q]
                 PROVE  Durable!Command(q)
      BY DEF Moves
    <2>1. scall[c].tx \in Tx /\ scall[c].pc = "eval"
      BY <1>5 DEF submit_eval, TypeOK
    <2>2. /\ q \in StillAsJudged(scall[c]) /\ scall[c].observed[q] # "submitted"
          /\ records'[q] = SubmittedAs(records[q], scall[c].tx)
      BY <1>5 DEF submit_eval, TypeOK
    <2>3. /\ records[q] # NoRecord
          /\ records[q].status \in {"queued", "not_submitted"}
      BY <2>1, <2>2 DEF StillAsJudged, Judged
    <2>4. Durable!apply_bundle_submission(q, scall[c].tx)
      BY <2>2, <2>3, SameVocabulary DEF Durable!apply_bundle_submission, Durable!Exists,
                                        decide_bundle_submission
    <2> QED
      BY <2>1, <2>4 DEF Durable!Command
  <1> QED
    BY <1>1, <1>2, <1>3, <1>4, <1>5
    DEF Next, vars, patch_begin, patch_read, patch_command_fails,
        submit_begin, submit_read, submit_command_fails

\* The Redis store implements the durable objects: whatever callers race, a
\* record only ever moves by the atomic, table-judged commands of RecordDO.
THEOREM StoreImplementsRecordDO == Spec => ImplementsRecordDO
  <1>1. Init => Durable!Init
    BY DEF Init, Durable!Init
  <1>2. TypeOK /\ TypeOK' /\ Judged /\ [Next]_vars => [Durable!Next]_records
    BY StepIsCommand
  <1> QED
    BY <1>1, <1>2, TypeCorrect, JudgedInvariant, PTL DEF Spec, ImplementsRecordDO, Durable!Spec
------------------------------------------------------------------------------
(* The guard's retries: a status that moved has moved up.                  *)

\* A record that stays while a patch or a submission is applied keeps its
\* status or climbs.
Climbs(before, after) == after.status = before.status \/ Rank(after.status) > Rank(before.status)

LEMMA RankBounds == \A s \in Status : Rank(s) \in 0 .. MaxRank
  BY DEF Status, Rank, MaxRank

LEMMA TransitionsClimb ==
    ASSUME NEW s \in Status, NEW t \in Status, transition_is_allowed(s, t)
    PROVE  s = t \/ Rank(t) > Rank(s)
  BY DEF Status, Rank, transition_is_allowed

\* Between two states of the store, a record keeps its status, climbs, or is
\* dropped by the TTL.
LEMMA RecordsClimb ==
    ASSUME TypeOK, Judged, [Next]_vars, NEW o \in Ops, records[o] # NoRecord
    PROVE  \/ records'[o] # NoRecord /\ Climbs(records[o], records'[o])
           \/ o \in expired'
  <1> USE NullsAssumption
  <1>0. CASE records'[o] = records[o]
    BY <1>0 DEF Climbs
  <1>1. ASSUME NEW q \in Ops, NEW b \in BOOLEAN, create_queued_with_admission(q, b)
        PROVE  records'[o] = records[o]
    BY <1>1 DEF create_queued_with_admission, TypeOK
  <1>2. ASSUME NEW q \in Ops, Expire(q), records'[o] # records[o]
        PROVE  o \in expired'
    BY <1>2 DEF Expire, TypeOK
  <1>3. ASSUME NEW c \in Patchers, patch_eval(c), records'[o] # records[o]
        PROVE  records'[o] # NoRecord /\ Climbs(records[o], records'[o])
    <2>1. /\ o = pcall[c].op /\ pcall[c].patch \in Patches
          /\ records[o].status = pcall[c].observed
          /\ records'[o] = Merge(records[o], pcall[c].patch)
      BY <1>3 DEF patch_eval, TypeOK, PatchCall
    <2>2. decide_patch(records[o].status, pcall[c].patch.status)
      BY <1>3, <2>1 DEF Judged, patch_eval
    <2>3. records[o] \in Record /\ records'[o] \in Record
      BY <2>1, MergeType DEF TypeOK
    <2>4. records[o].status \in Status /\ records'[o].status \in Status
      BY <2>3 DEF Record
    <2>5. \/ records'[o].status = records[o].status
          \/ transition_is_allowed(records[o].status, records'[o].status)
      BY <2>1, <2>2 DEF Merge, decide_patch
    <2> QED
      BY <2>3, <2>4, <2>5, TransitionsClimb DEF Climbs
  <1>4. ASSUME NEW c \in Submitters, submit_eval(c), records'[o] # records[o]
        PROVE  records'[o] # NoRecord /\ Climbs(records[o], records'[o])
    <2>1. /\ o \in StillAsJudged(scall[c]) /\ scall[c].observed[o] # "submitted"
          /\ records'[o] = SubmittedAs(records[o], scall[c].tx)
          /\ scall[c].pc = "eval" /\ scall[c].tx \in Tx
      BY <1>4 DEF submit_eval, TypeOK
    <2>2. records[o].status \in {"queued", "not_submitted"}
      BY <2>1 DEF StillAsJudged, Judged
    <2>3. records[o] \in Record
      BY DEF TypeOK
    <2>4. records'[o].status = "submitted" /\ records'[o] \in Record
      BY <2>1, <2>3, SubmittedAsType DEF SubmittedAs, Record
    <2> QED
      BY <2>2, <2>4 DEF Climbs, Rank
  <1> QED
    BY <1>0, <1>1, <1>2, <1>3, <1>4
    DEF Next, vars, patch_begin, patch_read, patch_command_fails,
        submit_begin, submit_read, submit_command_fails

\* The history variable only grows.
LEMMA ExpiredGrows == [Next]_vars => expired \subseteq expired'
  BY DEF Next, vars, create_queued_with_admission, Expire, patch_begin, patch_read, patch_eval,
         patch_command_fails, submit_begin, submit_read, submit_eval, submit_command_fails

\* How often a running patch has lost its guard is at most the rank of the
\* status it last saw, and of the status that is stored now.
GuardHolds(call) ==
    /\ ~call.exhausted
    /\ call.pc = "read" =>
         IF records[call.op] = NoRecord THEN call.failures = 0
         ELSE call.failures <= Rank(records[call.op].status)
    /\ call.pc = "eval" =>
         /\ records[call.op] # NoRecord
         /\ call.failures <= Rank(call.observed)
         /\ Climbs([status |-> call.observed], records[call.op])

GuardBound == \A c \in Patchers : pcall[c].op \in expired \/ GuardHolds(pcall[c])

LEMMA GuardBoundInvariant == Spec => []GuardBound
  <1>1. Init => GuardBound
    BY DEF Init, GuardBound, GuardHolds, IdlePatch
  <1>2. TypeOK /\ TypeOK' /\ Judged /\ GuardBound /\ [Next]_vars => GuardBound'
    <2> SUFFICES ASSUME TypeOK, TypeOK', Judged, GuardBound, [Next]_vars,
                        NEW c \in Patchers, pcall'[c].op \notin expired'
                 PROVE  GuardHolds(pcall[c])'
      BY DEF GuardBound
    <2> DEFINE call == pcall[c]
    <2>0. /\ call \in PatchCall /\ pcall'[c] \in PatchCall
          /\ call.failures \in Nat /\ call.observed \in Status
          /\ call.pc # "idle" => call.op \in Ops
          /\ \A o \in Ops : records[o] # NoRecord => records[o].status \in Status
          /\ \A o \in Ops : records'[o] # NoRecord => records'[o].status \in Status
          /\ expired \subseteq expired'
      BY ExpiredGrows DEF TypeOK, PatchCall, Record
    <2>00. call.op \in expired' \/ GuardHolds(call)
      BY <2>0 DEF GuardBound
    <2>1. CASE pcall'[c] = pcall[c]
      <3>0. GuardHolds(call) /\ call.op \notin expired'
        BY <2>00, <2>1
      <3>1. CASE call.pc = "idle"
        BY <2>1, <3>0, <3>1 DEF GuardHolds
      <3>2. CASE call.pc # "idle" /\ records[call.op] # NoRecord
        <4>1. records'[call.op] # NoRecord /\ Climbs(records[call.op], records'[call.op])
          BY <2>0, <3>0, <3>2, RecordsClimb
        <4> QED
          BY <2>0, <2>1, <3>0, <3>2, <4>1, RankBounds DEF GuardHolds, Climbs, MaxRank
      <3>3. CASE call.pc # "idle" /\ records[call.op] = NoRecord
        BY <2>0, <2>1, <3>0, <3>3, RankBounds DEF GuardHolds, MaxRank
      <3> QED
        BY <3>1, <3>2, <3>3
    <2>2. ASSUME NEW o \in Ops, NEW p \in Patches, patch_begin(c, o, p)
          PROVE  GuardHolds(pcall[c])'
      <3>1. pcall'[c].pc = "read" /\ pcall'[c].failures = 0 /\ ~pcall'[c].exhausted
            /\ pcall'[c].op = o
        BY <2>2 DEF patch_begin, TypeOK, IdlePatch
      <3> QED
        BY <2>0, <3>1, RankBounds DEF GuardHolds, MaxRank
    <2>3. CASE PatchReturns(c)
      <3>1. pcall'[c].pc = "idle" /\ ~pcall'[c].exhausted
        BY <2>3 DEF PatchReturns, TypeOK, IdlePatch
      <3> QED
        BY <3>1 DEF GuardHolds
    <2>4. ASSUME patch_read(c), ~PatchReturns(c) PROVE GuardHolds(pcall[c])'
      <3>1. /\ call.pc = "read" /\ records[call.op] # NoRecord /\ records' = records
            /\ pcall'[c] = [call EXCEPT !.pc = "eval", !.observed = records[call.op].status]
        BY <2>4 DEF patch_read, TypeOK
      <3>2. /\ pcall'[c].pc = "eval" /\ pcall'[c].observed = records[call.op].status
            /\ pcall'[c].failures = call.failures /\ pcall'[c].op = call.op
            /\ pcall'[c].exhausted = call.exhausted
        BY <2>0, <3>1 DEF PatchCall
      <3> QED
        BY <2>0, <2>00, <3>1, <3>2 DEF GuardHolds, Climbs
    <2>5. ASSUME patch_eval(c), ~PatchReturns(c) PROVE GuardHolds(pcall[c])'
      <3>1. /\ call.pc = "eval" /\ records[call.op] # NoRecord
            /\ records[call.op].status # call.observed /\ records' = records
            /\ IF call.failures + 1 < LIFECYCLE_GUARD_ATTEMPTS
               THEN pcall'[c] = [call EXCEPT !.pc = "read", !.failures = @ + 1,
                                             !.observed = "queued"]
               ELSE pcall'[c] = [IdlePatch EXCEPT !.op = call.op, !.exhausted = TRUE]
        BY <2>5 DEF patch_eval, PatchGivesUp, TypeOK
      <3>2. pcall'[c].op = call.op
        BY <2>0, <3>1 DEF PatchCall, IdlePatch
      <3>3. /\ Rank(records[call.op].status) > Rank(call.observed)
            /\ call.failures <= Rank(call.observed) /\ ~call.exhausted
        BY <2>00, <3>1, <3>2 DEF GuardHolds, Climbs
      <3>4. /\ call.failures + 1 <= Rank(records[call.op].status)
            /\ call.failures + 1 < LIFECYCLE_GUARD_ATTEMPTS
        BY <2>0, <3>1, <3>3, RankBounds, StoreAssumption DEF MaxRank
      <3>5. /\ pcall'[c].pc = "read" /\ pcall'[c].failures = call.failures + 1
            /\ pcall'[c].exhausted = call.exhausted
        BY <2>0, <3>1, <3>4 DEF PatchCall
      <3> QED
        BY <2>0, <3>1, <3>2, <3>3, <3>4, <3>5 DEF GuardHolds
    <2>6. CASE pcall'[c] # pcall[c]
      <3>1. \/ \E o \in Ops, p \in Patches : patch_begin(c, o, p)
            \/ patch_read(c) \/ patch_eval(c) \/ patch_command_fails(c)
        BY <2>6 DEF Next, vars, TypeOK, create_queued_with_admission, Expire, patch_begin,
            patch_read, patch_eval, patch_command_fails, PatchReturns, PatchGivesUp,
            submit_begin, submit_read, submit_eval, submit_command_fails
      <3> QED
        BY <2>2, <2>3, <2>4, <2>5, <3>1 DEF patch_command_fails
    <2> QED
      BY <2>1, <2>6
  <1> QED
    BY <1>1, <1>2, TypeCorrect, JudgedInvariant, PTL DEF Spec

\* `patch` never runs out of its LIFECYCLE_GUARD_ATTEMPTS, however many
\* writers race it: more attempts than the table has ranks are always enough.
THEOREM PatchNeverExhausted == Spec => []NeverExhausted
  <1>1. GuardBound => NeverExhausted
    BY DEF GuardBound, GuardHolds, NeverExhausted
  <1> QED
    BY <1>1, GuardBoundInvariant, PTL
------------------------------------------------------------------------------
(* The bundle index, which is what receipts are applied to.                *)

Submitted(rec) == rec # NoRecord /\ rec.status = "submitted"

\* No patch makes a record submitted or renames the transaction of one that is.
LEMMA PatchKeepsSubmission ==
    ASSUME NEW rec \in Record, NEW p \in Patches, Merge(rec, p).status = "submitted"
    PROVE  rec.status = "submitted" /\ Merge(rec, p).tx = rec.tx
  <1>1. p.status # "submitted" /\ (p.status = NoStatus => p.tx = NoTx)
    BY DEF Patches, AdmittedPatch, DeferredPatch, NotSubmittedPatch, RejectedPatch,
           receipt_patch, NoStatus
  <1> QED
    BY <1>1 DEF Merge, Record

\* Every step leaves a submission to submit_eval: elsewhere, a record that is
\* submitted was submitted under the same transaction, and the index stays.
LEMMA OnlySubmitEvalSubmits ==
    ASSUME TypeOK, [Next]_vars, ~ \E c \in Submitters : submit_eval(c)
    PROVE  /\ index' = index
           /\ \A o \in Ops : Submitted(records'[o]) =>
                Submitted(records[o]) /\ records'[o].tx = records[o].tx
  <1> USE NullsAssumption DEF Submitted
  <1>1. ASSUME NEW q \in Ops, NEW b \in BOOLEAN, create_queued_with_admission(q, b)
        PROVE  \A o \in Ops : Submitted(records'[o]) => records'[o] = records[o]
    BY <1>1 DEF create_queued_with_admission, TypeOK, queued_record
  <1>2. ASSUME NEW q \in Ops, Expire(q)
        PROVE  \A o \in Ops : Submitted(records'[o]) => records'[o] = records[o]
    BY <1>2 DEF Expire, TypeOK
  <1>3. ASSUME NEW c \in Patchers, patch_eval(c), NEW o \in Ops, Submitted(records'[o]),
               records'[o] # records[o]
        PROVE  Submitted(records[o]) /\ records'[o].tx = records[o].tx
    <2>1. /\ pcall[c].patch \in Patches /\ records[o] \in Record
          /\ records'[o] = Merge(records[o], pcall[c].patch)
      BY <1>3 DEF patch_eval, TypeOK, PatchCall
    <2> QED
      BY <1>3, <2>1, PatchKeepsSubmission
  <1>4. index' = index
    BY DEF Next, vars, create_queued_with_admission, Expire, patch_begin, patch_read,
           patch_eval, patch_command_fails, submit_begin, submit_read, submit_command_fails
  <1>5. CASE records' = records
    BY <1>4, <1>5
  <1> QED
    BY <1>1, <1>2, <1>3, <1>4, <1>5
    DEF Next, vars, patch_begin, patch_read, patch_command_fails,
        submit_begin, submit_read, submit_command_fails

\* A submitted operation is always in the index of its transaction, so the
\* transaction's receipt reaches it.
THEOREM SubmittedAlwaysIndexed == Spec => []SubmittedIsIndexed
  <1>1. Init => SubmittedIsIndexed
    BY DEF Init, SubmittedIsIndexed
  <1>2. TypeOK /\ SubmittedIsIndexed /\ [Next]_vars => SubmittedIsIndexed'
    <2> SUFFICES ASSUME TypeOK, SubmittedIsIndexed, [Next]_vars,
                        NEW o \in Ops, Submitted(records'[o])
                 PROVE  records'[o].tx \in Tx /\ o \in index'[records'[o].tx]
      BY DEF SubmittedIsIndexed, Submitted
    <2>1. ASSUME NEW c \in Submitters, submit_eval(c)
          PROVE  records'[o].tx \in Tx /\ o \in index'[records'[o].tx]
      <3>1. /\ scall[c].tx \in Tx
            /\ index' = [index EXCEPT ![scall[c].tx] = @ \cup StillAsJudged(scall[c])]
        BY <2>1 DEF submit_eval, TypeOK
      <3>2. CASE records'[o] = records[o]
        BY <3>1, <3>2 DEF SubmittedIsIndexed, Submitted, TypeOK
      <3>3. CASE records'[o] # records[o]
        <4>1. o \in StillAsJudged(scall[c]) /\ records'[o] = SubmittedAs(records[o], scall[c].tx)
          BY <2>1, <3>3 DEF submit_eval, TypeOK
        <4>2. records[o] \in Record
          BY <4>1 DEF StillAsJudged, TypeOK
        <4>3. records'[o].tx = scall[c].tx
          BY <4>1, <4>2 DEF SubmittedAs, Record
        <4> QED
          BY <3>1, <4>1, <4>3 DEF TypeOK
      <3> QED
        BY <3>2, <3>3
    <2>2. CASE ~ \E c \in Submitters : submit_eval(c)
      BY <2>2, OnlySubmitEvalSubmits DEF SubmittedIsIndexed, Submitted
    <2> QED
      BY <2>1, <2>2
  <1> QED
    BY <1>1, <1>2, TypeCorrect, PTL DEF Spec

\* An operation whose record has not expired is submitted under the
\* transaction it is indexed under, or settled.
Fits(rec, t) == /\ rec # NoRecord
                /\ Rank(rec.status) >= 2
                /\ rec.status = "submitted" => rec.tx = t

IndexIsTrue ==
    /\ IndexedUnderOneTx
    /\ \A t \in Tx : \A o \in index[t] \ expired : Fits(records[o], t)

\* A fitting record that was not expired and not resubmitted still fits.
LEMMA StillFits ==
    ASSUME TypeOK, Judged, [Next]_vars, NEW t \in Tx, NEW o \in Ops, o \notin expired',
           Fits(records[o], t),
           \/ records'[o] = records[o] \/ ~Submitted(records'[o])
           \/ Submitted(records[o]) /\ records'[o].tx = records[o].tx
    PROVE  Fits(records'[o], t)
  <1>1. records'[o] # NoRecord /\ Climbs(records[o], records'[o])
    BY RecordsClimb DEF Fits
  <1>2. records[o].status \in Status
    BY DEF TypeOK, Record, Fits
  <1>3. Rank(records[o].status) \in Nat
    BY <1>2, RankBounds DEF MaxRank
  <1>4. Rank(records'[o].status) >= 2
    BY <1>1, <1>3 DEF Climbs, Rank, Fits
  <1> QED
    BY <1>1, <1>4 DEF Submitted, Fits

\* A member the script applied fits its new index, and was in no other.
LEMMA AppliedFits ==
    ASSUME TypeOK, Judged, IndexIsTrue, NEW c \in Submitters, submit_eval(c),
           NEW o \in StillAsJudged(scall[c])
    PROVE  /\ Fits(records'[o], scall[c].tx)
           /\ o \notin expired => \A t \in Tx \ {scall[c].tx} : o \notin index[t]
  <1> DEFINE tx == scall[c].tx
  <1>1. records[o] \in Record /\ records[o] # NoRecord /\ o \in Ops /\ tx \in Tx
    BY DEF StillAsJudged, TypeOK, SubmitCall, submit_eval
  <1>2. \A t \in Tx : o \in index[t] \ expired => Fits(records[o], t)
    BY DEF IndexIsTrue
  <1>3. CASE scall[c].observed[o] # "submitted"
    <2>1. records[o].status \in {"queued", "not_submitted"}
      BY <1>3 DEF StillAsJudged, Judged, submit_eval
    <2>2. records'[o] = SubmittedAs(records[o], tx)
      BY <1>1, <1>3 DEF submit_eval
    <2>3. /\ records'[o].status = "submitted" /\ records'[o].tx = tx
          /\ records'[o] \in Record
      BY <1>1, <2>2, SubmittedAsType DEF SubmittedAs, Record
    <2>4. ~(Rank(records[o].status) >= 2)
      BY <2>1 DEF Rank
    <2> QED
      BY <1>2, <2>3, <2>4, NullsAssumption DEF Rank, Fits
  <1>4. CASE scall[c].observed[o] = "submitted"
    <2>1. records'[o] = records[o] /\ records[o].status = "submitted" /\ records[o].tx = tx
      BY <1>1, <1>4 DEF StillAsJudged, submit_eval
    <2> QED
      BY <1>1, <1>2, <2>1 DEF Rank, Fits
  <1> QED
    BY <1>3, <1>4

\* No operation is ever indexed under two transactions while its record lives.
THEOREM AlwaysIndexedUnderOneTx == Spec => []IndexedUnderOneTx
  <1>1. Init => IndexIsTrue
    BY DEF Init, IndexIsTrue, IndexedUnderOneTx
  <1>2. TypeOK /\ Judged /\ IndexIsTrue /\ [Next]_vars => IndexIsTrue'
    <2> SUFFICES ASSUME TypeOK, Judged, IndexIsTrue, [Next]_vars
                 PROVE  IndexIsTrue'
      OBVIOUS
    <2>1. /\ \A t1, t2 \in Tx : t1 # t2 => index[t1] \cap index[t2] \subseteq expired
          /\ \A t \in Tx : index[t] \subseteq Ops
          /\ \A t \in Tx : \A o \in index[t] \ expired : Fits(records[o], t)
          /\ expired \subseteq expired'
      BY ExpiredGrows DEF IndexIsTrue, IndexedUnderOneTx, TypeOK
    <2>2. SUFFICES /\ \A t1, t2 \in Tx : t1 # t2 => index'[t1] \cap index'[t2] \subseteq expired'
                   /\ \A t \in Tx : \A o \in index'[t] \ expired' : Fits(records'[o], t)
      BY DEF IndexIsTrue, IndexedUnderOneTx, Fits
    <2>4. CASE ~ \E c \in Submitters : submit_eval(c)
      <3>1. index' = index
        BY <2>4, OnlySubmitEvalSubmits
      <3>2. ASSUME NEW t \in Tx, NEW o \in index[t] \ expired' PROVE Fits(records'[o], t)
        BY <2>1, <2>4, OnlySubmitEvalSubmits, StillFits
      <3> QED
        BY <2>1, <3>1, <3>2
    <2>5. ASSUME NEW c \in Submitters, submit_eval(c)
          PROVE  /\ \A t1, t2 \in Tx : t1 # t2 => index'[t1] \cap index'[t2] \subseteq expired'
                 /\ \A t \in Tx : \A o \in index'[t] \ expired' : Fits(records'[o], t)
      <3> DEFINE tx == scall[c].tx
                 applied == StillAsJudged(scall[c])
      <3>1. tx \in Tx /\ index' = [index EXCEPT ![tx] = @ \cup applied]
        BY <2>5 DEF submit_eval, TypeOK, SubmitCall
      <3>2. \A o \in Ops \ applied : records'[o] = records[o]
        BY <2>5 DEF submit_eval
      <3>3. ASSUME NEW o \in applied
            PROVE  /\ Fits(records'[o], tx)
                   /\ o \notin expired => \A t \in Tx \ {tx} : o \notin index[t]
        BY <2>5, AppliedFits
      <3>4. ASSUME NEW t \in Tx, NEW o \in index[t] \ expired', o \notin applied
            PROVE  Fits(records'[o], t)
        BY <2>1, <3>2, <3>4, StillFits
      <3> HIDE DEF applied
      <3>5. \A t \in Tx : index'[t] = IF t = tx THEN index[t] \cup applied ELSE index[t]
        BY <3>1 DEF TypeOK
      <3>6. \A t1, t2 \in Tx : t1 # t2 => index'[t1] \cap index'[t2] \subseteq expired'
        BY <2>1, <3>1, <3>3, <3>5
      <3>7. ASSUME NEW t \in Tx, NEW o \in index'[t] \ expired'
            PROVE  Fits(records'[o], t)
        <4>1. CASE o \in applied
          BY <2>1, <3>3, <3>5, <4>1
        <4>2. CASE o \notin applied
          BY <3>4, <3>5, <4>2
        <4> QED
          BY <4>1, <4>2
      <3> QED
        BY <3>6, <3>7
    <2> QED
      BY <2>2, <2>4, <2>5
  <1>3. IndexIsTrue => IndexedUnderOneTx
    BY DEF IndexIsTrue
  <1> QED
    BY <1>1, <1>2, <1>3, TypeCorrect, JudgedInvariant, PTL DEF Spec
------------------------------------------------------------------------------
(* A bundle submission leaves no live member behind.                       *)

\* A record that no submission of `t` has to touch any more.
Settled(rec, t) == /\ rec # NoRecord
                   /\ Rank(rec.status) >= 2
                   /\ rec.status = "submitted" => rec.tx # t

\* A submitted record keeps its transaction for as long as it is submitted.
LEMMA KeepsTransaction ==
    ASSUME TypeOK, Judged, [Next]_vars, NEW o \in Ops,
           Submitted(records[o]), Submitted(records'[o])
    PROVE  records'[o].tx = records[o].tx
  <1>1. CASE ~ \E c \in Submitters : submit_eval(c)
    BY <1>1, OnlySubmitEvalSubmits
  <1>2. ASSUME NEW c \in Submitters, submit_eval(c) PROVE records'[o] = records[o]
    BY <1>2 DEF submit_eval, StillAsJudged, Submitted, TypeOK
  <1> QED
    BY <1>1, <1>2

LEMMA StaysSettled ==
    ASSUME TypeOK, TypeOK', Judged, [Next]_vars, NEW o \in Ops, o \notin expired',
           NEW t \in Tx, Settled(records[o], t)
    PROVE  Settled(records'[o], t)
  <1>1. records'[o] # NoRecord /\ Climbs(records[o], records'[o])
    BY RecordsClimb DEF Settled
  <1>2. records[o].status \in Status /\ records'[o].status \in Status
    BY <1>1 DEF TypeOK, Record, Settled
  <1>3. Rank(records'[o].status) >= 2
    BY <1>1, <1>2, RankBounds DEF Climbs, Settled, MaxRank
  <1>4. CASE records'[o].status = "submitted"
    <2>1. Rank(records'[o].status) = 2
      BY <1>4 DEF Rank
    <2>2. records[o].status = "submitted"
      BY <1>1, <1>2, <1>4, <2>1, RankBounds DEF Climbs, Settled, MaxRank
    <2>3. records'[o].tx = records[o].tx
      BY <1>1, <1>4, <2>2, KeepsTransaction DEF Submitted, Settled
    <2> QED
      BY <1>1, <1>3, <2>2, <2>3 DEF Settled
  <1> QED
    BY <1>1, <1>3, <1>4 DEF Settled

\* A member that is to be read again has climbed once for every round lost.
Reread(rec, failures) == IF rec = NoRecord THEN failures = 0
                                           ELSE failures <= Rank(rec.status)

\* A planned member is as it was judged, or has climbed since.
Planned(rec, observed, failures, t) ==
    /\ rec # NoRecord
    /\ failures <= Rank(observed)
    /\ rec.status = observed \/ Rank(rec.status) > Rank(observed)
    /\ rec.status = "submitted" /\ observed = "submitted" => rec.tx = t

\* What a submission knows of a member: it is indexed, its record expired, the
\* call has still to decide on it, or it is settled.
Accounted(call, o) ==
    \/ o \in call.indexed \/ o \in expired
    \/ call.pc = "read" /\ o \in call.remaining
    \/ call.pc = "eval" /\ o \in call.planned
    \/ Settled(records[o], call.tx)

SubmissionHolds(call) ==
    /\ \A o \in call.members : call.pc # "idle" => Accounted(call, o)
    /\ call.pc = "read" => \A o \in call.remaining \ expired :
                             Reread(records[o], call.failures)
    /\ call.pc = "eval" => \A o \in call.planned \ expired :
                             Planned(records[o], call.observed[o], call.failures, call.tx)

\* What the steps of others leave of that knowledge.
LEMMA StaysReread ==
    ASSUME TypeOK, TypeOK', Judged, [Next]_vars, NEW o \in Ops, o \notin expired',
           NEW failures \in Nat, Reread(records[o], failures)
    PROVE  Reread(records'[o], failures)
  <1>1. /\ records[o] # NoRecord => records[o].status \in Status
        /\ records'[o] # NoRecord => records'[o].status \in Status
    BY DEF TypeOK, Record
  <1>2. CASE records[o] = NoRecord
    BY <1>1, <1>2, RankBounds DEF Reread, MaxRank
  <1>3. CASE records[o] # NoRecord
    <2>1. records'[o] # NoRecord /\ Climbs(records[o], records'[o])
      BY <1>3, RecordsClimb
    <2> QED
      BY <1>1, <1>3, <2>1, RankBounds DEF Reread, Climbs, MaxRank
  <1> QED
    BY <1>2, <1>3

LEMMA StaysPlanned ==
    ASSUME TypeOK, TypeOK', Judged, [Next]_vars, NEW o \in Ops, o \notin expired',
           NEW failures \in Nat, NEW s \in Status, NEW t \in Tx,
           Planned(records[o], s, failures, t)
    PROVE  Planned(records'[o], s, failures, t)
  <1>1. records'[o] # NoRecord /\ Climbs(records[o], records'[o])
    BY RecordsClimb DEF Planned
  <1>2. records[o].status \in Status /\ records'[o].status \in Status
    BY <1>1 DEF TypeOK, Record, Planned
  <1>3. records'[o].status = s \/ Rank(records'[o].status) > Rank(s)
    BY <1>1, <1>2, RankBounds DEF Climbs, Planned, MaxRank
  <1>4. ASSUME records'[o].status = "submitted", s = "submitted"
        PROVE  records'[o].tx = t
    <2>1. /\ records[o].status = s \/ Rank(records[o].status) > Rank(s)
          /\ records'[o].status = records[o].status
               \/ Rank(records'[o].status) > Rank(records[o].status)
      BY <1>1 DEF Climbs, Planned
    <2>2. Rank(s) \in Nat /\ Rank(records[o].status) \in Nat
      BY <1>2, RankBounds DEF MaxRank
    <2>3. records[o].status = "submitted"
      BY <1>4, <2>1, <2>2
    <2> QED
      BY <1>1, <1>4, <2>3, KeepsTransaction DEF Submitted, Planned
  <1> QED
    BY <1>1, <1>3, <1>4 DEF Planned

\* A call that a step leaves alone keeps what it knows.
LEMMA OthersKeepSubmission ==
    ASSUME TypeOK, TypeOK', Judged, [Next]_vars, NEW c \in Submitters,
           SubmissionHolds(scall[c]), scall'[c] = scall[c]
    PROVE  SubmissionHolds(scall[c])'
  <1> DEFINE call == scall[c]
  <1>0. /\ call \in SubmitCall /\ call.failures \in Nat
        /\ call.members \subseteq Ops /\ call.remaining \subseteq Ops
        /\ call.planned \subseteq Ops
        /\ \A o \in Ops : call.observed[o] \in Status
        /\ call.pc # "idle" => call.tx \in Tx
        /\ expired \subseteq expired'
    BY ExpiredGrows DEF TypeOK, SubmitCall
  <1>1. ASSUME NEW o \in call.members, call.pc # "idle" PROVE Accounted(call, o)'
    BY <1>0, <1>1, StaysSettled DEF Accounted, SubmissionHolds
  <1>2. ASSUME call.pc = "read", NEW o \in call.remaining \ expired'
        PROVE  Reread(records'[o], call.failures)
    BY <1>0, <1>2, StaysReread DEF SubmissionHolds
  <1>3. ASSUME call.pc = "eval", NEW o \in call.planned \ expired'
        PROVE  Planned(records'[o], call.observed[o], call.failures, call.tx)
    BY <1>0, <1>3, StaysPlanned DEF SubmissionHolds
  <1> QED
    BY <1>1, <1>2, <1>3 DEF SubmissionHolds

\* What submit_read knows of the members it does not plan.
LEMMA SkippedIsSettled ==
    ASSUME NEW rec \in Record, NEW t \in Tx,
           decide_bundle_submission(rec.status, rec.tx, t) = "skip"
    PROVE  Settled(rec, t)
  <1>1. rec.status \notin {"queued", "not_submitted"} /\ (rec.status = "submitted" => rec.tx # t)
    BY DEF decide_bundle_submission
  <1> QED
    BY <1>1, NullsAssumption DEF Settled, Rank, Record, Status

LEMMA TouchedIsPlanned ==
    ASSUME NEW rec \in Record, NEW t \in Tx, NEW failures \in Nat, Reread(rec, failures),
           decide_bundle_submission(rec.status, rec.tx, t) # "skip"
    PROVE  Planned(rec, rec.status, failures, t)
  <1>1. rec # NoRecord
    BY NullsAssumption
  <1>2. rec.status = "submitted" => rec.tx = t
    BY DEF decide_bundle_submission
  <1> QED
    BY <1>1, <1>2 DEF Planned, Reread

\* What submit_eval leaves of a planned member that moved.
LEMMA MovedHasClimbed ==
    ASSUME NEW call \in SubmitCall, TypeOK, NEW o \in call.planned, o \notin StillAsJudged(call),
           Planned(records[o], call.observed[o], call.failures, call.tx)
    PROVE  /\ call.failures + 1 < LIFECYCLE_GUARD_ATTEMPTS
           /\ Reread(records[o], call.failures + 1)
  <1>1. /\ o \in Ops /\ call.failures \in Nat /\ call.observed[o] \in Status
        /\ records[o] # NoRecord /\ records[o].status \in Status
    BY DEF SubmitCall, TypeOK, Planned, Record
  <1>2. records[o].status # call.observed[o]
    BY <1>1 DEF StillAsJudged, Planned
  <1>3. /\ Rank(records[o].status) > Rank(call.observed[o])
        /\ call.failures <= Rank(call.observed[o])
    BY <1>2 DEF Planned
  <1>4. Rank(records[o].status) \in 0 .. 3 /\ Rank(call.observed[o]) \in 0 .. 3
    BY <1>1, RankBounds DEF MaxRank
  <1> QED
    BY <1>1, <1>3, <1>4, StoreAssumption DEF Reread, MaxRank

\* The call itself keeps its knowledge.
LEMMA ReadKeepsSubmission ==
    ASSUME TypeOK, TypeOK', Judged, [Next]_vars, NEW c \in Submitters,
           SubmissionHolds(scall[c]), submit_read(c)
    PROVE  SubmissionHolds(scall[c])'
  <1> DEFINE call == scall[c]
             touched == {o \in call.remaining :
                      /\ records[o] # NoRecord
                      /\ decide_bundle_submission(records[o].status, records[o].tx, call.tx)
                           # "skip"}
             found == call.members \ {o \in call.remaining : records[o] = NoRecord}
             observed == [o \in Ops |-> IF o \in touched THEN records[o].status
                                                         ELSE "queued"]
  <1>0. /\ call \in SubmitCall /\ call.failures \in Nat /\ call.tx \in Tx /\ call.pc = "read"
        /\ call.members \subseteq Ops /\ call.remaining \subseteq Ops
        /\ \A o \in Ops : records[o] # NoRecord => records[o] \in Record
        /\ records' = records /\ expired' = expired
    <2>1. call.pc = "read" /\ records' = records /\ expired' = expired
      BY DEF submit_read
    <2> QED
      BY <2>1 DEF TypeOK, SubmitCall
  <1>1. ASSUME NEW o \in found
        PROVE  o \in call.indexed \/ o \in expired \/ o \in touched \/ Settled(records[o], call.tx)
    <2>1. CASE o \in call.remaining
      BY <1>0, <2>1, SkippedIsSettled
    <2>2. CASE o \notin call.remaining
      BY <1>0, <2>2 DEF SubmissionHolds, Accounted
    <2> QED
      BY <2>1, <2>2
  <1>2. ASSUME NEW o \in touched \ expired
        PROVE  Planned(records[o], observed[o], call.failures, call.tx)
    BY <1>0, TouchedIsPlanned DEF SubmissionHolds
  <1>3. CASE touched = {} /\ SubmitReturns(c, found, call.indexed)
    <2>1. scall'[c] = DoneSubmit(call.tx, found, call.indexed)
      BY <1>3 DEF SubmitReturns, TypeOK
    <2>2. /\ scall'[c].pc = "done" /\ scall'[c].tx = call.tx
          /\ scall'[c].members = found /\ scall'[c].indexed = call.indexed
      BY <2>1 DEF DoneSubmit, IdleSubmit
    <2> HIDE DEF found
    <2> QED
      BY <1>0, <1>1, <1>3, <2>2 DEF SubmissionHolds, Accounted
  <1>4. CASE scall' = [scall EXCEPT ![c].pc = "eval", ![c].members = found,
                                    ![c].planned = touched, ![c].observed = observed]
    <2> HIDE DEF found, touched, observed
    <2>1. /\ scall'[c].pc = "eval" /\ scall'[c].tx = call.tx /\ scall'[c].members = found
          /\ scall'[c].planned = touched /\ scall'[c].observed = observed
          /\ scall'[c].failures = call.failures /\ scall'[c].indexed = call.indexed
      BY <1>0, <1>4 DEF TypeOK, SubmitCall
    <2> QED
      BY <1>0, <1>1, <1>2, <2>1 DEF SubmissionHolds, Accounted
  <1> QED
    BY <1>3, <1>4 DEF submit_read

LEMMA EvalKeepsSubmission ==
    ASSUME TypeOK, TypeOK', Judged, [Next]_vars, NEW c \in Submitters,
           SubmissionHolds(scall[c]), submit_eval(c)
    PROVE  SubmissionHolds(scall[c])'
  <1> DEFINE call == scall[c]
             applied == StillAsJudged(call)
             moved == call.planned \ applied
  <1>0. /\ call \in SubmitCall /\ call.failures \in Nat /\ call.tx \in Tx /\ call.pc = "eval"
        /\ call.members \subseteq Ops /\ call.planned \subseteq Ops
        /\ expired' = expired
    BY DEF TypeOK, SubmitCall, submit_eval
  <1>1. ASSUME NEW o \in moved \ expired
        PROVE  /\ call.failures + 1 < LIFECYCLE_GUARD_ATTEMPTS
               /\ Reread(records'[o], call.failures + 1)
    <2>1. records'[o] = records[o]
      BY <1>0 DEF submit_eval
    <2> QED
      BY <1>0, <2>1, MovedHasClimbed DEF SubmissionHolds
  <1>2. ASSUME NEW o \in call.members
        PROVE  \/ o \in call.indexed \cup applied \/ o \in expired \/ o \in moved
               \/ Settled(records'[o], call.tx)
    BY <1>0, StaysSettled DEF SubmissionHolds, Accounted
  <1>3. CASE moved \subseteq expired /\ SubmitReturns(c, call.members, call.indexed \cup applied)
    <2> HIDE DEF applied
    <2>1. scall'[c] = DoneSubmit(call.tx, call.members, call.indexed \cup applied)
      BY <1>3 DEF SubmitReturns, TypeOK
    <2>2. /\ scall'[c].pc = "done" /\ scall'[c].tx = call.tx
          /\ scall'[c].members = call.members /\ scall'[c].indexed = call.indexed \cup applied
      BY <2>1 DEF DoneSubmit, IdleSubmit
    <2> HIDE DEF moved
    <2> QED
      BY <1>0, <1>2, <1>3, <2>2 DEF SubmissionHolds, Accounted
  <1>4. CASE scall' = [scall EXCEPT ![c].pc = "read", ![c].remaining = moved,
                                    ![c].indexed = @ \cup applied, ![c].failures = @ + 1]
    <2> HIDE DEF applied, moved
    <2>1. /\ scall'[c].pc = "read" /\ scall'[c].tx = call.tx
          /\ scall'[c].members = call.members /\ scall'[c].remaining = moved
          /\ scall'[c].failures = call.failures + 1
          /\ scall'[c].indexed = call.indexed \cup applied
      BY <1>0, <1>4 DEF TypeOK, SubmitCall
    <2> QED
      BY <1>0, <1>1, <1>2, <2>1 DEF SubmissionHolds, Accounted
  <1>5. CASE SubmitFails(c)
    <2>1. scall'[c].pc = "idle"
      BY <1>5, CallFields DEF SubmitFails, TypeOK
    <2> QED
      BY <2>1 DEF SubmissionHolds
  <1>6. ~(moved \subseteq expired) => call.failures + 1 < LIFECYCLE_GUARD_ATTEMPTS
    BY <1>1
  <1> QED
    BY <1>0, <1>3, <1>4, <1>5, <1>6, StoreAssumption DEF submit_eval

LEMMA SubmissionInvariant == Spec => [](\A c \in Submitters : SubmissionHolds(scall[c]))
  <1> DEFINE Holds == \A c \in Submitters : SubmissionHolds(scall[c])
  <1>1. Init => Holds
    BY DEF Init, SubmissionHolds, IdleSubmit
  <1>2. TypeOK /\ TypeOK' /\ Judged /\ Holds /\ [Next]_vars => Holds'
    <2> SUFFICES ASSUME TypeOK, TypeOK', Judged, Holds, [Next]_vars, NEW c \in Submitters
                 PROVE  SubmissionHolds(scall[c])'
      OBVIOUS
    <2>1. CASE scall'[c] = scall[c]
      BY <2>1, OthersKeepSubmission
    <2>2. ASSUME NEW t \in Tx, NEW m \in SUBSET Ops, submit_begin(c, t, m)
          PROVE  SubmissionHolds(scall[c])'
      <3>1. scall'[c] = BegunSubmit(t, m) /\ records' = records
        BY <2>2 DEF submit_begin, TypeOK
      <3>2. /\ scall'[c].pc = "read" /\ scall'[c].members = m /\ scall'[c].remaining = m
            /\ scall'[c].failures = 0
        BY <3>1 DEF BegunSubmit, IdleSubmit
      <3>3. \A o \in m : Reread(records'[o], 0)
        BY <3>1, RankBounds DEF Reread, TypeOK, Record, MaxRank
      <3> QED
        BY <3>2, <3>3 DEF SubmissionHolds, Accounted
    <2>3. ASSUME submit_command_fails(c) PROVE SubmissionHolds(scall[c])'
      <3>1. scall'[c].pc = "idle"
        BY <2>3, CallFields DEF submit_command_fails, SubmitFails, TypeOK
      <3> QED
        BY <3>1 DEF SubmissionHolds
    <2>4. CASE scall'[c] # scall[c]
      <3>1. \/ \E t \in Tx, m \in SUBSET Ops : submit_begin(c, t, m)
            \/ submit_read(c) \/ submit_eval(c) \/ submit_command_fails(c)
        <4>1. ASSUME NEW d \in Submitters \ {c},
                     \/ \E t \in Tx, m \in SUBSET Ops : submit_begin(d, t, m)
                     \/ submit_read(d) \/ submit_eval(d) \/ submit_command_fails(d)
              PROVE  FALSE
          BY <2>4, <4>1 DEF TypeOK, submit_begin, submit_read, submit_eval,
             submit_command_fails, SubmitReturns, SubmitFails
        <4> QED
          BY <2>4, <4>1 DEF Next, vars, create_queued_with_admission, Expire, patch_begin,
             patch_read, patch_eval, patch_command_fails
      <3> QED
        BY <2>2, <2>3, <3>1, ReadKeepsSubmission, EvalKeepsSubmission
    <2> QED
      BY <2>1, <2>4
  <1> QED
    BY <1>1, <1>2, TypeCorrect, JudgedInvariant, PTL DEF Spec

\* mark_bundle_submitted never gives up with a live member left: every round
\* it loses is a climb of the member it lost to, and the attempts outnumber
\* the ranks.
THEOREM SubmissionLeavesNobodyBehind == Spec => []NoLiveMemberLeftBehind
  <1>1. TypeOK /\ (\A c \in Submitters : SubmissionHolds(scall[c])) => NoLiveMemberLeftBehind
    <2> SUFFICES ASSUME TypeOK, NEW c \in Submitters, SubmissionHolds(scall[c]),
                        scall[c].pc = "done",
                        NEW o \in (scall[c].members \ scall[c].indexed) \ expired
                 PROVE  /\ records[o].status \notin {"queued", "not_submitted"}
                        /\ records[o].status = "submitted" => records[o].tx # scall[c].tx
      BY DEF NoLiveMemberLeftBehind
    <2>1. Settled(records[o], scall[c].tx)
      BY DEF SubmissionHolds, Accounted
    <2> QED
      BY <2>1 DEF Settled, Rank
  <1> QED
    BY <1>1, TypeCorrect, SubmissionInvariant, PTL
==============================================================================
