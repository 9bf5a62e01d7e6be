-------------------------- MODULE AuditTrailProofs --------------------------
(***************************************************************************)
(* What a job's row and its events say, for any number of attempts and all  *)
(* faults.  The error message and the status agree because the arguments of *)
(* every call agree, the update takes both over together and the operator's *)
(* UPDATE touches only the status; the events are a subsequence of the      *)
(* updates because an insert follows its own update and no other one comes  *)
(* in between.                                                              *)
(***************************************************************************)
EXTENDS AuditTrail, TLAPS

Agrees(r) == r.msg # "" <=> r.status = "FAILED"

\* The row is as the latest update left it, but for a manual cancellation.
LastWord ==
    /\ Agrees(LastUpdate)
    /\ row.msg = LastUpdate.msg
    /\ row.status \in {LastUpdate.status, "FAILED"}

TrailInv ==
    /\ ATypeOK
    /\ LastWord
    /\ Agrees(call)
    /\ step = "stage" => call.stage \in PipelineStages
    /\ call.status = "RUNNING" => call.stage \in PipelineStages

\* A sequence grows by one element of its range.
LEMMA Appended ==
    ASSUME NEW S, NEW s \in Seq(S), NEW e \in S
    PROVE  Append(s, e) \in Seq(S)
  OBVIOUS

\* The next call of Execute is a legal one.
LEMMA NextCallOK ==
    ASSUME NEW stage \in PipelineStages
    PROVE  NextCall(stage) \in Rows /\ Agrees(NextCall(stage))
           /\ NextCall(stage).stage \in PipelineStages
<1>1. stage # "HEALTH_CHECKING" => \E next \in PipelineStages : ValidTransition(stage, next)
  BY DEF PipelineStages, ValidTransition, validTransitions
<1>2. stage # "HEALTH_CHECKING" =>
        (CHOOSE next \in PipelineStages : ValidTransition(stage, next)) \in PipelineStages
  BY <1>1
<1>3. \A s \in {"RUNNING", "COMPLETED"}, x \in PipelineStages :
        Update(s, x, "") \in Rows /\ Agrees(Update(s, x, ""))
        /\ Update(s, x, "").stage = x
  BY DEF Update, Rows, Agrees, JobStatuses, Messages
<1> QED  BY <1>2, <1>3 DEF NextCall

LEMMA TrailInit == AInit => TrailInv
<1> SUFFICES ASSUME AInit PROVE TrailInv
  OBVIOUS
<1>1. /\ row \in Rows /\ LastWord /\ call \in Rows /\ Agrees(call)
      /\ call.stage \in PipelineStages
  BY DEF AInit, Update, Rows, LastWord, LastUpdate, Agrees, JobStatuses,
         PipelineStages, Messages
<1>2. runs \in 0..MaxRuns
  <2>1. runs = 0
    BY DEF AInit
  <2>2. MaxRuns \in Nat
    BY TrailAssumption
  <2> QED  BY <2>1, <2>2
<1>3. events \in Seq(Rows) /\ writes \in Seq(Rows) /\ origins \in Seq(Nat)
  <2>1. events = <<>> /\ writes = <<>> /\ origins = <<>>
    BY DEF AInit
  <2> QED  BY <2>1
<1> QED  BY <1>1, <1>2, <1>3 DEF AInit, TrailInv, ATypeOK

LEMMA TrailNext == TrailInv /\ [ANext]_avars => TrailInv'
<1> SUFFICES ASSUME TrailInv, [ANext]_avars PROVE TrailInv'
  OBVIOUS
<1>1. CASE StartRun
  <2>1. call' \in Rows /\ Agrees(call') /\ call'.stage \in PipelineStages
    BY <1>1 DEF StartRun, Update, Rows, Agrees, JobStatuses, PipelineStages, Messages
  <2>2. runs' \in 0..MaxRuns
    <3>1. runs < MaxRuns /\ runs' = runs + 1
      BY <1>1 DEF StartRun
    <3>2. runs \in 0..MaxRuns
      BY DEF TrailInv, ATypeOK
    <3>3. MaxRuns \in Nat
      BY TrailAssumption
    <3> QED  BY <3>1, <3>2, <3>3
  <2> QED  BY <1>1, <2>1, <2>2 DEF StartRun, TrailInv, ATypeOK, LastWord, LastUpdate, Agrees
<1>2. CASE UpdateRow
  <2>1. UNCHANGED <<events, origins, call, runs>> /\ step' \in {"insert", "idle"}
        /\ (WriteRow \/ UNCHANGED <<row, writes>>)
    BY <1>2 DEF UpdateRow
  <2>2. CASE WriteRow
    <3>1. row' = call
      BY <2>2 DEF WriteRow, Coalesce, TrailInv, ATypeOK, Rows
    <3>2. writes' \in Seq(Rows)
      <4>1. writes \in Seq(Rows) /\ call \in Rows /\ writes' = Append(writes, call)
        BY <2>2, <3>1 DEF WriteRow, TrailInv, ATypeOK
      <4> QED  BY <4>1, Appended
    <3>3. LastUpdate' = call
      <4>1. writes \in Seq(Rows) /\ call \in Rows /\ writes' = Append(writes, call)
        BY <2>2, <3>1 DEF WriteRow, TrailInv, ATypeOK
      <4>2. writes' # <<>> /\ writes'[Len(writes')] = call
        BY <4>1
      <4> QED  BY <4>2 DEF LastUpdate
    <3>4. LastWord'
      BY <3>1, <3>3 DEF LastWord, TrailInv, Agrees
    <3> QED  BY <2>1, <3>1, <3>2, <3>4 DEF TrailInv, ATypeOK, Agrees
  <2>3. CASE UNCHANGED <<row, writes>>
    BY <2>1, <2>3 DEF TrailInv, ATypeOK, LastWord, LastUpdate, Agrees
  <2> QED  BY <2>1, <2>2, <2>3
<1>3. CASE InsertEvent
  <2>1. UNCHANGED <<row, writes, call, runs>> /\ step' \in {"stage", "idle", "done"}
        /\ (step' = "stage" => call.status = "RUNNING")
    BY <1>3 DEF InsertEvent, AfterUpdate
  <2>2. events' \in Seq(Rows) /\ origins' \in Seq(Nat)
    <3>1. /\ events \in Seq(Rows) /\ origins \in Seq(Nat) /\ writes \in Seq(Rows)
          /\ call \in Rows
      BY DEF TrailInv, ATypeOK
    <3>2. Len(writes) \in Nat
      BY <3>1
    <3>3. Append(events, call) \in Seq(Rows) /\ Append(origins, Len(writes)) \in Seq(Nat)
      BY <3>1, <3>2, Appended
    <3> QED  BY <1>3, <3>1, <3>3 DEF InsertEvent
  <2> QED  BY <2>1, <2>2 DEF TrailInv, ATypeOK, LastWord, LastUpdate, Agrees
<1>4. CASE EndStage
  <2>1. call.stage \in PipelineStages
    BY <1>4 DEF EndStage, TrailInv
  <2>2. \A x \in PipelineStages :
          Update("FAILED", x, "error") \in Rows /\ Agrees(Update("FAILED", x, "error"))
          /\ Update("FAILED", x, "error").stage = x
    BY DEF Update, Rows, Agrees, JobStatuses, Messages
  <2>3. call' \in Rows /\ Agrees(call') /\ call'.stage \in PipelineStages
    BY <1>4, <2>1, <2>2, NextCallOK DEF EndStage
  <2> QED  BY <1>4, <2>3 DEF EndStage, TrailInv, ATypeOK, LastWord, LastUpdate, Agrees
<1>5. CASE EndRun
  BY <1>5 DEF EndRun, TrailInv, ATypeOK, LastWord, LastUpdate, Agrees
<1>6. CASE UNCHANGED avars
  BY <1>6 DEF avars, TrailInv, ATypeOK, LastWord, LastUpdate, Agrees
<1>7. CASE Cancel
  <2>1. row' \in Rows /\ row'.status = "FAILED" /\ row'.msg = row.msg
    BY <1>7 DEF Cancel, TrailInv, ATypeOK, Rows, JobStatuses
  <2>2. LastWord'
    BY <1>7, <2>1 DEF Cancel, TrailInv, LastWord, LastUpdate, Agrees
  <2> QED  BY <1>7, <2>1, <2>2 DEF Cancel, TrailInv, ATypeOK, Agrees
<1> QED  BY <1>1, <1>2, <1>3, <1>4, <1>5, <1>6, <1>7 DEF ANext

\* A job shows an error message only while it is FAILED, and lacks one then only
\* if it was an operator who failed it, for any attempts and all faults.
THEOREM MessagesAgree == ASpec => []MessageMatchesStatus
<1>1. TrailInv => MessageMatchesStatus
  BY DEF TrailInv, LastWord, Agrees, MessageMatchesStatus
<1> QED  BY <1>1, TrailInit, TrailNext, PTL DEF ASpec

\* The row and the events stay in their ranges, and attempts are bounded.
THEOREM TrailTypeCorrect == ASpec => []ATypeOK
<1>1. TrailInv => ATypeOK
  BY DEF TrailInv
<1> QED  BY <1>1, TrailInit, TrailNext, PTL DEF ASpec

-----------------------------------------------------------------------------
(* Events and updates *)

\* Between an update and its event no other update happens: the latest entry of
\* writes is the one about to be recorded, and has not been recorded yet.
Pending ==
    step = "insert" =>
        /\ Len(writes) # 0 /\ writes[Len(writes)] = call
        /\ \A n \in 1..Len(events) : origins[n] < Len(writes)

OriginInv == ATypeOK /\ EventsAreWrites /\ Pending

\* A further update leaves the earlier ones in their places.
LEMMA WriteKeepsOrigins ==
    ASSUME OriginInv, call \in Rows, row' = call, writes' = Append(writes, call),
           UNCHANGED <<events, origins>>
    PROVE  /\ EventsAreWrites'
           /\ Len(writes') # 0 /\ writes'[Len(writes')] = call
           /\ \A n \in 1..Len(events') : origins'[n] < Len(writes')
<1>1. /\ writes \in Seq(Rows) /\ events \in Seq(Rows) /\ origins \in Seq(Nat)
      /\ Len(writes) \in Nat /\ Len(events) \in Nat
  BY DEF OriginInv, ATypeOK
<1>2. /\ Len(writes') = Len(writes) + 1 /\ writes'[Len(writes) + 1] = call
      /\ \A k \in 1..Len(writes) : writes'[k] = writes[k]
  BY <1>1
<1>3. \A n \in 1..Len(events) : origins[n] \in 1..Len(writes)
  BY DEF OriginInv, EventsAreWrites
<1>4. \A n \in 1..Len(events) :
         origins[n] \in 1..Len(writes') /\ origins[n] < Len(writes')
         /\ writes'[origins[n]] = writes[origins[n]]
  BY <1>1, <1>2, <1>3
<1>5. EventsAreWrites'
  BY <1>4 DEF OriginInv, EventsAreWrites
<1> QED  BY <1>1, <1>2, <1>4, <1>5

\* The event of the latest update comes after all others.
LEMMA InsertKeepsOrigins ==
    ASSUME OriginInv, step = "insert", writes' = writes,
           events' = Append(events, call), origins' = Append(origins, Len(writes))
    PROVE  EventsAreWrites'
<1>1. /\ events \in Seq(Rows) /\ origins \in Seq(Nat) /\ Len(writes) \in Nat
      /\ Len(events) \in Nat /\ Len(origins) = Len(events)
  BY DEF OriginInv, ATypeOK, EventsAreWrites
<1>2. /\ Len(events') = Len(events) + 1 /\ Len(origins') = Len(events) + 1
      /\ events'[Len(events) + 1] = call /\ origins'[Len(events) + 1] = Len(writes)
      /\ \A n \in 1..Len(events) : events'[n] = events[n] /\ origins'[n] = origins[n]
  BY <1>1
<1>3. /\ Len(writes) \in 1..Len(writes) /\ writes[Len(writes)] = call
      /\ \A n \in 1..Len(events) : origins[n] < Len(writes)
  BY <1>1 DEF OriginInv, Pending
<1>4. ASSUME NEW n \in 1..Len(events')
      PROVE  /\ origins'[n] \in 1..Len(writes) /\ events'[n] = writes[origins'[n]]
             /\ \A k \in 1..(n - 1) : origins'[k] < origins'[n]
  <2>1. CASE n = Len(events) + 1
    BY <1>1, <1>2, <1>3, <2>1
  <2>2. CASE n \in 1..Len(events)
    <3>1. \A k \in 1..(n - 1) : k \in 1..Len(events)
      BY <1>1, <2>2
    <3> QED  BY <1>2, <2>2, <3>1 DEF OriginInv, EventsAreWrites
  <2> QED  BY <1>1, <1>2, <2>1, <2>2
<1> QED  BY <1>2, <1>4 DEF EventsAreWrites

LEMMA OriginNext == OriginInv /\ TrailInv /\ TrailInv' /\ [ANext]_avars => OriginInv'
<1> SUFFICES ASSUME OriginInv, TrailInv, TrailInv', [ANext]_avars
             PROVE  EventsAreWrites' /\ Pending'
  BY DEF OriginInv, TrailInv
<1>1. CASE UpdateRow /\ ~UNCHANGED <<row, writes>>
  <2>1. UNCHANGED <<events, origins, call>> /\ WriteRow
    BY <1>1 DEF UpdateRow
  <2>2. call \in Rows /\ row' = call /\ writes' = Append(writes, call)
    BY <2>1 DEF WriteRow, Coalesce, TrailInv, ATypeOK, Rows
  <2> QED  BY <2>1, <2>2, WriteKeepsOrigins DEF Pending
<1>2. CASE InsertEvent /\ ~UNCHANGED events
  <2>1. /\ step = "insert" /\ step' # "insert" /\ writes' = writes
        /\ events' = Append(events, call) /\ origins' = Append(origins, Len(writes))
    BY <1>2 DEF InsertEvent, AfterUpdate
  <2> QED  BY <2>1, InsertKeepsOrigins DEF Pending
<1>3. CASE UNCHANGED <<events, origins, writes>> /\ step' # "insert"
  BY <1>3 DEF OriginInv, EventsAreWrites, Pending
<1>4. CASE UNCHANGED avars \/ Cancel
  BY <1>4 DEF avars, Cancel, OriginInv, EventsAreWrites, Pending
<1>5. ANext => \/ UpdateRow /\ ~UNCHANGED <<row, writes>>
               \/ InsertEvent /\ ~UNCHANGED events
               \/ UNCHANGED <<events, origins, writes>> /\ step' # "insert"
               \/ Cancel
  <2>1. CASE UpdateRow
    <3>1. WriteRow \/ (UNCHANGED <<row, writes>> /\ step' = "idle")
      BY <2>1 DEF UpdateRow
    <3>2. WriteRow => ~UNCHANGED writes
      BY DEF WriteRow, TrailInv, ATypeOK
    <3> QED  BY <2>1, <3>1, <3>2 DEF UpdateRow
  <2>2. CASE InsertEvent
    <3>1. events' = Append(events, call) \/ UNCHANGED <<events, origins>>
      BY <2>2 DEF InsertEvent
    <3>2. writes' = writes /\ step' # "insert"
      BY <2>2 DEF InsertEvent, AfterUpdate
    <3>3. events' = Append(events, call) => ~UNCHANGED events
      BY DEF TrailInv, ATypeOK
    <3> QED  BY <2>2, <3>1, <3>2, <3>3
  <2>3. CASE StartRun \/ EndStage \/ EndRun
    BY <2>3 DEF StartRun, EndStage, EndRun
  <2> QED  BY <2>1, <2>2, <2>3 DEF ANext
<1> QED  BY <1>1, <1>2, <1>3, <1>4, <1>5

\* Every recorded event is an update that happened, recorded once and in order,
\* for any number of attempts and all faults.
THEOREM TrailIsHonest == ASpec => []EventsAreWrites
<1>1. AInit => OriginInv
  <2>1. AInit => EventsAreWrites /\ Pending
    <3>1. AInit => events = <<>> /\ origins = <<>> /\ step # "insert"
      BY DEF AInit
    <3>2. Len(<<>>) = 0 /\ 1..0 = {}
      OBVIOUS
    <3> QED  BY <3>1, <3>2 DEF EventsAreWrites, Pending
  <2> QED  BY <2>1, TrailInit DEF OriginInv, TrailInv
<1>2. OriginInv => EventsAreWrites
  BY DEF OriginInv
<1> QED  BY <1>1, <1>2, OriginNext, TrailInit, TrailNext, PTL DEF ASpec
=============================================================================
