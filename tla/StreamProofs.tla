---------------------------- MODULE StreamProofs ----------------------------
(***************************************************************************)
(* Proofs about Stream.tla, for any two [DONE] lines, any bytes and any    *)
(* length of stream: what the bounded detector says is what a look at the  *)
(* whole text would say.                                                   *)
(***************************************************************************)
EXTENDS Stream, SequenceTheorems, TLAPS

\* A line that is longer than the buffer is no [DONE] line, nor is an empty one.
LEMMA DoneLinesAreShort ==
  ASSUME NEW s \in Seq(Byte), IsSSEDoneLine(s)
  PROVE  s # <<>> /\ Len(s) <= LineMax
<1>1. /\ Len(DoneLine) \in Nat \ {0} /\ Len(SpacedLine) \in Nat \ {0}
      /\ Len(Append(DoneLine, Return)) = Len(DoneLine) + 1
      /\ Len(Append(SpacedLine, Return)) = Len(SpacedLine) + 1
  BY LineAssumption
<1>2. QED
  BY <1>1, LineAssumption DEF IsSSEDoneLine, LineMax

LEMMA LineMaxIsPositive == LineMax \in Nat /\ LineMax > 1
BY LineAssumption DEF LineMax

\* Where the invariant holds, the detector judges the line under way rightly.
LEMMA LineIsJudged ==
  ASSUME DetectorInv, outcome = "open", ~done
  PROVE  (~lineTooLong /\ IsSSEDoneLine(line)) <=> IsSSEDoneLine(current)
<1>1. CASE Len(current) <= LineMax
  BY <1>1 DEF DetectorInv
<1>2. CASE ~(Len(current) <= LineMax)
  <2>1. lineTooLong /\ current \in Seq(Byte)
    BY <1>2 DEF DetectorInv, StreamTypeOK
  <2>2. QED
    BY <1>2, <2>1, DoneLinesAreShort
<1>3. QED
  BY <1>1, <1>2

LEMMA DetectorSays ==
  ASSUME DetectorInv, outcome = "open"
  PROVE  SawDone <=> DoneForwarded
<1>1. CASE done
  BY <1>1 DEF DetectorInv, SawDone, DoneForwarded
<1>2. CASE ~done
  <2>1. (~lineTooLong /\ IsSSEDoneLine(line)) <=> IsSSEDoneLine(current)
    BY <1>2, LineIsJudged
  <2>2. ~started => ~IsSSEDoneLine(current)
    BY DoneLinesAreShort DEF DetectorInv, StreamTypeOK
  <2>3. done = doneLine
    BY DEF DetectorInv
  <2>4. QED
    BY <1>2, <2>1, <2>2, <2>3 DEF SawDone, DoneForwarded
<1>3. QED
  BY <1>1, <1>2

-----------------------------------------------------------------------------
LEMMA ForwardKeepsInv ==
  ASSUME DetectorInv, NEW b \in Byte, Forward(b)
  PROVE  DetectorInv'
<1> USE DEF Forward
<1>1. /\ outcome = "open" /\ outcome' = "open" /\ missing' = missing /\ ~missing
      /\ started' = TRUE /\ done = doneLine /\ canceled' = canceled
      /\ current \in Seq(Byte) /\ line \in Seq(Byte)
      /\ done \in BOOLEAN /\ lineTooLong \in BOOLEAN /\ doneLine \in BOOLEAN
      /\ canceled \in BOOLEAN /\ LineMax \in Nat /\ LineMax > 1
  BY LineMaxIsPositive DEF Receive, Observe, DetectorInv, StreamTypeOK
<1>2. CASE b = Newline
  <2>1. current' = <<>> /\ doneLine' = IF IsSSEDoneLine(current) THEN TRUE ELSE doneLine
    BY <1>2 DEF Receive
  <2>2. CASE done
    <3>1. done' = done /\ line' = line /\ lineTooLong' = lineTooLong /\ ~lineTooLong
      BY <1>1, <2>2 DEF Observe, DetectorInv
    <3>2. doneLine' = TRUE
      BY <1>1, <2>1, <2>2
    <3>3. QED
      BY <1>1, <2>1, <2>2, <3>1, <3>2 DEF DetectorInv, StreamTypeOK
  <2>3. CASE ~done
    <3>1. /\ done' = IF ~lineTooLong /\ IsSSEDoneLine(line) THEN TRUE ELSE done
          /\ line' = <<>> /\ lineTooLong' = FALSE
      BY <1>2, <2>3 DEF Observe, EndLine
    <3>2. done' = doneLine'
      BY <1>1, <2>1, <2>3, <3>1, LineIsJudged
    <3>3. /\ doneLine' = TRUE \/ doneLine' = doneLine
          /\ current' \in Seq(Byte) /\ Len(current') <= LineMax
      <4>1. <<>> \in Seq(Byte) /\ Len(<<>>) = 0
        OBVIOUS
      <4>2. QED
        BY <1>1, <2>1, <4>1
    <3>4. StreamTypeOK'
      <4>1. doneLine' \in BOOLEAN
        BY <1>1, <3>3, Zenon
      <4>2. done' \in BOOLEAN
        BY <3>2, <4>1
      <4>3. missing' \in BOOLEAN /\ outcome' = outcome /\ outcome = "open"
        BY <1>1 DEF DetectorInv, StreamTypeOK
      <4>4. line' \in Seq(Byte) /\ current' \in Seq(Byte)
        BY <3>1, <3>3
      <4>5. started' \in BOOLEAN /\ lineTooLong' \in BOOLEAN /\ canceled' \in BOOLEAN
        BY <1>1, <3>1
      <4>6. QED
        BY <4>1, <4>2, <4>3, <4>4, <4>5 DEF StreamTypeOK
    <3>5. QED
      BY <1>1, <2>1, <3>1, <3>2, <3>3, <3>4 DEF DetectorInv
  <2>4. QED
    BY <2>2, <2>3
<1>3. CASE b # Newline
  <2>1. current' = Append(current, b) /\ doneLine' = doneLine
    BY <1>3 DEF Receive
  <2>2. current' \in Seq(Byte) /\ Len(current') = Len(current) + 1 /\ Len(current) \in Nat
    BY <1>1, <2>1
  <2>3. CASE done
    BY <1>1, <1>3, <2>1, <2>2, <2>3 DEF Observe, DetectorInv, StreamTypeOK
  <2>4. CASE ~done
    <3>1. ExtendLine(b) /\ done' = done
      BY <1>3, <2>4 DEF Observe, ExtendLine
    <3>2. CASE Len(current) < LineMax
      <4>1. line = current /\ ~lineTooLong
        BY <1>1, <2>2, <2>4, <3>2 DEF DetectorInv
      <4>2. line' = current' /\ lineTooLong' = lineTooLong
        BY <2>1, <3>1, <3>2, <4>1 DEF ExtendLine
      <4>3. QED
        BY <1>1, <2>1, <2>2, <2>4, <3>1, <3>2, <4>1, <4>2 DEF DetectorInv, StreamTypeOK
    <3>3. CASE ~(Len(current) < LineMax)
      <4>1. lineTooLong \/ ~(Len(line) < LineMax)
        BY <1>1, <2>2, <2>4, <3>3 DEF DetectorInv
      <4>2. lineTooLong' = TRUE /\ line' = line
        BY <3>1, <4>1 DEF ExtendLine
      <4>3. ~(Len(current') <= LineMax)
        BY <1>1, <2>2, <3>3
      <4>4. QED
        BY <1>1, <2>1, <2>2, <2>4, <3>1, <4>2, <4>3 DEF DetectorInv, StreamTypeOK
    <3>4. QED
      BY <3>2, <3>3
  <2>5. QED
    BY <2>3, <2>4
<1>4. QED
  BY <1>2, <1>3

\* The stream is over; the detector is of the right type, and that is all.
LEMMA EndKeepsInv ==
  ASSUME DetectorInv, outcome' \in {"completed", "canceled", "left", "client-write",
                                    "missing-done", "upstream-read"},
         UNCHANGED <<canceled, current, doneLine>>, missing' \in BOOLEAN,
         UNCHANGED detectorVars \/ \E b \in Byte : Observe(b)
  PROVE  DetectorInv'
<1> DEFINE Typed == /\ line' \in Seq(Byte) /\ started' \in BOOLEAN
                    /\ done' \in BOOLEAN /\ lineTooLong' \in BOOLEAN
<1>1. Typed
  <2>1. CASE UNCHANGED detectorVars
    BY <2>1 DEF detectorVars, DetectorInv, StreamTypeOK
  <2>2. ASSUME NEW b \in Byte, Observe(b)
        PROVE  Typed
    <3>1. CASE UNCHANGED <<line, done, lineTooLong>>
      BY <2>2, <3>1 DEF Observe, DetectorInv, StreamTypeOK
    <3>2. CASE EndLine
      <4>1. /\ line' = <<>> /\ lineTooLong' = FALSE /\ started' = TRUE
            /\ done' = TRUE \/ done' = done
        BY <2>2, <3>2 DEF Observe, EndLine
      <4>2. done \in BOOLEAN
        BY DEF DetectorInv, StreamTypeOK
      <4>3. done' \in BOOLEAN
        BY <4>1, <4>2, Zenon
      <4>4. <<>> \in Seq(Byte)
        OBVIOUS
      <4>5. QED
        BY <4>1, <4>3, <4>4
    <3>3. CASE ExtendLine(b)
      <4>1. line \in Seq(Byte) /\ Append(line, b) \in Seq(Byte)
        BY DEF DetectorInv, StreamTypeOK
      <4>2. /\ line' = Append(line, b) \/ line' = line
            /\ lineTooLong' = TRUE \/ lineTooLong' = lineTooLong
            /\ done' = done /\ started' = TRUE
        BY <2>2, <3>3 DEF Observe, ExtendLine
      <4>3. QED
        BY <4>1, <4>2 DEF DetectorInv, StreamTypeOK
    <3>4. QED
      BY <2>2, <3>1, <3>2, <3>3 DEF Observe
  <2>3. QED
    BY <2>1, <2>2
<1>2. QED
  BY <1>1 DEF DetectorInv, StreamTypeOK

LEMMA StreamStepKeepsInv ==
  DetectorInv /\ [StreamNext]_streamVars => DetectorInv'
<1> SUFFICES ASSUME DetectorInv, [StreamNext]_streamVars
             PROVE  DetectorInv'
  OBVIOUS
<1>1. missing \in BOOLEAN
  BY DEF DetectorInv, StreamTypeOK
<1>2. CASE UNCHANGED streamVars
  BY <1>2 DEF streamVars, detectorVars, textVars, DetectorInv, StreamTypeOK
<1>3. ASSUME NEW b \in Byte, Forward(b)
      PROVE  DetectorInv'
  BY <1>3, ForwardKeepsInv
<1>4. ASSUME NEW b \in Byte, WriteFails(b)
      PROVE  DetectorInv'
  BY <1>4, EndKeepsInv DEF WriteFails, LeaveQuietly
<1>5. CASE StreamEnds
  BY <1>1, <1>5, EndKeepsInv DEF StreamEnds, LeaveQuietly, textVars
<1>6. CASE StreamBreaks
  BY <1>1, <1>6, EndKeepsInv DEF StreamBreaks, LeaveQuietly, textVars
<1>7. CASE Cancel
  BY <1>7 DEF Cancel, detectorVars, textVars, DetectorInv, StreamTypeOK
<1>8. QED
  BY <1>2, <1>3, <1>4, <1>5, <1>6, <1>7 DEF StreamNext

LEMMA StreamInitInv ==
  StreamInit => DetectorInv
<1>1. Len(<<>>) <= LineMax /\ <<>> \in Seq(Byte)
  BY LineMaxIsPositive
<1>2. QED
  BY <1>1 DEF StreamInit, DetectorInv, StreamTypeOK

\* The inductive invariant of the detector: it holds the line under way as
\* far as that matters, and has noticed every [DONE] line that is complete.
THEOREM DetectorInvariant ==
  StreamSpec => []DetectorInv
BY StreamInitInv, StreamStepKeepsInv, PTL DEF StreamSpec

\* The detector of forwardStreamingResponse finds a [DONE] line wherever one
\* is, and finds none where there is none, whatever the text.
THEOREM DetectsDoneHolds ==
  StreamSpec => []DetectsDone
<1>1. DetectorInv => DetectsDone
  BY DetectorSays DEF DetectsDone
<1>2. QED
  BY <1>1, DetectorInvariant, PTL

-----------------------------------------------------------------------------
\* How the stream ends says what the client has got.
THEOREM VerdictFitsHolds ==
  StreamSpec => []VerdictFits
<1>1. StreamInit => VerdictFits
  BY DEF StreamInit, VerdictFits
<1>2. DetectorInv /\ VerdictFits /\ [StreamNext]_streamVars => VerdictFits'
  <2> SUFFICES ASSUME DetectorInv, VerdictFits, [StreamNext]_streamVars
               PROVE  VerdictFits'
    OBVIOUS
  <2> DEFINE SameText == UNCHANGED <<current, doneLine>>
  <2>1. SameText => (DoneForwarded' <=> DoneForwarded)
    BY DEF DoneForwarded
  <2>2. outcome = "open" => (SawDone <=> DoneForwarded) /\ ~missing
    BY DetectorSays DEF DetectorInv
  <2>3. CASE UNCHANGED streamVars
    BY <2>1, <2>3 DEF streamVars, textVars, VerdictFits
  <2>4. CASE \E b \in Byte : Forward(b)
    BY <2>4 DEF Forward, VerdictFits
  <2>5. CASE \E b \in Byte : WriteFails(b)
    BY <2>1, <2>2, <2>5 DEF WriteFails, LeaveQuietly, VerdictFits
  <2>6. CASE StreamEnds
    BY <2>1, <2>2, <2>6 DEF StreamEnds, LeaveQuietly, textVars, VerdictFits
  <2>7. CASE StreamBreaks
    BY <2>1, <2>2, <2>7 DEF StreamBreaks, LeaveQuietly, textVars, VerdictFits
  <2>8. CASE Cancel
    BY <2>8 DEF Cancel, VerdictFits
  <2>9. QED
    BY <2>3, <2>4, <2>5, <2>6, <2>7, <2>8 DEF StreamNext
<1>3. QED
  BY <1>1, <1>2, DetectorInvariant, PTL DEF StreamSpec

=============================================================================
