------------------------------- MODULE Stream -------------------------------
(***************************************************************************)
(* One streamed answer on its way to the client: forwardStreamingResponse, *)
(* and the detector (dataChunk) that finds the [DONE] line in the bytes    *)
(* while it keeps no more of a line than the longest such line needs.      *)
(*                                                                         *)
(* The detector takes the bytes one at a time and forgets where a chunk    *)
(* ended, so here every byte is a chunk: a chunk of the code is a run of   *)
(* Forward steps, and a chunk whose write fails is a WriteFails step.      *)
(* What a stream does to the other requests is in Routing.tla.             *)
(***************************************************************************)
EXTENDS Integers, Sequences

CONSTANTS
    Byte,           \* the bytes a stream consists of
    Newline, Return,
    DoneLine,       \* "data:[DONE]"
    SpacedLine,     \* "data: [DONE]"
    MaxLine         \* bound: how long a line may get

ASSUME LineAssumption ==
    /\ Newline \in Byte /\ Return \in Byte \ {Newline}
    /\ DoneLine \in Seq(Byte \ {Newline, Return}) \ {<<>>}
    /\ SpacedLine \in Seq(Byte \ {Newline, Return}) \ {<<>>}
    /\ Len(DoneLine) <= Len(SpacedLine)

VARIABLES
    line, started, done, lineTooLong,   \* the detector
    canceled,       \* the context of the request is canceled
    outcome,        \* "open", or how the stream has ended
    current,        \* history: what the client has got of the line under way
    doneLine,       \* history: the client has got a whole [DONE] line
    missing         \* history: a byte that was read has not reached the client

detectorVars == <<line, started, done, lineTooLong>>
textVars == <<current, doneLine, missing>>
streamVars == <<detectorVars, canceled, outcome, textVars>>

-----------------------------------------------------------------------------
\* sseDoneLineMax: the longest [DONE] line and a carriage return.  The second
\* is a faulty variant.
NoReturnMax == Len(SpacedLine)
LineMax == Len(SpacedLine) + 1

\* A carriage return before the newline does not count.
IsSSEDoneLine(s) ==
    \E t \in {DoneLine, SpacedLine} : s \in {t, Append(t, Return)}

SawDone == started /\ ~lineTooLong /\ (done \/ IsSSEDoneLine(line))

\* The end of the stream may do for the end of the line.
DoneForwarded == doneLine \/ IsSSEDoneLine(current)

StreamTypeOK ==
    /\ line \in Seq(Byte)
    /\ started \in BOOLEAN /\ done \in BOOLEAN /\ lineTooLong \in BOOLEAN
    /\ canceled \in BOOLEAN
    /\ outcome \in {"open", "completed", "canceled", "left", "client-write",
                    "missing-done", "upstream-read"}
    /\ current \in Seq(Byte)
    /\ doneLine \in BOOLEAN /\ missing \in BOOLEAN

StreamInit ==
    /\ line = <<>>
    /\ started = FALSE /\ done = FALSE /\ lineTooLong = FALSE
    /\ canceled = FALSE
    /\ outcome = "open"
    /\ current = <<>>
    /\ doneLine = FALSE /\ missing = FALSE

-----------------------------------------------------------------------------
(* dataChunk.observe, for one byte. *)

\* Faulty variant: once too long, always too long.
KeepTooLong ==
    /\ done' = IF ~lineTooLong /\ IsSSEDoneLine(line) THEN TRUE ELSE done
    /\ line' = <<>>
    /\ UNCHANGED lineTooLong

EndLine ==
    /\ done' = IF ~lineTooLong /\ IsSSEDoneLine(line) THEN TRUE ELSE done
    /\ line' = <<>>
    /\ lineTooLong' = FALSE

ExtendLine(b) ==
    /\ IF ~lineTooLong /\ Len(line) < LineMax
       THEN line' = Append(line, b) /\ UNCHANGED lineTooLong
       ELSE lineTooLong' = TRUE /\ UNCHANGED line
    /\ UNCHANGED done

Observe(b) ==
    /\ started' = TRUE
    /\ \/ done /\ UNCHANGED <<line, done, lineTooLong>>
       \/ ~done /\ b = Newline /\ EndLine
       \/ ~done /\ b # Newline /\ ExtendLine(b)

\* What the client sees of it.
Receive(b) ==
    /\ IF b = Newline THEN /\ doneLine' = IF IsSSEDoneLine(current) THEN TRUE ELSE doneLine
                           /\ current' = <<>>
                      ELSE current' = Append(current, b) /\ UNCHANGED doneLine
    /\ UNCHANGED missing

(* forwardStreamingResponse *)

Forward(b) ==
    /\ outcome = "open"
    /\ b # Newline => Len(current) < MaxLine
    /\ Receive(b)
    /\ Observe(b)
    /\ UNCHANGED <<canceled, outcome>>

\* The cancellation is noted in the log unless the answer was complete.
LeaveQuietly == outcome' = IF SawDone THEN "left" ELSE "canceled"

\* Only if the request is not canceled does the detector see the bytes that
\* could not be written, and then nobody asks it any more.
WriteFails(b) ==
    /\ outcome = "open"
    /\ missing' = TRUE
    /\ \/ canceled /\ LeaveQuietly /\ UNCHANGED detectorVars
       \/ ~canceled /\ outcome' = "client-write" /\ Observe(b)
    /\ UNCHANGED <<canceled, current, doneLine>>

\* Faulty variant: the order of the checks is the other way round.
BlameFirst ==
    /\ outcome = "open"
    /\ outcome' = IF SawDone THEN "completed" ELSE "missing-done"
    /\ UNCHANGED <<detectorVars, canceled, textVars>>

StreamEnds ==
    /\ outcome = "open"
    /\ \/ canceled /\ LeaveQuietly
       \/ ~canceled /\ outcome' = IF SawDone THEN "completed" ELSE "missing-done"
    /\ UNCHANGED <<detectorVars, canceled, textVars>>

StreamBreaks ==
    /\ outcome = "open"
    /\ \/ canceled /\ LeaveQuietly
       \/ ~canceled /\ outcome' = "upstream-read"
    /\ UNCHANGED <<detectorVars, canceled, textVars>>

Cancel ==
    /\ outcome = "open" /\ ~canceled
    /\ canceled' = TRUE
    /\ UNCHANGED <<detectorVars, outcome, textVars>>

StreamNext ==
    \/ \E b \in Byte : Forward(b) \/ WriteFails(b)
    \/ StreamEnds \/ StreamBreaks \/ Cancel

StreamSpec == StreamInit /\ [][StreamNext]_streamVars

-----------------------------------------------------------------------------
\* While the stream is open, the detector, which keeps a bounded part of one
\* line, says of every text what a look at all of it would say: whether one of
\* its lines, the unfinished one included, is a [DONE] line.
DetectsDone == outcome = "open" => (SawDone <=> DoneForwarded)

\* README.md on the streams' log and cooldowns: the answer of a request that
\* is counted a success has reached the client with its [DONE]; a provider is
\* benched for a missing [DONE] only if the client got everything and no
\* [DONE]; a cancellation is passed over in silence just when the [DONE] had
\* been forwarded before.
VerdictFits ==
    /\ outcome = "completed" => DoneForwarded /\ ~missing /\ ~canceled
    /\ outcome = "missing-done" => ~DoneForwarded /\ ~missing /\ ~canceled
    /\ outcome = "upstream-read" => ~missing /\ ~canceled
    /\ outcome = "left" => canceled /\ DoneForwarded
    /\ outcome = "canceled" => canceled /\ ~DoneForwarded

(* The detector knows the line under way, or that it is too long to matter. *)
DetectorInv ==
    /\ StreamTypeOK
    /\ outcome = "open" =>
        /\ ~missing
        /\ done = doneLine
        /\ started \/ (current = <<>> /\ ~doneLine)
        /\ done => ~lineTooLong
        /\ ~done => IF Len(current) <= LineMax THEN line = current /\ ~lineTooLong
                                               ELSE lineTooLong

=============================================================================
