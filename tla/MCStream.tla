------------------------------ MODULE MCStream ------------------------------
(* An instance of Stream: "d" stands for "data:", "D" for "[DONE]". *)
EXTENDS Stream

MCByte == {"d", " ", "D", "\r", "\n"}
MCNewline == "\n"
MCReturn == "\r"
MCDoneLine == <<"d", "D">>
MCSpacedLine == <<"d", " ", "D">>

=============================================================================
