--------------------------- MODULE ShutdownProofs ---------------------------
(***************************************************************************)
(* Proofs about Shutdown.tla, for any number of requests: cancelAll misses *)
(* none of them.                                                           *)
(***************************************************************************)
EXTENDS Shutdown, TLAPS

LEMMA ShutdownInitInv ==
  ShutdownInit => ShutdownInv
BY DEF ShutdownInit, ShutdownInv, ShutdownTypeOK

\* A step of one handler: its move, and what the tracker makes of it.
LEMMA HandlerKeepsInv ==
  ASSUME ShutdownInv, NEW h \in Handler, HandlerStep(h)
  PROVE  ShutdownInv'
<1> USE DEF ShutdownInv, ShutdownTypeOK, mainVars, serverVars
<1>1. CASE Accept(h)
  BY <1>1 DEF Accept, Moves
<1>2. CASE Add(h)
  BY <1>2 DEF Add, Moves
<1>3. CASE HandlerReturns(h)
  BY <1>3 DEF HandlerReturns, Moves
<1>4. CASE Remove(h)
  BY <1>4 DEF Remove, Moves
<1>5. CASE ContextEnds(h)
  BY <1>5 DEF ContextEnds
<1>6. QED
  BY <1>1, <1>2, <1>3, <1>4, <1>5 DEF HandlerStep

LEMMA MainKeepsInv ==
  ASSUME ShutdownInv, MainStep
  PROVE  ShutdownInv'
<1> USE DEF ShutdownInv, ShutdownTypeOK, serverVars
<1>1. CASE ExitOnServeError
  BY <1>1 DEF ExitOnServeError
<1>2. CASE SeeSignal
  BY <1>2 DEF SeeSignal
<1>3. CASE Collect
  BY <1>3 DEF Collect
<1>4. CASE BeginToDrain
  BY <1>4 DEF BeginToDrain
<1>5. ASSUME NEW h \in Handler, CancelOne(h)
      PROVE  ShutdownInv'
  BY <1>5 DEF CancelOne
<1>6. CASE Drained
  BY <1>6 DEF Drained
<1>7. CASE TimesOut
  BY <1>7 DEF TimesOut
<1>8. QED
  BY <1>1, <1>2, <1>3, <1>4, <1>5, <1>6, <1>7 DEF MainStep

LEMMA ShutdownStepKeepsInv ==
  ShutdownInv /\ [ShutdownNext]_shutdownVars => ShutdownInv'
<1> SUFFICES ASSUME ShutdownInv, [ShutdownNext]_shutdownVars
             PROVE  ShutdownInv'
  OBVIOUS
<1>1. CASE Signal
  BY <1>1 DEF Signal, mainVars, ShutdownInv, ShutdownTypeOK
<1>2. CASE ServeFails
  BY <1>2 DEF ServeFails, mainVars, ShutdownInv, ShutdownTypeOK
<1>3. CASE UNCHANGED shutdownVars
  BY <1>3 DEF shutdownVars, mainVars, serverVars, ShutdownInv, ShutdownTypeOK
<1>4. QED
  BY <1>1, <1>2, <1>3, HandlerKeepsInv, MainKeepsInv DEF ShutdownNext

\* The inductive invariant: whoever runs is tracked or canceled, and once the
\* tracker is closed, canceled or on cancelAll's list.
THEOREM ShutdownInvariant ==
  ShutdownSpec => []ShutdownInv
BY ShutdownInitInv, ShutdownStepKeepsInv, PTL DEF ShutdownSpec

\* Once cancelAll is done, every request that still runs has been canceled.
THEOREM NoneRoutesOnHolds ==
  ShutdownSpec => []NoneRoutesOn
<1>1. ShutdownInv => NoneRoutesOn
  BY DEF ShutdownInv, NoneRoutesOn
<1>2. QED
  BY <1>1, ShutdownInvariant, PTL

=============================================================================
