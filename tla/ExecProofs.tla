----------------------------- MODULE ExecProofs -----------------------------
(***************************************************************************)
(* What amqp-exec promises of the output of a program, for any number of   *)
(* lines and any size of the pipe.                                         *)
(*                                                                         *)
(* The argument follows a line: it is printed, taken by the copier,        *)
(* written, scanned and sent, and no stage is ahead of the one before it   *)
(* (Flow); a stage ends only after the one before it has, because the      *)
(* goroutine that closes the pipe waits for the child and the copier       *)
(* (Stages); and so Handle ends where all stages have (Ended).             *)
(*                                                                         *)
(* NoCircularWait: the stages wait for each other along the same line, so  *)
(* the last one that is not done can go on.                                *)
(***************************************************************************)
EXTENDS Exec, TLAPS

Flow ==
    /\ copied + chunk <= out /\ scanned <= copied
    /\ copier = "writing" <=> chunk # 0

Stages ==
    /\ copier = "done" => child = "exited" /\ copied = out
    /\ closed => copier = "done"

\* Which loop Handle is in, and what it knows when it leaves it.
Ended ==
    /\ handle = "run" => ~multi
    /\ handle = "scan" => multi
    /\ handle = "ok" /\ multi =>
         (closed /\ scanned = copied) \/ (copier = "writing" /\ copied + 1 = long)

\* Without --multiline nothing is sent before the program has succeeded.
WholeOutput ==
    ~multi /\ (handle \in {"send", "ok"} \/ sent > 0) => status = "ok" /\ copier = "done"

\* A message for each line, or one for the whole output.
SentBound ==
    IF multi
      THEN sent <= scanned /\ (handle = "send" => sent < scanned)
      ELSE sent <= 1 /\ (handle \in {"run", "send"} => sent = 0)

IInv == TypeOK /\ Flow /\ Stages /\ Ended /\ WholeOutput /\ SentBound

-----------------------------------------------------------------------------
LEMMA NoLines == 0 \in 0..MaxLines /\ \A n \in 0..MaxLines : n \in Nat
BY ExecAssumption

LEMMA InitInv == Init => IInv
<1> USE NoLines DEF Init
<1>1. Init => TypeOK
    BY DEF TypeOK
<1>2. Init => Flow
    BY DEF Flow
<1>3. Init => Stages
    BY DEF Stages
<1>4. Init => Ended /\ WholeOutput /\ SentBound
    BY DEF Ended, WholeOutput, SentBound
<1> QED
    BY <1>1, <1>2, <1>3, <1>4 DEF IInv

USE ExecAssumption DEF TypeOK, Flow, Stages, Ended, WholeOutput, SentBound, procVars, pipeVars

LEMMA StepInv == IInv /\ [Next]_vars => IInv'
<1> SUFFICES ASSUME IInv, [Next]_vars PROVE IInv'
    OBVIOUS
<1> USE DEF IInv
<1>1. CASE Start
  <2>1. TypeOK'
      BY <1>1, NoLines DEF Start
  <2>2. (Flow /\ Stages)'
      BY <1>1 DEF Start
  <2>3. (Ended /\ WholeOutput /\ SentBound)'
      BY <1>1 DEF Start
  <2> QED
      BY <2>1, <2>2, <2>3
<1>2. CASE StartFails
  <2>1. TypeOK'
      BY <1>2, NoLines DEF StartFails
  <2>2. (Flow /\ Stages)'
      BY <1>2 DEF StartFails
  <2>3. (Ended /\ WholeOutput /\ SentBound)'
      BY <1>2 DEF StartFails
  <2> QED
      BY <2>1, <2>2, <2>3
<1>3. CASE PrintLine
    BY <1>3 DEF PrintLine
<1>4. CASE ChildExits \/ Kill
    BY <1>4 DEF ChildExits, Kill, Exit
<1>5. CASE Copy
  <2>1. PICK n \in Chunks :
           IF multi
             THEN copier' = "writing" /\ chunk' = n /\ UNCHANGED copied
             ELSE copied' = copied + n /\ UNCHANGED <<copier, chunk>>
      BY <1>5 DEF Copy
  <2>2. n \in Nat /\ 1 <= n /\ copied + n <= out
      BY <1>5 DEF Copy, Chunks
  <2>3. copier = "reading" /\ chunk = 0 /\ ~closed
      BY <1>5 DEF Copy
  <2> QED
      BY <1>5, <2>1, <2>2, <2>3 DEF Copy
<1>6. CASE CopyEnds
    BY <1>6 DEF CopyEnds
<1>7. CASE WaitEnds
    BY <1>7 DEF WaitEnds
<1>8. CASE RunEnds
    BY <1>8 DEF RunEnds, HandleGoto
<1>9. CASE Fill
    BY <1>9 DEF Fill, HandleGoto
<1>10. CASE NextLine
    BY <1>10 DEF NextLine, HandleGoto
<1>11. CASE TooLong
    BY <1>11 DEF TooLong, HandleGoto
<1>12. CASE EndOfOutput
    BY <1>12 DEF EndOfOutput, HandleGoto
<1>13. CASE SendSkips
    BY <1>13 DEF SendSkips, Proceed, HandleGoto
<1>13a. CASE SendRejected
    BY <1>13a DEF SendRejected, HandleGoto
<1>14. CASE SendDone
    BY <1>14 DEF SendDone, Proceed, HandleGoto
<1>15. CASE SendExpires
    BY <1>15 DEF SendExpires, HandleGoto
<1>16. CASE CloseContext
    BY <1>16 DEF CloseContext
<1>17. CASE NextDelivery
    BY <1>17 DEF NextDelivery
<1>18. CASE UNCHANGED vars
    BY <1>18 DEF vars
<1> QED
    BY <1>1, <1>2, <1>3, <1>4, <1>5, <1>6, <1>7, <1>8, <1>9, <1>10, <1>11, <1>12,
       <1>13, <1>13a, <1>14, <1>15, <1>16, <1>17, <1>18
    DEF Next, Child, Copier, Handle, SendStep

LEMMA Invariant == SafeSpec => []IInv
BY InitInv, StepInv, PTL DEF SafeSpec

-----------------------------------------------------------------------------
(***************************************************************************)
(* Types, with the bounds of the lines: no more are sent than printed.     *)
(***************************************************************************)
THEOREM TypeCorrect == SafeSpec => []TypeOK
<1>1. IInv => TypeOK
    BY DEF IInv
<1> QED
    BY <1>1, Invariant, PTL

(***************************************************************************)
(* The goroutine that closes the pipe never cuts the scanner off: Handle   *)
(* returns nil (main.go:186) after the last line or at one that is too     *)
(* long.                                                                   *)
(***************************************************************************)
THEOREM NothingCutOff == SafeSpec => []NoLineDropped
<1>1. IInv => NoLineDropped
    BY DEF IInv, NoLineDropped
<1> QED
    BY <1>1, Invariant, PTL

(***************************************************************************)
(* Without --multiline a delivery is acknowledged, and output sent, only   *)
(* for a program that has succeeded (main.go:180).                         *)
(***************************************************************************)
THEOREM WholeSucceeds == SafeSpec => []WholeOutputIsOfSuccess
<1>1. IInv => WholeOutputIsOfSuccess
    BY DEF IInv, WholeOutputIsOfSuccess
<1> QED
    BY <1>1, Invariant, PTL

-----------------------------------------------------------------------------
(***************************************************************************)
(* What NobodyWaitsForever rests on, without its fairness: the guards of   *)
(* the steps of Handle, of the copier, of the goroutine that waits for the *)
(* child, and of the kernel.                                               *)
(***************************************************************************)
HandleReady ==
    \/ handle = "run" /\ child = "exited" /\ copier = "done"
    \/ handle = "scan" /\ (scanned < copied \/ copier = "writing" \/ closed)
    \/ handle = "send"

CopierReady ==
    /\ copier = "reading"
    /\ IF copied < out THEN Chunks # {} ELSE child = "exited"

WaitReady == multi /\ child = "exited" /\ copier = "done" /\ ~closed

KillReady == child = "running" /\ ctx = "done"

\* The only thing that all of them may wait for.
SilentChild ==
    /\ child = "running" /\ ctx = "live" /\ copied = out
    /\ handle = "scan" => scanned = out

NoCircle == Busy => HandleReady \/ CopierReady \/ WaitReady \/ KillReady \/ SilentChild

\* What is running while Handle is, and that only --multiline has an io.Pipe.
Attached ==
    /\ Busy => child # "none" /\ copier # "off"
    /\ copier = "writing" => multi

LEMMA AttachedInv == Attached /\ [Next]_vars => Attached'
<1> SUFFICES ASSUME Attached, [Next]_vars PROVE Attached'
    OBVIOUS
<1> USE DEF Attached, Busy
<1>1. CASE Start \/ StartFails \/ CloseContext \/ NextDelivery \/ UNCHANGED vars
    BY <1>1 DEF Start, StartFails, CloseContext, NextDelivery, vars
<1>2. CASE Child \/ Kill \/ WaitEnds
    BY <1>2 DEF Child, PrintLine, ChildExits, Kill, Exit, WaitEnds
<1>3. CASE Copier
    BY <1>3 DEF Copier, Copy, CopyEnds
<1>4. CASE Handle
    BY <1>4 DEF Handle, RunEnds, Fill, NextLine, TooLong, EndOfOutput, SendStep,
           SendSkips, SendRejected, SendDone, SendExpires, Proceed, HandleGoto
<1> QED
    BY <1>1, <1>2, <1>3, <1>4 DEF Next

\* The copier never finds that there is something to read but nothing to take.
LEMMA SomeChunk == IInv /\ copied < out => Chunks # {}
<1> SUFFICES ASSUME IInv, copied < out, copied + 1 # long PROVE 1 \in Chunks
    BY DEF Chunks
<1>1. copied \in Nat /\ out \in Nat /\ long \in Nat
    BY NoLines DEF IInv
<1> QED
    BY <1>1 DEF Chunks

(***************************************************************************)
(* runMultiLineApplication and runApplication: child, copier, scanner and  *)
(* the goroutine that closes the pipe never wait for each other in a       *)
(* circle.  While Handle runs one of them can go on, or all that was       *)
(* printed is read and the child alone is waited for, on a live context.   *)
(***************************************************************************)
THEOREM NoCircularWait == SafeSpec => []NoCircle
<1>1. Init => Attached
    BY DEF Init, Attached, Busy
<1>2. IInv /\ Attached => NoCircle
  <2> SUFFICES ASSUME IInv, Attached, Busy, ~HandleReady, ~CopierReady, ~WaitReady,
                      ~KillReady
               PROVE  SilentChild
      BY DEF NoCircle
  <2>1. handle \in {"run", "scan"} /\ copier \in {"reading", "writing", "done"}
      BY DEF IInv, Attached, Busy, HandleReady
  <2>2. copier # "writing"
      BY <2>1 DEF IInv, Attached, HandleReady
  <2>3. copier # "done"
      BY <2>1 DEF IInv, HandleReady, WaitReady
  <2>4. copied \in Nat /\ out \in Nat /\ scanned \in Nat /\ copied <= out /\ scanned <= copied
      BY <2>1, <2>2, <2>3, NoLines DEF IInv
  <2>5. copied = out /\ child = "running"
      BY <2>1, <2>2, <2>3, <2>4, SomeChunk DEF IInv, CopierReady, Attached, Busy
  <2> QED
      BY <2>4, <2>5 DEF IInv, KillReady, HandleReady, SilentChild
<1> QED
    BY <1>1, <1>2, AttachedInv, Invariant, PTL DEF SafeSpec
==============================================================================
