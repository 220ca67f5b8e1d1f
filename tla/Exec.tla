-------------------------------- MODULE Exec --------------------------------
(***************************************************************************)
(* cmd/amqp-exec/main.go: the handler that runs a program for a delivery   *)
(* and sends what it prints.  The output of the child goes through a pipe  *)
(* of the operating system to a goroutine of os/exec (the copier).  With   *)
(* --multiline that goroutine writes it to an io.Pipe, the scanner of      *)
(* Handle reads it from there line by line while the child runs, and       *)
(* another goroutine waits for the child and closes the io.Pipe; else      *)
(* Handle waits for the child and sends the whole output.                  *)
(*                                                                         *)
(* One delivery is handled after the other.  What a handler that has given *)
(* up leaves behind (a child, the copier, the goroutine that waits) does   *)
(* nothing to later ones, and leaves the model with the next Start.        *)
(*                                                                         *)
(* Definitions named X_... are faulty variants of X, used to see that the  *)
(* properties reject them; they are not part of the specification.         *)
(***************************************************************************)
EXTENDS Naturals

CONSTANTS MaxLines,  \* bound of the model: lines that a child prints
          PipeSize   \* lines that fit into the pipe of the operating system

ASSUME ExecAssumption == MaxLines \in Nat \ {0} /\ PipeSize \in Nat \ {0}

VARIABLES multi,    \* --multiline
          ctx,      \* the context that Handle is given
          handle,   \* where Handle is
          child,    \* none, running or exited
          status,   \* of a child that has exited: ok or failed
          out,      \* lines it has printed
          long,     \* which of them is longer than a Scanner takes, 0 for none
          copier,   \* off, reading, writing (to the io.Pipe) or done
          chunk,    \* lines the copier is writing
          copied,   \* lines it has written: into the scanner, or the buffer
          scanned,  \* lines the scanner has returned
          closed,   \* the child was waited for and the io.Pipe is closed
          sent      \* messages that were given to the publisher

procVars == <<child, status, out, long>>
pipeVars == <<copier, chunk, copied, closed>>
vars == <<multi, ctx, handle, procVars, pipeVars, scanned, sent>>

Init ==
    /\ multi \in BOOLEAN /\ ctx = "live" /\ handle = "idle"
    /\ child = "none" /\ status = "ok" /\ out = 0 /\ long = 0
    /\ copier = "off" /\ chunk = 0 /\ copied = 0 /\ closed = FALSE
    /\ scanned = 0 /\ sent = 0

-----------------------------------------------------------------------------
\* makeCmd, and cmd.Run or cmd.Start.

Start ==
    /\ handle = "idle" /\ ctx = "live"
    /\ handle' = IF multi THEN "scan" ELSE "run"
    /\ child' = "running" /\ status' = "ok" /\ out' = 0
    /\ long' \in 0..MaxLines
    /\ copier' = "reading" /\ chunk' = 0 /\ copied' = 0 /\ closed' = FALSE
    /\ scanned' = 0 /\ sent' = 0
    /\ UNCHANGED <<multi, ctx>>

\* No such program, or the context is closed already.
StartFails ==
    /\ handle = "idle"
    /\ handle' = "failed"
    /\ child' = "none" /\ status' = "ok" /\ out' = 0 /\ long' = 0
    /\ copier' = "off" /\ chunk' = 0 /\ copied' = 0 /\ closed' = FALSE
    /\ scanned' = 0 /\ sent' = 0
    /\ UNCHANGED <<multi, ctx>>

-----------------------------------------------------------------------------
\* The child.

PrintLine ==
    /\ child = "running" /\ out < MaxLines /\ out - (copied + chunk) < PipeSize
    /\ out' = out + 1
    /\ UNCHANGED <<multi, ctx, handle, child, status, long, pipeVars, scanned, sent>>

Exit(result) ==
    /\ child = "running"
    /\ child' = "exited" /\ status' = result
    /\ UNCHANGED <<multi, ctx, handle, out, long, pipeVars, scanned, sent>>

ChildExits == \E result \in {"ok", "failed"} : Exit(result)

Kill == ctx = "done" /\ Exit("failed")

-----------------------------------------------------------------------------
\* The goroutines of os/exec and of runMultiLineApplication.

\* A piece of a line that is too long comes by itself.
Chunks == IF copied + 1 = long
            THEN {1}
            ELSE {n \in 1..(out - copied) : long > copied => copied + n < long}

Copy ==
    /\ copier = "reading" /\ copied < out
    /\ \E n \in Chunks :
         IF multi
           THEN copier' = "writing" /\ chunk' = n /\ UNCHANGED copied
           ELSE copied' = copied + n /\ UNCHANGED <<copier, chunk>>
    /\ UNCHANGED <<multi, ctx, handle, procVars, closed, scanned, sent>>

CopyEnds ==
    /\ copier = "reading" /\ child = "exited" /\ copied = out
    /\ copier' = "done"
    /\ UNCHANGED <<multi, ctx, handle, procVars, chunk, copied, closed, scanned, sent>>

\* The goroutine waits for the process, not for its output.
WaitEnds_Process ==
    /\ multi /\ child = "exited" /\ ~closed
    /\ closed' = TRUE
    /\ UNCHANGED <<multi, ctx, handle, procVars, copier, chunk, copied, scanned, sent>>

\* cmd.Wait, which waits for the copier too; then r.Close and w.Close.
WaitEnds ==
    /\ multi /\ child = "exited" /\ copier = "done" /\ ~closed
    /\ closed' = TRUE
    /\ UNCHANGED <<multi, ctx, handle, procVars, copier, chunk, copied, scanned, sent>>

-----------------------------------------------------------------------------
\* Handle.

HandleGoto(label) ==
    handle' = label /\ UNCHANGED <<multi, ctx, procVars, closed>>

\* The output is sent whatever the exit status is.
RunEnds_AnyStatus ==
    /\ handle = "run" /\ child = "exited" /\ copier = "done"
    /\ HandleGoto("send")
    /\ UNCHANGED <<copier, chunk, copied, scanned, sent>>

RunEnds ==
    /\ handle = "run" /\ child = "exited" /\ copier = "done"
    /\ HandleGoto(IF status = "ok" THEN "send" ELSE "failed")
    /\ UNCHANGED <<copier, chunk, copied, scanned, sent>>

\* The scanner that is started when the child has ended: cmd.Run for cmd.Start.
Fill_AfterExit ==
    /\ handle = "scan" /\ scanned = copied /\ child = "exited"
    /\ copier = "writing" /\ copied + 1 # long
    /\ copied' = copied + chunk /\ chunk' = 0 /\ copier' = "reading"
    /\ HandleGoto("scan")
    /\ UNCHANGED <<scanned, sent>>

\* The scanner has no line left and reads; only then does the write end.
Fill ==
    /\ handle = "scan" /\ scanned = copied
    /\ copier = "writing" /\ copied + 1 # long
    /\ copied' = copied + chunk /\ chunk' = 0 /\ copier' = "reading"
    /\ HandleGoto("scan")
    /\ UNCHANGED <<scanned, sent>>

\* A line is returned without looking whether there is one.
NextLine_Blind ==
    /\ handle = "scan"
    /\ scanned' = scanned + 1
    /\ HandleGoto("send")
    /\ UNCHANGED <<copier, chunk, copied, sent>>

NextLine ==
    /\ handle = "scan" /\ scanned < copied
    /\ scanned' = scanned + 1
    /\ HandleGoto("send")
    /\ UNCHANGED <<copier, chunk, copied, sent>>

\* bufio.ErrTooLong ends the loop, nobody reads the rest, Handle returns nil.
TooLong ==
    /\ handle = "scan" /\ scanned = copied
    /\ copier = "writing" /\ copied + 1 = long
    /\ HandleGoto("ok")
    /\ UNCHANGED <<copier, chunk, copied, scanned, sent>>

EndOfOutput ==
    /\ handle = "scan" /\ scanned = copied /\ closed
    /\ HandleGoto("ok")
    /\ UNCHANGED <<copier, chunk, copied, scanned, sent>>

Proceed == HandleGoto(IF multi THEN "scan" ELSE "ok")

\* Nothing to say (--pub-empty), or nobody to say it to.
SendSkips ==
    /\ handle = "send" /\ Proceed
    /\ UNCHANGED <<copier, chunk, copied, scanned, sent>>

\* The middleware of the writer (the signer) fails.
SendRejected ==
    /\ handle = "send"
    /\ HandleGoto("failed")
    /\ UNCHANGED <<copier, chunk, copied, scanned, sent>>

\* PublishWait: the message is queued for good, whatever is waited for.
SendDone ==
    /\ handle = "send" /\ Proceed
    /\ sent' = sent + 1
    /\ UNCHANGED <<copier, chunk, copied, scanned>>

SendExpires ==
    /\ handle = "send" /\ ctx = "done"
    /\ HandleGoto("failed")
    /\ sent' = sent + 1
    /\ UNCHANGED <<copier, chunk, copied, scanned>>

-----------------------------------------------------------------------------
\* The sink: its connection ends, and it gets another delivery.

CloseContext ==
    /\ ctx = "live"
    /\ ctx' = "done"
    /\ UNCHANGED <<multi, handle, procVars, pipeVars, scanned, sent>>

NextDelivery ==
    /\ handle \in {"ok", "failed"}
    /\ handle' = "idle"
    /\ ctx' \in {ctx, "live"}
    /\ UNCHANGED <<multi, procVars, pipeVars, scanned, sent>>

-----------------------------------------------------------------------------
Child     == PrintLine \/ ChildExits
Copier    == Copy \/ CopyEnds
SendStep  == SendSkips \/ SendRejected \/ SendDone \/ SendExpires
Handle    == RunEnds \/ Fill \/ NextLine \/ TooLong \/ EndOfOutput \/ SendStep

Next ==
    \/ Start \/ StartFails \/ Child \/ Kill \/ Copier \/ WaitEnds \/ Handle
    \/ CloseContext \/ NextDelivery

SafeSpec == Init /\ [][Next]_vars

(***************************************************************************)
(* Goroutines that can run do run, the kernel kills, and what is sent on a *)
(* live connection is published (Publisher, CallersReturn). A child may     *)
(* print, or be silent, for ever.                                          *)
(***************************************************************************)
Spec ==
    /\ SafeSpec
    /\ WF_vars(Kill) /\ WF_vars(Copier) /\ WF_vars(WaitEnds) /\ WF_vars(Handle)

-----------------------------------------------------------------------------
TypeOK ==
    /\ multi \in BOOLEAN /\ ctx \in {"live", "done"}
    /\ handle \in {"idle", "run", "scan", "send", "ok", "failed"}
    /\ child \in {"none", "running", "exited"} /\ status \in {"ok", "failed"}
    /\ {out, long, chunk, copied, scanned} \subseteq 0..MaxLines
    /\ copier \in {"off", "reading", "writing", "done"}
    /\ closed \in BOOLEAN /\ sent \in 0..MaxLines

(***************************************************************************)
(* The pipe is closed from a goroutine of its own, the read end first,     *)
(* while the scanner may be reading, holding lines or sending one: still   *)
(* Handle returns nil only when a child that has ended has been read to    *)
(* its last line, or at a line that is too long.                           *)
(***************************************************************************)
NoLineDropped ==
    handle = "ok" /\ ~(multi /\ copied + 1 = long /\ long <= out) =>
        child = "exited" /\ copied = out /\ (multi => scanned = out)

(***************************************************************************)
(* cmd/amqp-exec/README.md:8 "If exit code is not 0 then requeue back to   *)
(* AMQP broker with some delay": Handle does not return nil for a program  *)
(* that has been read to its end and has failed.                           *)
(***************************************************************************)
FailureIsRetried == handle = "ok" /\ copier = "done" => status = "ok"

(***************************************************************************)
(* Without --multiline this holds, and nothing is sent of a program before *)
(* it has succeeded and all of its output is there.                        *)
(***************************************************************************)
WholeOutputIsOfSuccess ==
    ~multi /\ (handle = "ok" \/ sent > 0) =>
        status = "ok" /\ child = "exited" /\ copied = out

(***************************************************************************)
(* Liveness.  Child, copier, scanner and publisher never wait for each     *)
(* other in a circle: what is printed is read, unless Handle has returned. *)
(* And Handle returns when its context is closed, wherever they all are.   *)
(***************************************************************************)
Busy == handle \in {"run", "scan", "send"}

NobodyWaitsForever ==
    /\ \A n \in 1..MaxLines : Busy /\ out >= n ~> copied >= n \/ ~Busy
    /\ Busy /\ ctx = "done" ~> ~Busy
==============================================================================
