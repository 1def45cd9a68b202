----------------------------- MODULE ToolCommand -----------------------------
(***************************************************************************)
(* RunTool(): one run of an external tool (the preprocessor, the           *)
(* assembler, the linker) as its own process group, beside everything the  *)
(* tool, a process it started and the kernel may do meanwhile.             *)
(*                                                                         *)
(* The bytes of a stream are told apart by nothing but their order, and a  *)
(* pipe keeps that, so a stream is the number of bytes in it.  A step of   *)
(* RunTool() is one call of the system; a call which was interrupted       *)
(* (EINTR) is made again and is no step.                                   *)
(***************************************************************************)
EXTENDS Integers

CONSTANTS MaxOutput,    \* the largest maximum_output which is tried
          PipeSize,     \* how many bytes a pipe holds
          ChunkSize,    \* how many bytes Drain() reads at once
          Timeout,      \* the timeout, in ticks of the steady clock
          Faults        \* which calls of the system may fail

ASSUME MaxOutputAssumption == MaxOutput \in Nat
ASSUME PipeSizeAssumption == PipeSize \in Nat \ {0}
ASSUME ChunkSizeAssumption == ChunkSize \in Nat \ {0}
ASSUME TimeoutAssumption == Timeout \in Nat \ {0}
ASSUME FaultsAssumption ==
    Faults \subseteq {"start", "nonblock", "read", "alloc", "poll"}

Streams == {"out", "err"}
Absent == -1            \* an optional which holds nothing
NoPid == "none"

VARIABLES
    capture_output, maximum_output,
    sigchld_ignored,    \* SIGCHLD was ignored when the compiler was started
    \* what runs outside the compiler
    tool,               \* "none", "running", "zombie" or "gone"
    how,                \* how the tool ended
    helper,             \* a process the tool started, in its group
    condemned,          \* who was sent SIGKILL
    pipe, written, now,
    \* RunTool() itself
    at,                 \* the call it makes next
    captured,           \* standard_output and standard_error
    budget, output_limited, ended, child_exited, reaped, timed_out,
    waiting_for,        \* why Reap() was called
    result,
    \* ghosts
    due,                \* what the tool itself had written when it ended
    stray               \* SIGKILL was sent to a process which was reaped before

inputs == <<capture_output, maximum_output, sigchld_ignored>>
outside == <<tool, how, helper, condemned, pipe, written, now, due, stray>>
locals == <<captured, budget, output_limited, ended, child_exited, reaped,
            timed_out, waiting_for>>
vars == <<inputs, outside, at, locals, result>>

NoResult == [error |-> "not_yet", how |-> "-"]
Failure(error) == [error |-> error, how |-> "-"]

Init ==
    /\ capture_output \in BOOLEAN
    /\ maximum_output \in 0 .. MaxOutput
    /\ sigchld_ignored \in BOOLEAN
    /\ tool = NoPid /\ how = "-" /\ helper = NoPid /\ condemned = {}
    /\ pipe = [s \in Streams |-> 0]
    /\ written = [s \in Streams |-> 0]
    /\ now = 0
    /\ at = "start"
    /\ captured = [s \in Streams |-> Absent]
    /\ budget = maximum_output
    /\ output_limited = FALSE
    /\ ended = [s \in Streams |-> FALSE]
    /\ child_exited = FALSE /\ reaped = FALSE /\ timed_out = FALSE
    /\ waiting_for = "-"
    /\ result = NoResult
    /\ due = [s \in Streams |-> 0]
    /\ stray = FALSE

Done == at \in {"returned", "thrown"}

-----------------------------------------------------------------------------
(***************************************************************************)
(* Outside the compiler.                                                   *)
(***************************************************************************)
Alive(process) == process = "running"
Writers == (IF Alive(tool) THEN {"tool"} ELSE {})
             \cup (IF Alive(helper) THEN {"helper"} ELSE {})

\* More than any maximum_output is as good as endless.
Endless == MaxOutput + 1
OneMore(count) == IF count = Endless THEN Endless ELSE count + 1

\* A process writes until the pipe is full.  The bytes of a tool whose output
\* is not captured go elsewhere.
WriteByte(s) ==
    /\ ~Done /\ capture_output
    /\ Writers # {}
    /\ pipe[s] < PipeSize
    /\ pipe' = [pipe EXCEPT ![s] = @ + 1]
    /\ written' = [written EXCEPT ![s] = OneMore(@)]
    /\ UNCHANGED <<inputs, tool, how, helper, condemned, now, due, stray,
                   at, locals, result>>

\* A tool which is to die starts no process any more.
StartHelper ==
    /\ ~Done
    /\ Alive(tool) /\ "tool" \notin condemned
    /\ helper = NoPid
    /\ helper' = "running"
    /\ UNCHANGED <<inputs, tool, how, condemned, pipe, written, now, due,
                   stray, at, locals, result>>

\* Where SIGCHLD is ignored the kernel reaps the tool itself.
ToolEnds(way) ==
    /\ Alive(tool)
    /\ tool' = IF sigchld_ignored THEN "gone" ELSE "zombie"
    /\ how' = way
    /\ due' = written
    /\ UNCHANGED <<inputs, helper, condemned, pipe, written, now, stray,
                   at, locals, result>>

ToolExits == ~Done /\ \E way \in {"exit_0", "exit_1", "signal"} : ToolEnds(way)

HelperEnds ==
    /\ Alive(helper)
    /\ helper' = "gone"
    /\ UNCHANGED <<inputs, tool, how, condemned, pipe, written, now, due,
                   stray, at, locals, result>>

HelperExits == ~Done /\ HelperEnds

\* SIGKILL reaches who it was sent to.
Die ==
    \/ "tool" \in condemned /\ ToolEnds("signal")
    \/ "helper" \in condemned /\ HelperEnds

Tick ==
    /\ ~Done
    /\ tool # NoPid
    /\ now < Timeout
    /\ now' = now + 1
    /\ UNCHANGED <<inputs, tool, how, helper, condemned, pipe, written, due,
                   stray, at, locals, result>>

-----------------------------------------------------------------------------
(***************************************************************************)
(* RunTool().                                                              *)
(***************************************************************************)
GoTo(place) == at' = place

\* What was not asked for, an input which cannot be read, a pipe or a process
\* there is none left of: the tool was never started.
FailToStart ==
    /\ at = "start" /\ "start" \in Faults
    /\ \E error \in {"invalid_command", "input", "timeout", "start"} :
            result' = Failure(error)
    /\ GoTo("returned")
    /\ UNCHANGED <<inputs, outside, locals>>

Spawn ==
    /\ at = "start"
    /\ tool' = "running"
    /\ GoTo(IF capture_output THEN "set_nonblocking" ELSE "wait")
    /\ UNCHANGED <<inputs, how, helper, condemned, pipe, written, now, due,
                   stray, locals, result>>

\* The group has someone left in it; a zombie counts as long as it was not
\* reaped.
GroupExists == tool \in {"running", "zombie"} \/ Alive(helper)

\* The mutant of Kill() which stops the tool and nothing it started.
KillToolOnly ==
    /\ condemned' = IF Alive(tool) THEN condemned \cup {"tool"} ELSE condemned
    /\ stray' = (stray \/ tool = "gone")

\* Kill(): the group of the tool, or the tool where there is no such group.
Kill ==
    /\ condemned' = condemned \cup Writers
    /\ stray' = (stray \/ tool = "gone")

\* The mutant of KillAndReap() which leaves the tool to itself.
KillAndReturn(reason) ==
    /\ Kill
    /\ GoTo("returned")
    /\ result' = Failure("read")
    /\ UNCHANGED <<waiting_for, child_exited>>

KillAndReap(reason) ==
    /\ Kill
    /\ GoTo("reap")
    /\ waiting_for' = reason
    /\ UNCHANGED <<result, child_exited>>

\* A call failed: the tool is stopped unless it was reaped already.
StopAfterFailure ==
    /\ IF child_exited
       THEN /\ GoTo("returned")
            /\ result' = Failure("read")
            /\ UNCHANGED <<condemned, stray, waiting_for, child_exited>>
       ELSE KillAndReap("failure")
    /\ UNCHANGED <<inputs, tool, how, helper, pipe, written, now, due, captured,
                   budget, output_limited, ended, reaped, timed_out>>

SetNonBlocking ==
    /\ at = "set_nonblocking"
    /\ \/ GoTo("drain_out") /\ UNCHANGED <<inputs, outside, locals, result>>
       \/ "nonblock" \in Faults /\ StopAfterFailure

Present(count) == IF count = Absent THEN 0 ELSE count
Smaller(a, b) == IF a < b THEN a ELSE b
AfterDrain(s) == IF s = "out" THEN "drain_err" ELSE "look"

\* The mutant of IsTooMuch() which takes a full budget for too much.
IsTooMuchWhenFull(copied, size) == copied = budget

IsTooMuch(copied, size) == copied # size

\* The mutant of BudgetLeft() which takes away what was not copied as well.
BudgetLessAll(copied, size) == budget - size

BudgetLeft(copied, size) == budget - copied

\* The mutant of AfterTooMuch() which looks no further.
AfterTooMuchLooks(s) == "look"

\* The mutant of AfterTooMuch() which throws away what is too much and reads on.
AfterTooMuchReadsOn(s) == at

AfterTooMuch(s) == AfterDrain(s)

\* One read() of Drain() which found something: as much of it is kept as the
\* budget of both streams has left, and then Drain() reads on.
TakeBytes(s, size) ==
    LET copied == Smaller(size, budget)
        too_much == IsTooMuch(copied, size)
    IN  /\ pipe' = [pipe EXCEPT ![s] = @ - size]
        /\ captured' = [captured EXCEPT ![s] = Present(@) + copied]
        /\ budget' = BudgetLeft(copied, size)
        /\ output_limited' = (output_limited \/ too_much)
        /\ GoTo(IF too_much THEN AfterTooMuch(s) ELSE at)
        /\ UNCHANGED ended

\* Nothing to read: the end of the stream where nobody writes to it any more.
TakeNothing(s) ==
    /\ pipe[s] = 0
    /\ ended' = [ended EXCEPT ![s] = Writers = {}]
    /\ captured' = [captured EXCEPT ![s] = Present(@)]
    /\ GoTo(AfterDrain(s))
    /\ UNCHANGED <<pipe, budget, output_limited>>

Drain(s) ==
    /\ at = IF s = "out" THEN "drain_out" ELSE "drain_err"
    /\ IF ended[s]
       THEN GoTo(AfterDrain(s)) /\ UNCHANGED <<pipe, captured, budget,
                                               output_limited, ended>>
       ELSE \/ TakeNothing(s)
            \/ pipe[s] > 0 /\ TakeBytes(s, Smaller(pipe[s], ChunkSize))
    /\ UNCHANGED <<inputs, tool, how, helper, condemned, written, now, due,
                   stray, child_exited, reaped, timed_out, waiting_for, result>>

DrainFails(s) ==
    /\ at = IF s = "out" THEN "drain_out" ELSE "drain_err"
    /\ "read" \in Faults
    /\ ~ended[s]
    /\ StopAfterFailure

\* There is no memory for what was read: the exception goes through RunTool(),
\* which stops the tool unless it was reaped already.
DrainThrows(s) ==
    /\ at = IF s = "out" THEN "drain_out" ELSE "drain_err"
    /\ "alloc" \in Faults
    /\ ~ended[s] /\ pipe[s] > 0 /\ budget > 0
    /\ IF reaped
       THEN GoTo("thrown") /\ UNCHANGED <<condemned, stray, waiting_for, child_exited,
                                          result>>
       ELSE KillAndReap("exception")
    /\ UNCHANGED <<inputs, tool, how, helper, pipe, written, now, due, captured,
                   budget, output_limited, ended, reaped, timed_out>>

Classified == CASE how = "signal" -> Failure("signal")
                [] how \in {"exit_0", "exit_1"} -> [error |-> "none", how |-> how]
                [] OTHER -> Failure("wait")

\* What RunTool() makes of a wait which succeeded.
Outcome(limited, late) ==
    [Classified EXCEPT !.error = IF limited THEN "output_limit"
                                 ELSE IF late THEN "timeout" ELSE @]

Return(limited, late) == GoTo("returned") /\ result' = Outcome(limited, late)

\* The mutant of LookAtOutput() which does not ask whether the tool was reaped.
LookAtOutputKillsAlways ==
    /\ at = "look"
    /\ IF output_limited
       THEN KillAndReap("limit")
       ELSE /\ GoTo("wait")
            /\ UNCHANGED <<condemned, stray, waiting_for, child_exited, result>>
    /\ UNCHANGED <<inputs, tool, how, helper, pipe, written, now, due, captured,
                   budget, output_limited, ended, reaped, timed_out>>

\* Both streams were drained.
LookAtOutput ==
    /\ at = "look"
    /\ IF output_limited /\ ~child_exited
       THEN KillAndReap("limit")
       ELSE /\ IF child_exited
               THEN Return(output_limited, FALSE)
               ELSE GoTo("wait") /\ UNCHANGED result
            /\ UNCHANGED <<condemned, stray, waiting_for, child_exited>>
    /\ UNCHANGED <<inputs, tool, how, helper, pipe, written, now, due, captured,
                   budget, output_limited, ended, reaped, timed_out>>

\* The mutant of FoundExited which has no last look at the pipes.
FoundExitedReturns ==
    /\ tool' = "gone" /\ reaped' = TRUE
    /\ child_exited' = capture_output
    /\ Return(FALSE, FALSE)

\* What was written before the tool ended is drained once more.
FoundExited ==
    /\ tool' = "gone" /\ reaped' = TRUE
    /\ child_exited' = capture_output
    /\ IF capture_output
       THEN GoTo("drain_out") /\ UNCHANGED result
       ELSE Return(FALSE, FALSE)

\* waitpid(WNOHANG) of Capture() and of WaitWithTimeout().
WaitNoHang ==
    /\ at = "wait"
    /\ \/ /\ tool = "running"
          /\ GoTo("clock")
          /\ UNCHANGED <<tool, condemned, stray, child_exited, reaped, result>>
       \/ /\ tool = "zombie"
          /\ FoundExited
          /\ UNCHANGED <<condemned, stray>>
       \/ /\ tool = "gone"      \* ECHILD
          /\ Kill
          /\ reaped' = TRUE
          /\ GoTo("returned")
          /\ result' = Failure(IF capture_output THEN "read" ELSE "wait")
          /\ UNCHANGED <<tool, child_exited>>
    /\ UNCHANGED <<inputs, how, helper, pipe, written, now, due, captured,
                   budget, output_limited, ended, timed_out, waiting_for>>

LookAtClock ==
    /\ at = "clock"
    /\ GoTo(IF now >= Timeout THEN "expired" ELSE "poll")
    /\ UNCHANGED <<inputs, outside, locals, result>>

\* Nobody there to be killed any more (ESRCH): the tool made it in time.
Expire ==
    /\ at = "expired"
    /\ KillAndReap("deadline")
    /\ timed_out' = GroupExists
    /\ UNCHANGED <<inputs, tool, how, helper, pipe, written, now, due, captured,
                   budget, output_limited, ended, reaped>>

\* poll() or usleep(): ten milliseconds, or less where there is something to
\* be read.
Pause ==
    /\ at = "poll"
    /\ \/ /\ GoTo(IF capture_output THEN "drain_out" ELSE "wait")
          /\ UNCHANGED <<inputs, outside, locals, result>>
       \/ "poll" \in Faults /\ capture_output /\ StopAfterFailure

\* waitpid() without WNOHANG, which waits until the tool has ended.
Reap ==
    /\ at = "reap"
    /\ tool \in {"zombie", "gone"}
    /\ tool' = "gone"
    /\ reaped' = TRUE
    /\ IF waiting_for = "exception"
       THEN GoTo("thrown") /\ UNCHANGED result
       ELSE IF waiting_for = "failure" \/ tool = "gone"
       THEN /\ GoTo("returned")
            /\ result' = Failure(IF capture_output THEN "read" ELSE "wait")
       ELSE Return(output_limited, timed_out)
    /\ UNCHANGED <<inputs, how, helper, condemned, pipe, written, now, due, stray,
                   captured, budget, output_limited, ended, child_exited, timed_out,
                   waiting_for>>

RunToolStep ==
    \/ FailToStart \/ Spawn \/ SetNonBlocking
    \/ \E s \in Streams : Drain(s) \/ DrainFails(s) \/ DrainThrows(s)
    \/ LookAtOutput \/ WaitNoHang \/ LookAtClock \/ Expire \/ Pause \/ Reap

Next ==
    \/ RunToolStep
    \/ \E s \in Streams : WriteByte(s)
    \/ StartHelper \/ ToolExits \/ HelperExits \/ Die \/ Tick
    \/ Done /\ UNCHANGED vars

\* The compiler is run, time passes and SIGKILL arrives; nothing is asked of
\* the tool, which may run or write for ever.
Spec == Init /\ [][Next]_vars /\ WF_vars(RunToolStep) /\ WF_vars(Tick) /\ WF_vars(Die)

-----------------------------------------------------------------------------
\* The state of RunTool() and of what runs beside it.
TypeOK ==
    /\ tool \in {NoPid, "running", "zombie", "gone"}
    /\ helper \in {NoPid, "running", "gone"}
    /\ condemned \subseteq {"tool", "helper"}
    /\ \A s \in Streams : pipe[s] \in 0 .. PipeSize /\ captured[s] \in Absent .. MaxOutput
    /\ budget \in 0 .. maximum_output
    /\ now \in 0 .. Timeout

Returned == at = "returned" /\ tool # NoPid

\* A run which is reported as one which ended by itself has captured all the
\* tool wrote, however late it wrote it and whatever it left running.
NothingMissed ==
    Returned /\ capture_output /\ result.error \in {"none", "signal"} =>
        \A s \in Streams : captured[s] >= due[s]

\* The limit holds for both streams together, is filled before a run is
\* reported as too long, and no run which keeps to it is.
LimitIsExact ==
    /\ Present(captured["out"]) + Present(captured["err"]) + budget = maximum_output
    /\ at = "returned" /\ result.error = "output_limit" =>
        budget = 0 /\ written["out"] + written["err"] > maximum_output

\* Both streams are there once the tool has started, whichever way it was
\* stopped, unless reading them failed.
StreamsPresent ==
    Returned /\ capture_output /\ result.error # "read" =>
        \A s \in Streams : captured[s] # Absent

\* SIGKILL is never sent to a process number the kernel may have given to
\* someone else, as long as the kernel leaves the reaping to the compiler.
NoStrangerKilled == stray => sigchld_ignored

\* Neither a running tool nor a zombie is left behind, whichever call failed.
ToolIsReaped == Done => tool \in {NoPid, "gone"}

\* Once the timeout stopped a tool, nothing it had started in its group goes on
\* either.
GroupIsStopped ==
    Returned /\ result.error = "timeout" /\ Alive(helper) => "helper" \in condemned

\* RunTool() comes back, whatever the tool does.
Ends == <>Done

\* What nuocc_command.hpp says of the result: a failure in it is one which
\* prevented a normal exit.
FailurePreventedExit ==
    Returned /\ result.error = "timeout" => result.how \notin {"exit_0", "exit_1"}

=============================================================================
