-------------------------- MODULE ToolCommandProofs --------------------------
(***************************************************************************)
(* RunTool() for any limit, any pipe, any chunk, any timeout and any set   *)
(* of faults: whichever calls fail and whatever the tool does meanwhile,   *)
(* nobody else is killed, nothing is left behind, the limit is exact and   *)
(* nothing which was written before the tool ended is missed.              *)
(*                                                                         *)
(* The invariant comes in parts, each of which rests on those before it:   *)
(* what the variables hold, who was reaped when, who was sent SIGKILL,     *)
(* where each byte is, and what was drained by when.                       *)
(***************************************************************************)
EXTENDS ToolCommand, TLAPS

Places == {"start", "set_nonblocking", "drain_out", "drain_err", "look", "wait",
           "clock", "expired", "poll", "reap", "returned", "thrown"}
Draining == {"drain_out", "drain_err", "look"}
Errors == {"not_yet", "none", "signal", "wait", "read", "timeout", "output_limit",
           "invalid_command", "input", "start"}
Ways == {"-", "exit_0", "exit_1", "signal"}

Results == [error : Errors, how : Ways]

\* The variables of control.
ControlTyped ==
    /\ capture_output \in BOOLEAN /\ sigchld_ignored \in BOOLEAN
    /\ tool \in {NoPid, "running", "zombie", "gone"} /\ how \in Ways
    /\ helper \in {NoPid, "running", "gone"}
    /\ condemned \in SUBSET {"tool", "helper"}
    /\ now \in 0 .. Timeout
    /\ output_limited \in BOOLEAN /\ child_exited \in BOOLEAN
    /\ reaped \in BOOLEAN /\ timed_out \in BOOLEAN /\ stray \in BOOLEAN

\* Where RunTool() is.
PlaceTyped ==
    /\ at \in Places
    /\ waiting_for \in {"-", "failure", "exception", "limit", "deadline"}

\* The streams, and the limit both share.
StreamsTyped ==
    /\ maximum_output \in 0 .. MaxOutput
    /\ pipe \in [Streams -> 0 .. PipeSize]
    /\ written \in [Streams -> 0 .. Endless] /\ due \in [Streams -> 0 .. Endless]
    /\ captured \in [Streams -> Absent .. MaxOutput]
    /\ budget \in 0 .. maximum_output
    /\ ended \in [Streams -> BOOLEAN]
    /\ Present(captured["out"]) + Present(captured["err"]) + budget = maximum_output

TypeInv == ControlTyped /\ PlaceTyped /\ StreamsTyped /\ result \in Results

\* The tool is there from the start on, and gone when RunTool() has come back.
ReapInv ==
    /\ at = "start" => tool = NoPid
    /\ tool = NoPid => at \in {"start", "returned"}
    /\ reaped => tool = "gone"
    /\ tool = "gone" => reaped \/ sigchld_ignored
    /\ child_exited => reaped
    /\ reaped => Done \/ (child_exited /\ at \in Draining)
    /\ Done => tool \in {NoPid, "gone"}
    /\ stray => sigchld_ignored

\* There is no result before RunTool() has come back, and while it waits for
\* a tool it stopped, whoever lives in the group has SIGKILL on its way.
StopInv ==
    /\ at # "returned" => result = NoResult
    /\ at = "reap" => waiting_for # "-"
    /\ at = "reap" /\ Alive(tool) => "tool" \in condemned
    /\ at = "reap" \/ (Returned /\ result.error = "timeout") =>
            (Alive(helper) => "helper" \in condemned)

\* A byte which was written is in the pipe or was captured, until there is too
\* much.
ByteInv ==
    /\ \A s \in Streams :
            /\ written[s] = Endless \/ Present(captured[s]) + pipe[s] <= written[s]
            /\ output_limited \/ written[s] <= Present(captured[s]) + pipe[s]
            /\ due[s] <= written[s]
    /\ output_limited =>
            budget = 0 /\ written["out"] + written["err"] > maximum_output
    /\ result.error = "output_limit" => output_limited

\* A stream has ended when it was drained and nobody is left to write to it.
EndedInv ==
    \A s \in Streams : ended[s] =>
        /\ captured[s] # Absent /\ Writers = {} /\ tool # NoPid
        /\ output_limited \/ captured[s] >= written[s]

\* By the time RunTool() looks at both streams they are there.
PresentInv ==
    /\ at \in Draining \cup {"set_nonblocking"} \/ child_exited => capture_output
    /\ at = "drain_err" => captured["out"] # Absent
    /\ \/ child_exited
       \/ capture_output /\ at \in {"look", "wait", "clock", "expired", "poll"}
       \/ capture_output /\ at = "reap" /\ waiting_for \in {"limit", "deadline"}
       => \A s \in Streams : captured[s] # Absent
    /\ StreamsPresent

\* Once the tool was reaped, what was due is captured as soon as it was drained.
DueInv ==
    /\ at = "reap" => /\ waiting_for = "limit" => output_limited
                      /\ waiting_for = "deadline" => timed_out \/ tool = "gone"
    /\ child_exited /\ ~output_limited =>
            /\ at \in {"drain_err", "look"} => captured["out"] >= due["out"]
            /\ at = "look" => captured["err"] >= due["err"]
    /\ NothingMissed

-----------------------------------------------------------------------------
(***************************************************************************)
(* What the variables hold.                                                *)
(***************************************************************************)

\* An error RunTool() answers with is one of those it has.
LEMMA FailureIsAResult ==
    ASSUME NEW error \in Errors
    PROVE  Failure(error) \in Results /\ Failure(error).error = error
BY DEF Failure, Results, Errors, Ways

\* There is no result at the start.
LEMMA NoResultIsAResult == NoResult \in Results /\ NoResult.error = "not_yet"
BY DEF NoResult, Results, Errors, Ways

\* The result of a wait which succeeded.
LEMMA ClassifiedIsAResult ==
    ASSUME how \in Ways
    PROVE  Classified \in Results /\ Classified.error \in {"signal", "none", "wait"}
<1>1. CASE how \in {"exit_0", "exit_1"}
  <2>1. Classified = [error |-> "none", how |-> how]
    BY <1>1 DEF Classified
  <2>2. [error |-> "none", how |-> how].error = "none"
    OBVIOUS
  <2>3. [error |-> "none", how |-> how] \in Results
    BY <1>1 DEF Results, Errors, Ways
  <2>4. QED
    BY <2>1, <2>2, <2>3
<1>2. CASE how = "signal"
  <2>1. Classified = Failure("signal")
    BY <1>2 DEF Classified
  <2>2. QED
    BY <2>1, FailureIsAResult DEF Errors
<1>3. CASE how = "-"
  <2>1. Classified = Failure("wait")
    BY <1>3 DEF Classified
  <2>2. QED
    BY <2>1, FailureIsAResult DEF Errors
<1>4. QED
  BY <1>1, <1>2, <1>3 DEF Ways

\* What RunTool() makes of it where there was too much, or it was too late.
LEMMA OutcomeIsAResult ==
    ASSUME how \in Ways, NEW limited \in BOOLEAN, NEW late \in BOOLEAN
    PROVE  /\ Outcome(limited, late) \in Results
           /\ limited => Outcome(limited, late).error = "output_limit"
           /\ ~limited /\ late => Outcome(limited, late).error = "timeout"
           /\ ~limited /\ ~late =>
                Outcome(limited, late).error \in {"signal", "none", "wait"}
<1> DEFINE error == IF limited THEN "output_limit"
                    ELSE IF late THEN "timeout" ELSE Classified.error
<1>1. Outcome(limited, late) = [Classified EXCEPT !.error = error]
  BY DEF Outcome
<1>2. Classified \in Results /\ Classified.error \in {"signal", "none", "wait"}
  BY ClassifiedIsAResult
<1>3. error \in Errors
  BY <1>2 DEF Errors
<1>4. [Classified EXCEPT !.error = error].error = error
  BY <1>2 DEF Results
<1>5. [Classified EXCEPT !.error = error] \in Results
  BY <1>2, <1>3 DEF Results
<1>6. QED
  BY <1>1, <1>2, <1>4, <1>5

\* A run starts with all of it in its place.
LEMMA InitIsTyped == Init => TypeInv
<1> SUFFICES ASSUME Init
             PROVE  TypeInv
  OBVIOUS
<1>1. now \in 0 .. Timeout /\ budget \in 0 .. maximum_output
  BY TimeoutAssumption, MaxOutputAssumption DEF Init
<1>2. ControlTyped
  BY <1>1 DEF Init, ControlTyped, NoPid, Ways
<1>3. StreamsTyped
  BY <1>1, MaxOutputAssumption, PipeSizeAssumption
  DEF Init, StreamsTyped, Absent, Endless, Present, Streams
<1>4. PlaceTyped
  BY DEF Init, PlaceTyped, Places
<1>5. QED
  BY <1>2, <1>3, <1>4, NoResultIsAResult DEF Init, TypeInv

\* Whoever is sent SIGKILL is of the group.
LEMMA KillIsTyped ==
    ASSUME ControlTyped, Kill
    PROVE  condemned' \in SUBSET {"tool", "helper"} /\ stray' \in BOOLEAN
BY DEF ControlTyped, Kill, Writers

\* What was done after a call which failed, and whom it was done to.
LEMMA StopIsTyped ==
    ASSUME ControlTyped, StopAfterFailure
    PROVE  /\ condemned' \in SUBSET {"tool", "helper"} /\ stray' \in BOOLEAN
           /\ UNCHANGED <<inputs, tool, how, helper, pipe, written, now, due,
                            captured, budget, output_limited, ended,
                            child_exited, reaped, timed_out>>
<1>1. condemned' \in SUBSET {"tool", "helper"} /\ stray' \in BOOLEAN
  <2>1. CASE child_exited
    BY <2>1 DEF StopAfterFailure, ControlTyped
  <2>2. CASE ~child_exited
    BY <2>2, KillIsTyped DEF StopAfterFailure, KillAndReap
  <2>3. QED
    BY <2>1, <2>2
<1>2. child_exited' = child_exited
  BY DEF StopAfterFailure, KillAndReap
<1>3. QED
  BY <1>1, <1>2 DEF StopAfterFailure

\* A step keeps control in its place.
LEMMA StepKeepsControl == TypeInv /\ [Next]_vars => ControlTyped'
<1> SUFFICES ASSUME TypeInv, [Next]_vars
             PROVE  ControlTyped'
  OBVIOUS
<1> USE DEF NoPid
<1>1. CASE FailToStart
  BY <1>1 DEF FailToStart, TypeInv, ControlTyped, inputs, outside, locals
<1>2. CASE Spawn
  BY <1>2 DEF Spawn, TypeInv, ControlTyped, inputs, locals
<1>3. CASE SetNonBlocking
  <2>1. CASE StopAfterFailure
    BY <2>1, StopIsTyped DEF TypeInv, ControlTyped, inputs, outside, locals
  <2>2. CASE UNCHANGED <<inputs, outside, locals>>
    BY <2>2 DEF TypeInv, ControlTyped, inputs, outside, locals
  <2>3. QED
    BY <1>3, <2>1, <2>2 DEF SetNonBlocking
<1>4. ASSUME NEW s \in Streams, Drain(s)
     PROVE  ControlTyped'
  <2>1. output_limited' \in BOOLEAN
    BY <1>4
    DEF Drain, TakeNothing, TakeBytes, IsTooMuch, TypeInv, ControlTyped, inputs
  <2>2. QED
    BY <1>4, <2>1 DEF Drain, TypeInv, ControlTyped, inputs
<1>5. ASSUME NEW s \in Streams, DrainFails(s)
     PROVE  ControlTyped'
  BY <1>5, StopIsTyped
  DEF DrainFails, TypeInv, ControlTyped, inputs, outside, locals
<1>6. ASSUME NEW s \in Streams, DrainThrows(s)
     PROVE  ControlTyped'
  BY <1>6, KillIsTyped, ZenonT(30)
  DEF DrainThrows, KillAndReap, TypeInv, ControlTyped, inputs
<1>7. CASE LookAtOutput
  <2>1. CASE output_limited /\ ~child_exited
    BY <1>7, <2>1, KillIsTyped
    DEF LookAtOutput, KillAndReap, TypeInv, ControlTyped, inputs
  <2>2. CASE ~(output_limited /\ ~child_exited)
    BY <1>7, <2>2 DEF LookAtOutput, TypeInv, ControlTyped, inputs
  <2>3. QED
    BY <2>1, <2>2
<1>8. CASE WaitNoHang
  BY <1>8, KillIsTyped
  DEF WaitNoHang, FoundExited, Return, TypeInv, ControlTyped, inputs
<1>9. CASE LookAtClock
  BY <1>9 DEF LookAtClock, TypeInv, ControlTyped, inputs, outside, locals
<1>10. CASE Expire
  BY <1>10, KillIsTyped
  DEF Expire, KillAndReap, GroupExists, TypeInv, ControlTyped, inputs
<1>11. CASE Pause
  <2>1. CASE StopAfterFailure
    BY <2>1, StopIsTyped DEF TypeInv, ControlTyped, inputs, outside, locals
  <2>2. CASE UNCHANGED <<inputs, outside, locals>>
    BY <2>2 DEF TypeInv, ControlTyped, inputs, outside, locals
  <2>3. QED
    BY <1>11, <2>1, <2>2 DEF Pause
<1>12. CASE Reap
  BY <1>12 DEF Reap, Return, TypeInv, ControlTyped, inputs
<1>13. ASSUME NEW s \in Streams, WriteByte(s)
     PROVE  ControlTyped'
  BY <1>13 DEF WriteByte, TypeInv, ControlTyped, inputs, locals
<1>14. CASE StartHelper
  BY <1>14 DEF StartHelper, TypeInv, ControlTyped, inputs, locals
<1>15. CASE ToolExits
  BY <1>15
  DEF ToolExits, ToolEnds, TypeInv, ControlTyped, Alive, Done, Ways, inputs,
      locals
<1>16. CASE HelperExits
  BY <1>16 DEF HelperExits, HelperEnds, TypeInv, ControlTyped, inputs, locals
<1>17. CASE Die
  <2>1. CASE ToolEnds("signal")
    BY <2>1 DEF ToolEnds, Ways, TypeInv, ControlTyped, inputs, locals
  <2>2. CASE HelperEnds
    BY <2>2 DEF HelperEnds, TypeInv, ControlTyped, inputs, locals
  <2>3. QED
    BY <1>17, <2>1, <2>2 DEF Die
<1>18. CASE Tick
  BY <1>18, TimeoutAssumption DEF Tick, TypeInv, ControlTyped, inputs, locals
<1>19. CASE UNCHANGED vars
  BY <1>19 DEF vars, TypeInv, ControlTyped, inputs, outside, locals
<1>20. QED
  BY <1>1, <1>2, <1>3, <1>4, <1>5, <1>6, <1>7, <1>8, <1>9, <1>10, <1>11, <1>12,
     <1>13, <1>14, <1>15, <1>16, <1>17, <1>18, <1>19
  DEF Next, RunToolStep

\* A step goes to a place there is.
LEMMA StepKeepsPlace == TypeInv /\ [Next]_vars => PlaceTyped'
<1> SUFFICES ASSUME TypeInv, [Next]_vars
             PROVE  PlaceTyped'
  OBVIOUS
<1>1. CASE FailToStart
  BY <1>1
  DEF FailToStart, GoTo, TypeInv, PlaceTyped, Places, inputs, outside, locals
<1>2. CASE Spawn
  BY <1>2 DEF Spawn, GoTo, TypeInv, PlaceTyped, Places, inputs, locals
<1>3. CASE SetNonBlocking
  BY <1>3
  DEF SetNonBlocking, StopAfterFailure, KillAndReap, Kill, GoTo, TypeInv,
      PlaceTyped, Places, inputs, outside, locals
<1>4. ASSUME NEW s \in Streams, Drain(s)
     PROVE  PlaceTyped'
  BY <1>4
  DEF Drain, TakeNothing, TakeBytes, IsTooMuch, BudgetLeft, AfterTooMuch,
      AfterDrain, GoTo, TypeInv, PlaceTyped, Places, inputs
<1>5. ASSUME NEW s \in Streams, DrainFails(s)
     PROVE  PlaceTyped'
  BY <1>5
  DEF DrainFails, StopAfterFailure, KillAndReap, Kill, GoTo, TypeInv,
      PlaceTyped, Places, inputs
<1>6. ASSUME NEW s \in Streams, DrainThrows(s)
     PROVE  PlaceTyped'
  BY <1>6
  DEF DrainThrows, KillAndReap, Kill, GoTo, TypeInv, PlaceTyped, Places, inputs
<1>7. CASE LookAtOutput
  BY <1>7
  DEF LookAtOutput, KillAndReap, Kill, Return, GoTo, TypeInv, PlaceTyped,
      Places, inputs
<1>8. CASE WaitNoHang
  BY <1>8
  DEF WaitNoHang, FoundExited, Return, Kill, GoTo, TypeInv, PlaceTyped, Places,
      inputs
<1>9. CASE LookAtClock
  BY <1>9
  DEF LookAtClock, GoTo, TypeInv, PlaceTyped, Places, inputs, outside, locals
<1>10. CASE Expire
  BY <1>10
  DEF Expire, KillAndReap, Kill, GroupExists, GoTo, TypeInv, PlaceTyped,
      Places, inputs
<1>11. CASE Pause
  BY <1>11
  DEF Pause, StopAfterFailure, KillAndReap, Kill, GoTo, TypeInv, PlaceTyped,
      Places, inputs, outside, locals
<1>12. CASE Reap
  BY <1>12 DEF Reap, Return, GoTo, TypeInv, PlaceTyped, Places, inputs
<1>13. ASSUME NEW s \in Streams, WriteByte(s)
     PROVE  PlaceTyped'
  BY <1>13 DEF WriteByte, TypeInv, PlaceTyped, inputs, locals
<1>14. CASE StartHelper
  BY <1>14 DEF StartHelper, TypeInv, PlaceTyped, inputs, locals
<1>15. CASE ToolExits
  BY <1>15 DEF ToolExits, ToolEnds, TypeInv, PlaceTyped, inputs, locals
<1>16. CASE HelperExits
  BY <1>16 DEF HelperExits, HelperEnds, TypeInv, PlaceTyped, inputs, locals
<1>17. CASE Die
  BY <1>17 DEF Die, ToolEnds, HelperEnds, TypeInv, PlaceTyped, inputs, locals
<1>18. CASE Tick
  BY <1>18 DEF Tick, TypeInv, PlaceTyped, inputs, locals
<1>19. CASE UNCHANGED vars
  BY <1>19 DEF vars, TypeInv, PlaceTyped, inputs, outside, locals
<1>20. QED
  BY <1>1, <1>2, <1>3, <1>4, <1>5, <1>6, <1>7, <1>8, <1>9, <1>10, <1>11, <1>12,
     <1>13, <1>14, <1>15, <1>16, <1>17, <1>18, <1>19
  DEF Next, RunToolStep

\* A step keeps the streams in theirs.
LEMMA StepKeepsStreams == TypeInv /\ [Next]_vars => StreamsTyped'
<1> SUFFICES ASSUME TypeInv, [Next]_vars
             PROVE  StreamsTyped'
  OBVIOUS
<1> USE MaxOutputAssumption, PipeSizeAssumption, ChunkSizeAssumption
<1>1. CASE FailToStart
  BY <1>1 DEF FailToStart, TypeInv, StreamsTyped, inputs, outside, locals
<1>2. CASE Spawn
  BY <1>2 DEF Spawn, TypeInv, StreamsTyped, inputs, locals
<1>3. CASE SetNonBlocking
  BY <1>3
  DEF SetNonBlocking, StopAfterFailure, KillAndReap, Kill, TypeInv,
      StreamsTyped, inputs, outside, locals
<1>4. ASSUME NEW s \in Streams, Drain(s)
     PROVE  StreamsTyped'
  <2> DEFINE size == Smaller(pipe[s], ChunkSize)
             copied == Smaller(size, budget)
  <2>1. CASE ended[s]
    BY <1>4, <2>1 DEF Drain, TypeInv, StreamsTyped, inputs
  <2>2. CASE ~ended[s] /\ TakeNothing(s)
    <3>1. /\ captured' = [captured EXCEPT ![s] = Present(@)]
          /\ ended' = [ended EXCEPT ![s] = Writers = {}]
          /\ UNCHANGED <<pipe, budget, maximum_output, written, due>>
      BY <1>4, <2>2 DEF Drain, TakeNothing, StreamsTyped, inputs
    <3>2. Present(captured[s]) \in Absent .. MaxOutput
      BY MaxOutputAssumption DEF Present, Absent, TypeInv, StreamsTyped
    <3>3. (Writers = {}) \in BOOLEAN
      OBVIOUS
    <3>4. Present(captured'["out"]) + Present(captured'["err"])
            = Present(captured["out"]) + Present(captured["err"])
      BY <3>1 DEF Present, Absent, Streams, TypeInv, StreamsTyped
    <3>5. ended' \in [Streams -> BOOLEAN]
      BY <3>1, <3>3 DEF TypeInv, StreamsTyped
    <3>6. captured' \in [Streams -> Absent .. MaxOutput]
      BY <3>1, <3>2 DEF TypeInv, StreamsTyped
    <3>7. QED
      BY <3>1, <3>4, <3>5, <3>6 DEF TypeInv, StreamsTyped
  <2>3. CASE ~ended[s] /\ pipe[s] > 0 /\ TakeBytes(s, size)
    <3>1. /\ size \in 0 .. pipe[s] /\ copied \in 0 .. size
          /\ copied \in 0 .. budget
      BY <2>3 DEF Smaller, TypeInv, StreamsTyped
    <3>2. /\ pipe' = [pipe EXCEPT ![s] = @ - size]
          /\ captured' = [captured EXCEPT ![s] = Present(@) + copied]
          /\ budget' = budget - copied
          /\ ended' = ended
      BY <2>3 DEF TakeBytes, BudgetLeft
    <3> HIDE DEF size, copied
    <3>3. /\ pipe[s] \in 0 .. PipeSize /\ budget \in Nat
          /\ Present(captured[s]) \in 0 .. MaxOutput
          /\ \A t \in Streams : captured[t] \in Absent .. MaxOutput
      BY DEF TypeInv, StreamsTyped, Present, Absent
    <3>4. UNCHANGED <<maximum_output, written, due>>
      BY <1>4 DEF Drain, StreamsTyped, inputs
    <3>5. Present(captured'["out"]) + Present(captured'["err"]) + budget'
            = maximum_output
      BY <3>1, <3>2, <3>3 DEF Present, Absent, Streams, TypeInv, StreamsTyped
    <3>6. /\ pipe' \in [Streams -> 0 .. PipeSize]
          /\ captured' \in [Streams -> Absent .. MaxOutput]
          /\ budget' \in 0 .. maximum_output
      <4>1. pipe[s] - size \in 0 .. PipeSize /\ budget - copied \in 0 .. maximum_output
        BY <3>1, <3>3 DEF TypeInv, StreamsTyped
      <4>2. Present(captured[s]) + copied \in Absent .. MaxOutput
        BY <3>1, <3>3 DEF Present, Absent, Streams, TypeInv, StreamsTyped
      <4>3. QED
        BY <3>2, <4>1, <4>2 DEF TypeInv, StreamsTyped
    <3>7. QED
      BY <3>2, <3>4, <3>5, <3>6 DEF TypeInv, StreamsTyped
  <2>4. QED
    BY <1>4, <2>1, <2>2, <2>3 DEF Drain
<1>5. ASSUME NEW s \in Streams, DrainFails(s)
     PROVE  StreamsTyped'
  BY <1>5
  DEF DrainFails, StopAfterFailure, KillAndReap, Kill, TypeInv, StreamsTyped,
      inputs
<1>6. ASSUME NEW s \in Streams, DrainThrows(s)
     PROVE  StreamsTyped'
  BY <1>6 DEF DrainThrows, KillAndReap, Kill, TypeInv, StreamsTyped, inputs
<1>7. CASE LookAtOutput
  BY <1>7
  DEF LookAtOutput, KillAndReap, Kill, Return, TypeInv, StreamsTyped, inputs
<1>8. CASE WaitNoHang
  BY <1>8
  DEF WaitNoHang, FoundExited, Return, Kill, TypeInv, StreamsTyped, inputs
<1>9. CASE LookAtClock
  BY <1>9 DEF LookAtClock, TypeInv, StreamsTyped, inputs, outside, locals
<1>10. CASE Expire
  BY <1>10
  DEF Expire, KillAndReap, Kill, GroupExists, TypeInv, StreamsTyped, inputs
<1>11. CASE Pause
  BY <1>11
  DEF Pause, StopAfterFailure, KillAndReap, Kill, TypeInv, StreamsTyped,
      inputs, outside, locals
<1>12. CASE Reap
  BY <1>12 DEF Reap, Return, TypeInv, StreamsTyped, inputs
<1>13. ASSUME NEW s \in Streams, WriteByte(s)
     PROVE  StreamsTyped'
  <2>1. OneMore(written[s]) \in 0 .. Endless
    BY DEF TypeInv, StreamsTyped, OneMore, Endless
  <2>2. pipe[s] + 1 \in 0 .. PipeSize
    BY <1>13 DEF WriteByte, TypeInv, StreamsTyped, inputs, locals
  <2>3. QED
    BY <1>13, <2>1, <2>2 DEF WriteByte, TypeInv, StreamsTyped, inputs, locals
<1>14. CASE StartHelper
  BY <1>14 DEF StartHelper, TypeInv, StreamsTyped, inputs, locals
<1>15. CASE ToolExits
  BY <1>15 DEF ToolExits, ToolEnds, TypeInv, StreamsTyped, inputs, locals
<1>16. CASE HelperExits
  BY <1>16 DEF HelperExits, HelperEnds, TypeInv, StreamsTyped, inputs, locals
<1>17. CASE Die
  BY <1>17 DEF Die, ToolEnds, HelperEnds, TypeInv, StreamsTyped, inputs, locals
<1>18. CASE Tick
  BY <1>18 DEF Tick, TypeInv, StreamsTyped, inputs, locals
<1>19. CASE UNCHANGED vars
  BY <1>19 DEF vars, TypeInv, StreamsTyped, inputs, outside, locals
<1>20. QED
  BY <1>1, <1>2, <1>3, <1>4, <1>5, <1>6, <1>7, <1>8, <1>9, <1>10, <1>11, <1>12,
     <1>13, <1>14, <1>15, <1>16, <1>17, <1>18, <1>19
  DEF Next, RunToolStep

\* A step leaves a result.
LEMMA StepKeepsResult == TypeInv /\ [Next]_vars => (result \in Results)'
<1> SUFFICES ASSUME TypeInv, [Next]_vars
             PROVE  (result \in Results)'
  OBVIOUS
<1>a. how \in Ways /\ output_limited \in BOOLEAN /\ timed_out \in BOOLEAN
  BY DEF TypeInv, ControlTyped
<1> USE <1>a, FailureIsAResult, OutcomeIsAResult DEF Errors
<1>1. CASE FailToStart
  BY <1>1 DEF FailToStart, TypeInv, inputs, outside, locals
<1>2. CASE Spawn
  BY <1>2 DEF Spawn, TypeInv, inputs, locals
<1>3. CASE SetNonBlocking
  BY <1>3
  DEF SetNonBlocking, StopAfterFailure, KillAndReap, Kill, TypeInv, inputs,
      outside, locals
<1>4. ASSUME NEW s \in Streams, Drain(s)
     PROVE  (result \in Results)'
  BY <1>4
  DEF Drain, TakeNothing, TakeBytes, IsTooMuch, BudgetLeft, AfterTooMuch,
      AfterDrain, TypeInv, inputs
<1>5. ASSUME NEW s \in Streams, DrainFails(s)
     PROVE  (result \in Results)'
  BY <1>5 DEF DrainFails, StopAfterFailure, KillAndReap, Kill, TypeInv, inputs
<1>6. ASSUME NEW s \in Streams, DrainThrows(s)
     PROVE  (result \in Results)'
  BY <1>6 DEF DrainThrows, KillAndReap, Kill, TypeInv, inputs
<1>7. CASE LookAtOutput
  BY <1>7 DEF LookAtOutput, KillAndReap, Kill, Return, TypeInv, inputs
<1>8. CASE WaitNoHang
  BY <1>8 DEF WaitNoHang, FoundExited, Return, Kill, TypeInv, inputs
<1>9. CASE LookAtClock
  BY <1>9 DEF LookAtClock, TypeInv, inputs, outside, locals
<1>10. CASE Expire
  BY <1>10 DEF Expire, KillAndReap, Kill, GroupExists, TypeInv, inputs
<1>11. CASE Pause
  BY <1>11
  DEF Pause, StopAfterFailure, KillAndReap, Kill, TypeInv, inputs, outside,
      locals
<1>12. CASE Reap
  BY <1>12 DEF Reap, Return, TypeInv, inputs
<1>13. ASSUME NEW s \in Streams, WriteByte(s)
     PROVE  (result \in Results)'
  BY <1>13 DEF WriteByte, TypeInv, inputs, locals
<1>14. CASE StartHelper
  BY <1>14 DEF StartHelper, TypeInv, inputs, locals
<1>15. CASE ToolExits
  BY <1>15 DEF ToolExits, ToolEnds, TypeInv, inputs, locals
<1>16. CASE HelperExits
  BY <1>16 DEF HelperExits, HelperEnds, TypeInv, inputs, locals
<1>17. CASE Die
  BY <1>17 DEF Die, ToolEnds, HelperEnds, TypeInv, inputs, locals
<1>18. CASE Tick
  BY <1>18 DEF Tick, TypeInv, inputs, locals
<1>19. CASE UNCHANGED vars
  BY <1>19 DEF vars, TypeInv, inputs, outside, locals
<1>20. QED
  BY <1>1, <1>2, <1>3, <1>4, <1>5, <1>6, <1>7, <1>8, <1>9, <1>10, <1>11, <1>12,
     <1>13, <1>14, <1>15, <1>16, <1>17, <1>18, <1>19
  DEF Next, RunToolStep

\* What the variables hold, in every state there is.
THEOREM Typing == Spec => []TypeInv
<1>1. TypeInv /\ [Next]_vars => TypeInv'
  BY StepKeepsControl, StepKeepsPlace, StepKeepsStreams, StepKeepsResult
  DEF TypeInv
<1>2. QED
  BY InitIsTyped, <1>1, PTL DEF Spec

\* The state of RunTool() and of what runs beside it keeps to its types, however
\* large the limit, the pipe and the chunk are.
THEOREM TypeCorrectness == Spec => []TypeOK
<1>1. TypeInv => TypeOK
  BY DEF TypeInv, ControlTyped, StreamsTyped, TypeOK
<1>2. QED
  BY <1>1, Typing, PTL

-----------------------------------------------------------------------------
(***************************************************************************)
(* Who was reaped when.                                                    *)
(***************************************************************************)

\* A call which failed stops the tool, unless it was reaped.
LEMMA StopKeepsReaped ==
    ASSUME ControlTyped, ReapInv, StopAfterFailure,
           at \in Draining \cup {"set_nonblocking", "poll"}
    PROVE  ReapInv'
<1>1. tool # NoPid /\ UNCHANGED <<tool, reaped, child_exited, sigchld_ignored>>
  BY DEF ReapInv, StopAfterFailure, KillAndReap, Draining, inputs
<1>2. CASE child_exited
  <2>1. at' = "returned" /\ UNCHANGED stray
    BY <1>2 DEF StopAfterFailure, GoTo
  <2>2. reaped /\ tool = "gone"
    BY <1>2 DEF ReapInv
  <2>3. QED
    BY <1>1, <1>2, <2>1, <2>2 DEF ReapInv, Done
<1>3. CASE ~child_exited
  <2>1. ~reaped
    BY <1>3 DEF ReapInv, Draining, Done
  <2>2. at' = "reap" /\ stray' = (stray \/ tool = "gone")
    BY <1>3 DEF StopAfterFailure, KillAndReap, Kill, GoTo
  <2>3. QED
    BY <1>1, <1>3, <2>1, <2>2 DEF ReapInv, Done
<1>4. QED
  BY <1>2, <1>3

\* A tool which ends is left to be reaped.
LEMMA EndKeepsReaped ==
    ASSUME ControlTyped, ReapInv, NEW way, ToolEnds(way)
    PROVE  ReapInv'
<1>1. /\ tool = "running"
      /\ tool' = IF sigchld_ignored THEN "gone" ELSE "zombie"
      /\ UNCHANGED <<at, reaped, child_exited, sigchld_ignored, stray>>
  BY DEF ToolEnds, Alive, inputs, locals
<1>2. ~reaped /\ ~Done /\ at # "start"
  BY <1>1 DEF ReapInv, NoPid
<1>3. tool' \in {"gone", "zombie"} /\ (tool' = "gone" => sigchld_ignored)
  BY <1>1
<1>4. Done' <=> Done
  BY <1>1 DEF Done
<1>5. QED
  BY <1>1, <1>2, <1>3, <1>4 DEF ReapInv, NoPid

\* A step keeps the tool where RunTool() takes it to be.
LEMMA StepKeepsReaped == TypeInv /\ ReapInv /\ [Next]_vars => ReapInv'
<1> SUFFICES ASSUME TypeInv, ReapInv, [Next]_vars
             PROVE  ReapInv'
  OBVIOUS
<1>a. ControlTyped
  BY DEF TypeInv
<1> USE <1>a
<1>1. CASE FailToStart
  BY <1>1
  DEF FailToStart, GoTo, Done, NoPid, ControlTyped, ReapInv, inputs, outside,
      locals
<1>2. CASE Spawn
  BY <1>2 DEF Spawn, GoTo, Done, NoPid, ControlTyped, ReapInv, inputs, locals
<1>3. CASE SetNonBlocking
  <2>1. CASE StopAfterFailure
    BY <1>3, <2>1, StopKeepsReaped DEF SetNonBlocking
  <2>2. CASE at' = "drain_out" /\ UNCHANGED <<inputs, outside, locals, result>>
    BY <1>3, <2>2
    DEF SetNonBlocking, GoTo, ControlTyped, ReapInv, Done, NoPid, Draining,
        inputs, outside, locals
  <2>3. QED
    BY <1>3, <2>1, <2>2 DEF SetNonBlocking, GoTo
<1>4. ASSUME NEW s \in Streams, Drain(s)
     PROVE  ReapInv'
  BY <1>4
  DEF Drain, TakeNothing, TakeBytes, IsTooMuch, BudgetLeft, AfterTooMuch,
      AfterDrain, GoTo, ControlTyped, ReapInv, Done, NoPid, Draining, inputs
<1>5. ASSUME NEW s \in Streams, DrainFails(s)
     PROVE  ReapInv'
  BY <1>5
  DEF DrainFails, StopAfterFailure, KillAndReap, Kill, GoTo, Done, NoPid,
      ControlTyped, ReapInv, inputs
<1>6. ASSUME NEW s \in Streams, DrainThrows(s)
     PROVE  ReapInv'
  BY <1>6
  DEF DrainThrows, KillAndReap, Kill, GoTo, Done, NoPid, ControlTyped, ReapInv,
      inputs
<1>7. CASE LookAtOutput
  BY <1>7
  DEF LookAtOutput, KillAndReap, Kill, Return, GoTo, Done, NoPid, ControlTyped,
      ReapInv, inputs
<1>8. CASE WaitNoHang
  <2>1. UNCHANGED <<sigchld_ignored, capture_output>> /\ ~reaped
    BY <1>8 DEF WaitNoHang, ReapInv, Done, Draining, inputs
  <2>2. CASE tool = "running"
    BY <1>8, <2>1, <2>2
    DEF WaitNoHang, GoTo, Done, NoPid, ControlTyped, ReapInv, inputs
  <2>3. CASE tool = "zombie"
    <3>1. FoundExited /\ UNCHANGED stray
      BY <1>8, <2>3 DEF WaitNoHang
    <3>2. CASE capture_output
      BY <2>1, <3>1, <3>2
      DEF FoundExited, GoTo, ControlTyped, ReapInv, Done, NoPid, Draining
    <3>3. CASE ~capture_output
      BY <2>1, <3>1, <3>3
      DEF FoundExited, Return, GoTo, Done, NoPid, ControlTyped, ReapInv
    <3>4. QED
      BY <3>2, <3>3
  <2>4. CASE tool = "gone"
    BY <1>8, <2>1, <2>4
    DEF WaitNoHang, Kill, GoTo, Done, NoPid, ControlTyped, ReapInv, inputs
  <2>5. QED
    BY <1>8, <2>2, <2>3, <2>4 DEF WaitNoHang
<1>9. CASE LookAtClock
  BY <1>9
  DEF LookAtClock, GoTo, ControlTyped, ReapInv, Done, NoPid, Draining, inputs,
      outside, locals
<1>10. CASE Expire
  BY <1>10
  DEF Expire, KillAndReap, Kill, GroupExists, GoTo, ControlTyped, ReapInv,
      Done, NoPid, Draining, Alive, inputs
<1>11. CASE Pause
  <2>1. CASE StopAfterFailure
    BY <1>11, <2>1, StopKeepsReaped DEF Pause
  <2>2. CASE at' \in {"drain_out", "wait"} /\ UNCHANGED <<inputs, outside, locals, result>>
    BY <1>11, <2>2
    DEF Pause, GoTo, ControlTyped, ReapInv, Done, NoPid, Draining, inputs,
        outside, locals
  <2>3. QED
    BY <1>11, <2>1, <2>2 DEF Pause, GoTo
<1>12. CASE Reap
  BY <1>12 DEF Reap, Return, GoTo, Done, NoPid, ControlTyped, ReapInv, inputs
<1>13. ASSUME NEW s \in Streams, WriteByte(s)
     PROVE  ReapInv'
  BY <1>13
  DEF WriteByte, GoTo, Done, NoPid, ControlTyped, ReapInv, inputs, locals
<1>14. CASE StartHelper
  BY <1>14
  DEF StartHelper, GoTo, Done, NoPid, ControlTyped, ReapInv, inputs, locals
<1>15. CASE ToolExits
  BY <1>15, EndKeepsReaped DEF ToolExits
<1>16. CASE HelperExits
  BY <1>16
  DEF HelperExits, HelperEnds, GoTo, Done, NoPid, ControlTyped, ReapInv,
      inputs, locals
<1>17. CASE Die
  <2>1. CASE HelperEnds
    BY <2>1
    DEF HelperEnds, GoTo, Done, NoPid, ControlTyped, ReapInv, inputs, locals
  <2>2. QED
    BY <1>17, <2>1, EndKeepsReaped DEF Die
<1>18. CASE Tick
  BY <1>18 DEF Tick, GoTo, Done, NoPid, ControlTyped, ReapInv, inputs, locals
<1>19. CASE UNCHANGED vars
  BY <1>19
  DEF vars, GoTo, Done, NoPid, ControlTyped, ReapInv, inputs, outside, locals
<1>20. QED
  BY <1>1, <1>2, <1>3, <1>4, <1>5, <1>6, <1>7, <1>8, <1>9, <1>10, <1>11, <1>12,
     <1>13, <1>14, <1>15, <1>16, <1>17, <1>18, <1>19
  DEF Next, RunToolStep

\* A step leaves nobody of a stopped group without SIGKILL.
LEMMA StepKeepsStopped == TypeInv /\ ReapInv /\ StopInv /\ [Next]_vars => StopInv'
<1> SUFFICES ASSUME TypeInv, ReapInv, StopInv, [Next]_vars
             PROVE  StopInv'
  OBVIOUS
<1>a. ControlTyped /\ how \in Ways /\ output_limited \in BOOLEAN /\ timed_out \in BOOLEAN
  BY DEF TypeInv, ControlTyped
<1> USE <1>a, FailureIsAResult, OutcomeIsAResult DEF Errors
<1>1. CASE FailToStart
  BY <1>1
  DEF FailToStart, GoTo, ControlTyped, ReapInv, StopInv, Returned, Done, NoPid,
      Draining, Alive, inputs, outside, locals
<1>2. CASE Spawn
  BY <1>2
  DEF Spawn, GoTo, ControlTyped, ReapInv, StopInv, Returned, Done, NoPid,
      Draining, Alive, inputs, locals
<1>3. CASE SetNonBlocking
  BY <1>3
  DEF SetNonBlocking, StopAfterFailure, KillAndReap, Kill, GoTo, ControlTyped,
      ReapInv, StopInv, Returned, Done, NoPid, Draining, Writers, Alive,
      inputs, outside, locals
<1>4. ASSUME NEW s \in Streams, Drain(s)
     PROVE  StopInv'
  BY <1>4
  DEF Drain, TakeNothing, TakeBytes, IsTooMuch, BudgetLeft, AfterTooMuch,
      AfterDrain, GoTo, ControlTyped, ReapInv, StopInv, Returned, Done, NoPid,
      Draining, Writers, Alive, inputs
<1>5. ASSUME NEW s \in Streams, DrainFails(s)
     PROVE  StopInv'
  BY <1>5
  DEF DrainFails, StopAfterFailure, KillAndReap, Kill, GoTo, ControlTyped,
      ReapInv, StopInv, Returned, Done, NoPid, Draining, Writers, Alive, inputs
<1>6. ASSUME NEW s \in Streams, DrainThrows(s)
     PROVE  StopInv'
  BY <1>6
  DEF DrainThrows, KillAndReap, Kill, GoTo, ControlTyped, ReapInv, StopInv,
      Returned, Done, NoPid, Draining, Writers, Alive, inputs
<1>7. CASE LookAtOutput
  <2>1. CASE output_limited /\ ~child_exited
    <3>1. /\ at' = "reap" /\ waiting_for' = "limit" /\ condemned' = condemned \cup Writers
          /\ UNCHANGED <<tool, helper, result>>
      BY <1>7, <2>1 DEF LookAtOutput, KillAndReap, Kill, GoTo
    <3>2. QED
      BY <1>7, <3>1 DEF LookAtOutput, StopInv, Writers, Alive, Returned
  <2>2. CASE child_exited
    <3>1. at' = "returned" /\ result' = Outcome(output_limited, FALSE)
      BY <1>7, <2>2 DEF LookAtOutput, Return, GoTo
    <3>2. result'.error # "timeout"
      BY <3>1
    <3>3. QED
      BY <3>1, <3>2 DEF StopInv, Returned
  <2>3. CASE ~output_limited /\ ~child_exited
    BY <1>7, <2>3 DEF LookAtOutput, GoTo, StopInv, Returned
  <2>4. QED
    BY <2>1, <2>2, <2>3
<1>8. CASE WaitNoHang
  BY <1>8
  DEF WaitNoHang, FoundExited, Return, Kill, GoTo, ControlTyped, ReapInv,
      StopInv, Returned, Done, NoPid, Draining, Writers, Alive, inputs
<1>9. CASE LookAtClock
  BY <1>9
  DEF LookAtClock, GoTo, ControlTyped, ReapInv, StopInv, Returned, Done, NoPid,
      Draining, Alive, inputs, outside, locals
<1>10. CASE Expire
  BY <1>10
  DEF Expire, KillAndReap, Kill, GroupExists, GoTo, ControlTyped, ReapInv,
      StopInv, Returned, Done, NoPid, Draining, Writers, Alive, inputs
<1>11. CASE Pause
  BY <1>11
  DEF Pause, StopAfterFailure, KillAndReap, Kill, GoTo, ControlTyped, ReapInv,
      StopInv, Returned, Done, NoPid, Draining, Writers, Alive, inputs,
      outside, locals
<1>12. CASE Reap
  BY <1>12 DEF Reap, Return, GoTo, ControlTyped, ReapInv, StopInv, inputs
<1>13. ASSUME NEW s \in Streams, WriteByte(s)
     PROVE  StopInv'
  BY <1>13
  DEF WriteByte, ControlTyped, ReapInv, StopInv, Returned, Done, NoPid,
      Draining, Writers, Alive, inputs, locals
<1>14. CASE StartHelper
  BY <1>14
  DEF StartHelper, ControlTyped, ReapInv, StopInv, Returned, Done, NoPid,
      Draining, Alive, inputs, locals
<1>15. CASE ToolExits
  BY <1>15
  DEF ToolExits, ToolEnds, ControlTyped, ReapInv, StopInv, Returned, Done,
      NoPid, Draining, Alive, inputs, locals
<1>16. CASE HelperExits
  BY <1>16
  DEF HelperExits, HelperEnds, ControlTyped, ReapInv, StopInv, Returned, Done,
      NoPid, Draining, Alive, inputs, locals
<1>17. CASE Die
  BY <1>17
  DEF Die, ToolEnds, HelperEnds, ControlTyped, ReapInv, StopInv, Returned,
      Done, NoPid, Draining, Alive, inputs, locals
<1>18. CASE Tick
  BY <1>18
  DEF Tick, ControlTyped, ReapInv, StopInv, Returned, Done, NoPid, Draining,
      Alive, inputs, locals
<1>19. CASE UNCHANGED vars
  BY <1>19
  DEF vars, ControlTyped, ReapInv, StopInv, Returned, Done, NoPid, Draining,
      Alive, inputs, outside, locals
<1>20. QED
  BY <1>1, <1>2, <1>3, <1>4, <1>5, <1>6, <1>7, <1>8, <1>9, <1>10, <1>11, <1>12,
     <1>13, <1>14, <1>15, <1>16, <1>17, <1>18, <1>19
  DEF Next, RunToolStep

\* The parts of the invariant which say who is stopped, and when.
THEOREM StopsAndReaps == Spec => [](ReapInv /\ StopInv)
<1>1. Init => ReapInv /\ StopInv
  BY NoResultIsAResult
  DEF Init, ReapInv, StopInv, Returned, Done, NoPid, Alive, Draining
<1>2. TypeInv /\ ReapInv /\ StopInv /\ [Next]_vars => (ReapInv /\ StopInv)'
  BY StepKeepsReaped, StepKeepsStopped
<1>3. QED
  BY Typing, <1>1, <1>2, PTL DEF Spec

\* SIGKILL never goes to a process number the kernel may have given to someone
\* else: every Kill() of RunTool() comes before the waitpid() which reaps.
THEOREM OnlyTheGroupIsKilled == Spec => []NoStrangerKilled
<1>1. ReapInv => NoStrangerKilled
  BY DEF ReapInv, NoStrangerKilled
<1>2. QED
  BY <1>1, StopsAndReaps, PTL

\* On every way out of RunTool(), that of an exception among them, the tool was
\* reaped: by RunTool() or, where SIGCHLD is ignored, by the kernel.
THEOREM NothingIsLeftBehind == Spec => []ToolIsReaped
<1>1. ReapInv => ToolIsReaped
  BY DEF ReapInv, ToolIsReaped
<1>2. QED
  BY <1>1, StopsAndReaps, PTL

\* Nobody of the group of a tool which was stopped at its deadline goes on
\* without SIGKILL on its way.
THEOREM TheWholeGroupIsStopped == Spec => []GroupIsStopped
<1>1. StopInv => GroupIsStopped
  BY DEF StopInv, GroupIsStopped
<1>2. QED
  BY <1>1, StopsAndReaps, PTL

-----------------------------------------------------------------------------
(***************************************************************************)
(* Where each byte is.                                                     *)
(***************************************************************************)

\* Most steps leave the bytes where they are.
LEMMA BytesLeftAlone ==
    ASSUME ByteInv,
           UNCHANGED <<maximum_output, written, pipe, captured, budget, due, output_limited>>,
           result' = result \/ result'.error # "output_limit" \/ output_limited
    PROVE  ByteInv'
BY DEF ByteInv

\* What a stream has, as numbers.
LEMMA StreamNumbers ==
    ASSUME StreamsTyped, NEW s \in Streams
    PROVE  /\ pipe[s] \in Nat /\ written[s] \in Nat /\ due[s] \in Nat
           /\ written[s] <= Endless /\ due[s] <= Endless
           /\ captured[s] \in Int /\ Present(captured[s]) \in Nat
           /\ captured[s] # Absent => captured[s] = Present(captured[s])
BY MaxOutputAssumption, PipeSizeAssumption
DEF StreamsTyped, Present, Absent, Endless

\* A byte which is written is in the pipe.
LEMMA WriteKeepsBytes ==
    ASSUME StreamsTyped, ByteInv, NEW s \in Streams, WriteByte(s)
    PROVE  ByteInv'
<1>1. /\ pipe' = [pipe EXCEPT ![s] = @ + 1]
      /\ written' = [written EXCEPT ![s] = OneMore(@)]
      /\ UNCHANGED <<maximum_output, captured, budget, due, output_limited, result>>
  BY DEF WriteByte, inputs, locals
<1>2. /\ pipe'[s] = pipe[s] + 1 /\ written'[s] = OneMore(written[s])
      /\ \A t \in Streams : t # s => pipe'[t] = pipe[t] /\ written'[t] = written[t]
  BY <1>1 DEF StreamsTyped
<1>3. \/ written[s] = Endless /\ written'[s] = Endless
      \/ written[s] # Endless /\ written'[s] = written[s] + 1
  BY <1>2 DEF OneMore
<1>4. ASSUME NEW t \in Streams
      PROVE  /\ written'[t] = Endless \/ Present(captured[t]) + pipe'[t] <= written'[t]
             /\ output_limited \/ written'[t] <= Present(captured[t]) + pipe'[t]
             /\ due[t] <= written'[t] /\ written[t] <= written'[t]
  BY <1>2, <1>3, StreamNumbers DEF ByteInv
<1>5. written["out"] + written["err"] <= written'["out"] + written'["err"]
  <2>1. ASSUME NEW t \in Streams
        PROVE  written[t] \in Nat /\ written'[t] \in Nat /\ written[t] <= written'[t]
    <3>1. written'[t] \in {written[t], written[t] + 1}
      BY <1>2, <1>3
    <3>2. QED
      BY <3>1, <1>4, StreamNumbers
  <2>2. QED
    BY <2>1 DEF Streams
<1>6. maximum_output \in Nat /\ written["out"] + written["err"] \in Nat
        /\ written'["out"] + written'["err"] \in Nat
  <2>1. \A t \in Streams : written'[t] \in {written[t], written[t] + 1}
    BY <1>2, <1>3
  <2>2. \A t \in Streams : written[t] \in Nat /\ written'[t] \in Nat
    BY <2>1, StreamNumbers
  <2>3. QED
    BY <2>2, MaxOutputAssumption DEF Streams, StreamsTyped
<1>7. QED
  BY <1>1, <1>4, <1>5, <1>6 DEF ByteInv

\* What was written when the tool ends is due.
LEMMA EndKeepsBytes ==
    ASSUME StreamsTyped, ByteInv, NEW way, ToolEnds(way)
    PROVE  ByteInv'
<1>1. /\ due' = written
      /\ UNCHANGED <<maximum_output, pipe, written, captured, budget, output_limited, result>>
  BY DEF ToolEnds, inputs, locals
<1>2. QED
  BY <1>1, StreamNumbers DEF ByteInv

\* A byte which is read is captured or, once the budget of both streams is
\* spent, too much.
LEMMA TakeKeepsBytes ==
    ASSUME StreamsTyped, ByteInv, output_limited \in BOOLEAN,
           result.error # "output_limit", NEW s \in Streams, NEW size \in 0 .. pipe[s],
           TakeBytes(s, size), UNCHANGED <<maximum_output, written, due, result>>
    PROVE  ByteInv'
<1> DEFINE copied == Smaller(size, budget)
<1>1. /\ pipe' = [pipe EXCEPT ![s] = @ - size]
      /\ captured' = [captured EXCEPT ![s] = Present(@) + copied]
      /\ budget' = budget - copied
      /\ output_limited' = (output_limited \/ copied # size)
  BY DEF TakeBytes, IsTooMuch, BudgetLeft
<1>2. /\ budget \in Nat /\ size \in Nat /\ copied \in Nat /\ copied <= size /\ copied <= budget
      /\ copied # size => copied = budget /\ copied < size
  BY StreamNumbers, MaxOutputAssumption DEF Smaller, StreamsTyped
<1> HIDE DEF copied
<1>3. /\ pipe'[s] = pipe[s] - size /\ captured'[s] = Present(captured[s]) + copied
      /\ \A t \in Streams : t # s => pipe'[t] = pipe[t] /\ captured'[t] = captured[t]
  BY <1>1 DEF StreamsTyped
<1>4. /\ Present(captured'[s]) = Present(captured[s]) + copied
      /\ \A t \in Streams : t # s => Present(captured'[t]) = Present(captured[t])
  <2>1. Present(captured[s]) + copied \in Nat
    BY <1>2, StreamNumbers
  <2>2. QED
    BY <1>3, <2>1 DEF Present, Absent
<1>5. ASSUME NEW t \in Streams
      PROVE  /\ written[t] = Endless \/ Present(captured'[t]) + pipe'[t] <= written[t]
             /\ output_limited' \/ written[t] <= Present(captured'[t]) + pipe'[t]
  <2>1. CASE t = s
    <3>1. /\ written[s] = Endless \/ Present(captured[s]) + pipe[s] <= written[s]
          /\ output_limited \/ written[s] <= Present(captured[s]) + pipe[s]
      BY DEF ByteInv
    <3>2. output_limited' \/ (~output_limited /\ copied = size)
      BY <1>1
    <3>3. /\ pipe[s] \in Nat /\ written[s] \in Nat /\ Present(captured[s]) \in Nat
      BY StreamNumbers
    <3>4. QED
      BY <1>2, <1>3, <1>4, <2>1, <3>1, <3>2, <3>3
  <2>2. CASE t # s
    BY <1>1, <1>3, <1>4, <2>2 DEF ByteInv
  <2>3. QED
    BY <2>1, <2>2
<1>6. ASSUME output_limited'
      PROVE  budget' = 0 /\ written["out"] + written["err"] > maximum_output
  <2>1. CASE output_limited
    BY <1>1, <1>2, <2>1 DEF ByteInv
  <2>2. CASE ~output_limited
    <3>1. copied = budget /\ copied < size
      BY <1>1, <1>2, <1>6, <2>2
    <3>2. \A t \in Streams : written[t] = Endless \/ Present(captured[t]) + pipe[t] <= written[t]
      BY DEF ByteInv
    <3>3. Present(captured["out"]) + Present(captured["err"]) + budget = maximum_output
            /\ maximum_output \in 0 .. MaxOutput
      BY DEF StreamsTyped
    <3>4. written[s] > Present(captured[s]) + budget \/ written[s] > maximum_output
      BY <1>2, <3>1, <3>2, <3>3, StreamNumbers, MaxOutputAssumption DEF Endless
    <3>5. \A t \in Streams : written[t] >= Present(captured[t]) \/ written[t] > maximum_output
      BY <3>2, <3>3, StreamNumbers, MaxOutputAssumption DEF Endless
    <3>6. written["out"] + written["err"] > maximum_output
      <4>1. \A t \in Streams : written[t] \in Nat /\ Present(captured[t]) \in Nat
        BY StreamNumbers
      <4>2. maximum_output \in Nat
        BY <3>3, MaxOutputAssumption
      <4>3. CASE s = "out"
        BY <1>2, <3>3, <3>4, <3>5, <4>1, <4>2, <4>3 DEF Streams
      <4>4. CASE s = "err"
        BY <1>2, <3>3, <3>4, <3>5, <4>1, <4>2, <4>4 DEF Streams
      <4>5. QED
        BY <4>3, <4>4 DEF Streams
    <3>7. QED
      BY <1>1, <1>2, <3>1, <3>6
  <2>3. QED
    BY <2>1, <2>2
<1>7. QED
  BY <1>5, <1>6 DEF ByteInv

\* A pipe with nothing in it moves no byte.
LEMMA NothingKeepsBytes ==
    ASSUME StreamsTyped, ByteInv, NEW s \in Streams,
           TakeNothing(s), UNCHANGED <<maximum_output, written, due, result>>
    PROVE  ByteInv'
<1>1. /\ captured' = [captured EXCEPT ![s] = Present(@)]
      /\ UNCHANGED <<pipe, budget, output_limited>>
  BY DEF TakeNothing
<1>2. ASSUME NEW t \in Streams
      PROVE  Present(captured'[t]) = Present(captured[t])
  BY <1>1 DEF StreamsTyped, Present
<1>3. QED
  BY <1>1, <1>2 DEF ByteInv

\* A step accounts for every byte it moves.
LEMMA StepKeepsBytes == TypeInv /\ StopInv /\ ByteInv /\ [Next]_vars => ByteInv'
<1> SUFFICES ASSUME TypeInv, StopInv, ByteInv, [Next]_vars
             PROVE  ByteInv'
  OBVIOUS
<1>a. StreamsTyped /\ how \in Ways /\ output_limited \in BOOLEAN /\ timed_out \in BOOLEAN
  BY DEF TypeInv, ControlTyped
<1> USE <1>a, BytesLeftAlone, FailureIsAResult, OutcomeIsAResult DEF Errors
<1>1. CASE FailToStart
  BY <1>1 DEF FailToStart, inputs, outside, locals
<1>2. CASE Spawn
  BY <1>2 DEF Spawn, inputs, locals
<1>3. CASE SetNonBlocking
  BY <1>3
  DEF SetNonBlocking, StopAfterFailure, KillAndReap, Kill, inputs, outside,
      locals
<1>4. ASSUME NEW s \in Streams, Drain(s)
     PROVE  ByteInv'
  <2>1. UNCHANGED <<maximum_output, written, due, result>>
    BY <1>4 DEF Drain, inputs
  <2>2. result.error # "output_limit"
    BY <1>4, NoResultIsAResult DEF Drain, StopInv
  <2>3. CASE ended[s]
    BY <1>4, <2>1, <2>3 DEF Drain
  <2>4. CASE TakeNothing(s)
    BY <2>1, <2>4, NothingKeepsBytes
  <2>5. CASE TakeBytes(s, Smaller(pipe[s], ChunkSize))
    <3>1. Smaller(pipe[s], ChunkSize) \in 0 .. pipe[s]
      BY StreamNumbers, ChunkSizeAssumption DEF Smaller
    <3>2. QED
      BY <2>1, <2>2, <2>5, <3>1, TakeKeepsBytes
  <2>6. QED
    BY <1>4, <2>3, <2>4, <2>5 DEF Drain
<1>5. ASSUME NEW s \in Streams, DrainFails(s)
     PROVE  ByteInv'
  BY <1>5 DEF DrainFails, StopAfterFailure, KillAndReap, Kill, inputs
<1>6. ASSUME NEW s \in Streams, DrainThrows(s)
     PROVE  ByteInv'
  BY <1>6 DEF DrainThrows, KillAndReap, Kill, inputs
<1>7. CASE LookAtOutput
  BY <1>7 DEF LookAtOutput, KillAndReap, Kill, Return, inputs
<1>8. CASE WaitNoHang
  BY <1>8 DEF WaitNoHang, FoundExited, Return, Kill, inputs
<1>9. CASE LookAtClock
  BY <1>9 DEF LookAtClock, inputs, outside, locals
<1>10. CASE Expire
  BY <1>10 DEF Expire, KillAndReap, Kill, GroupExists, inputs
<1>11. CASE Pause
  BY <1>11
  DEF Pause, StopAfterFailure, KillAndReap, Kill, inputs, outside, locals
<1>12. CASE Reap
  BY <1>12 DEF Reap, Return, inputs
<1>13. ASSUME NEW s \in Streams, WriteByte(s)
     PROVE  ByteInv'
  BY <1>13, WriteKeepsBytes
<1>14. CASE StartHelper
  BY <1>14 DEF StartHelper, inputs, locals
<1>15. CASE ToolExits
  BY <1>15, EndKeepsBytes DEF ToolExits
<1>16. CASE HelperExits
  BY <1>16 DEF HelperExits, HelperEnds, inputs, locals
<1>17. CASE Die
  <2>1. CASE HelperEnds
    BY <2>1 DEF HelperEnds, inputs, locals
  <2>2. QED
    BY <1>17, <2>1, EndKeepsBytes DEF Die
<1>18. CASE Tick
  BY <1>18 DEF Tick, inputs, locals
<1>19. CASE UNCHANGED vars
  BY <1>19 DEF vars, inputs, outside, locals
<1>20. QED
  BY <1>1, <1>2, <1>3, <1>4, <1>5, <1>6, <1>7, <1>8, <1>9, <1>10, <1>11, <1>12,
     <1>13, <1>14, <1>15, <1>16, <1>17, <1>18, <1>19
  DEF Next, RunToolStep

\* Where each byte is, in every state there is.
THEOREM BytesAreAccountedFor == Spec => []ByteInv
<1>1. Init => ByteInv
  BY NoResultIsAResult, MaxOutputAssumption
  DEF Init, ByteInv, Present, Absent, Streams, Endless
<1>2. QED
  BY Typing, StopsAndReaps, StepKeepsBytes, <1>1, PTL DEF Spec

\* Both streams share one limit: what is captured and what is left of the budget
\* are the limit together, and a run is reported as too long only once the budget
\* is spent and more was written than the limit lets through.
THEOREM TheLimitIsExact == Spec => []LimitIsExact
<1>1. TypeInv /\ ByteInv => LimitIsExact
  BY DEF TypeInv, StreamsTyped, ByteInv, LimitIsExact
<1>2. QED
  BY <1>1, Typing, BytesAreAccountedFor, PTL

-----------------------------------------------------------------------------
(***************************************************************************)
(* What was drained by when.                                               *)
(***************************************************************************)

\* A stream which ended has nobody left who writes to it.
LEMMA StepKeepsEnded ==
    TypeInv /\ ReapInv /\ ByteInv /\ EndedInv /\ [Next]_vars => EndedInv'
<1> SUFFICES ASSUME TypeInv, ReapInv, ByteInv, EndedInv, [Next]_vars
             PROVE  EndedInv'
  OBVIOUS
<1>a. ControlTyped /\ StreamsTyped
  BY DEF TypeInv
<1> USE <1>a
<1>1. CASE FailToStart
  BY <1>1
  DEF FailToStart, inputs, outside, locals, EndedInv, NoPid, Alive, Writers
<1>2. CASE Spawn
  BY <1>2 DEF Spawn, ReapInv, EndedInv, inputs, locals
<1>3. CASE SetNonBlocking
  BY <1>3
  DEF SetNonBlocking, StopAfterFailure, KillAndReap, Kill, inputs, outside,
      locals, EndedInv, NoPid, Alive, Writers
<1>4. ASSUME NEW s \in Streams, Drain(s)
     PROVE  EndedInv'
  <2>1. /\ UNCHANGED <<capture_output, tool, helper, written, due, child_exited, reaped,
                        waiting_for, timed_out, result>>
        /\ at = IF s = "out" THEN "drain_out" ELSE "drain_err"
    BY <1>4 DEF Drain, inputs
  <2>2. ASSUME NEW t \in Streams, ended'[t]
        PROVE  /\ captured'[t] # Absent /\ Writers' = {} /\ tool' # NoPid
               /\ output_limited' \/ captured'[t] >= written'[t]
    <3>1. Writers' = Writers
      BY <2>1 DEF Writers
    <3>2. CASE ended[s]
      <4>1. UNCHANGED <<captured, output_limited, ended>>
        BY <1>4, <3>2 DEF Drain
      <4>2. QED
        BY <2>1, <2>2, <3>1, <4>1 DEF EndedInv
    <3>3. CASE TakeNothing(s)
      <4>1. /\ pipe[s] = 0 /\ output_limited' = output_limited
            /\ ended' = [ended EXCEPT ![s] = Writers = {}]
            /\ captured' = [captured EXCEPT ![s] = Present(@)]
        BY <3>3 DEF TakeNothing
      <4>2. CASE t = s
        <5>1. Writers = {} /\ captured'[s] = Present(captured[s])
          BY <2>2, <4>1, <4>2 DEF StreamsTyped
        <5>2. Present(captured[s]) \in Nat /\ written[s] \in Nat
          BY StreamNumbers
        <5>3. output_limited \/ written[s] <= Present(captured[s])
          BY <4>1, <5>2 DEF ByteInv
        <5>4. tool # NoPid
          BY <2>1 DEF ReapInv
        <5>5. QED
          BY <2>1, <3>1, <4>1, <4>2, <5>1, <5>2, <5>3, <5>4 DEF Absent
      <4>3. CASE t # s
        <5>1. ended[t] /\ captured'[t] = captured[t]
          BY <2>2, <4>1, <4>3 DEF StreamsTyped
        <5>2. QED
          BY <2>1, <3>1, <4>1, <5>1 DEF EndedInv
      <4>4. QED
        BY <4>2, <4>3
    <3>4. CASE ~ended[s] /\ TakeBytes(s, Smaller(pipe[s], ChunkSize))
      <4>1. /\ ended' = ended /\ (output_limited => output_limited')
            /\ \E bytes : captured' = [captured EXCEPT ![s] = bytes]
        BY <3>4 DEF TakeBytes
      <4>2. t # s /\ ended[t] /\ captured'[t] = captured[t]
        BY <2>2, <3>4, <4>1 DEF StreamsTyped
      <4>3. QED
        BY <2>1, <3>1, <4>1, <4>2 DEF EndedInv
    <3>5. QED
      BY <1>4, <3>2, <3>3, <3>4 DEF Drain
  <2>3. QED
    BY <2>2 DEF EndedInv
<1>5. ASSUME NEW s \in Streams, DrainFails(s)
     PROVE  EndedInv'
  BY <1>5
  DEF DrainFails, StopAfterFailure, KillAndReap, Kill, inputs, EndedInv, NoPid,
      Alive, Writers
<1>6. ASSUME NEW s \in Streams, DrainThrows(s)
     PROVE  EndedInv'
  BY <1>6
  DEF DrainThrows, KillAndReap, Kill, inputs, EndedInv, NoPid, Alive, Writers
<1>7. CASE LookAtOutput
  BY <1>7
  DEF LookAtOutput, KillAndReap, Kill, Return, inputs, EndedInv, NoPid, Alive,
      Writers
<1>8. CASE WaitNoHang
  BY <1>8
  DEF WaitNoHang, FoundExited, Return, Kill, inputs, EndedInv, NoPid, Alive,
      Writers
<1>9. CASE LookAtClock
  BY <1>9
  DEF LookAtClock, inputs, outside, locals, EndedInv, NoPid, Alive, Writers
<1>10. CASE Expire
  BY <1>10
  DEF Expire, KillAndReap, Kill, GroupExists, inputs, EndedInv, NoPid, Alive,
      Writers
<1>11. CASE Pause
  BY <1>11
  DEF Pause, StopAfterFailure, KillAndReap, Kill, inputs, outside, locals,
      EndedInv, NoPid, Alive, Writers
<1>12. CASE Reap
  BY <1>12 DEF Reap, Return, inputs, EndedInv, NoPid, Alive, Writers
<1>13. ASSUME NEW s \in Streams, WriteByte(s)
     PROVE  EndedInv'
  BY <1>13 DEF WriteByte, EndedInv, inputs, locals
<1>14. CASE StartHelper
  BY <1>14 DEF StartHelper, inputs, locals, EndedInv, NoPid, Alive, Writers
<1>15. CASE ToolExits
  BY <1>15
  DEF ToolExits, ToolEnds, inputs, locals, EndedInv, NoPid, Alive, Writers
<1>16. CASE HelperExits
  BY <1>16
  DEF HelperExits, HelperEnds, inputs, locals, EndedInv, NoPid, Alive, Writers
<1>17. CASE Die
  BY <1>17
  DEF Die, ToolEnds, HelperEnds, inputs, locals, EndedInv, NoPid, Alive,
      Writers
<1>18. CASE Tick
  BY <1>18 DEF Tick, inputs, locals, EndedInv, NoPid, Alive, Writers
<1>19. CASE UNCHANGED vars
  BY <1>19 DEF vars, inputs, outside, locals, EndedInv, NoPid, Alive, Writers
<1>20. QED
  BY <1>1, <1>2, <1>3, <1>4, <1>5, <1>6, <1>7, <1>8, <1>9, <1>10, <1>11, <1>12,
     <1>13, <1>14, <1>15, <1>16, <1>17, <1>18, <1>19
  DEF Next, RunToolStep

\* What was captured of a stream stays, and a stream is there once it was drained.
LEMMA CapturedStays ==
    ASSUME StreamsTyped, NEW s \in Streams, Drain(s)
    PROVE  /\ \A t \in Streams : captured[t] # Absent => captured'[t] # Absent
           /\ at' # at /\ ~ended[s] => captured'[s] # Absent
<1>1. Present(captured[s]) \in Nat
  BY StreamNumbers
<1>2. CASE ended[s]
  BY <1>2 DEF Drain
<1>3. ASSUME NEW copied \in Nat, captured' = [captured EXCEPT ![s] = Present(@) + copied]
      PROVE  captured'[s] # Absent /\ \A t \in Streams : t # s => captured'[t] = captured[t]
  BY <1>1, <1>3 DEF StreamsTyped, Absent
<1>4. CASE TakeNothing(s)
  <2>1. captured' = [captured EXCEPT ![s] = Present(@)] /\ at' = AfterDrain(s)
    BY <1>4 DEF TakeNothing, GoTo
  <2>2. captured'[s] = Present(captured[s])
          /\ \A t \in Streams : t # s => captured'[t] = captured[t]
    BY <2>1 DEF StreamsTyped
  <2>3. QED
    BY <1>1, <2>2 DEF Absent
<1>5. CASE TakeBytes(s, Smaller(pipe[s], ChunkSize))
  <2>1. Smaller(Smaller(pipe[s], ChunkSize), budget) \in Nat
    BY StreamNumbers, ChunkSizeAssumption, MaxOutputAssumption
    DEF Smaller, StreamsTyped
  <2>2. QED
    BY <1>3, <1>5, <2>1 DEF TakeBytes
<1>6. QED
  BY <1>2, <1>4, <1>5 DEF Drain

\* A tool which ends takes nothing of them with it.
LEMMA EndKeepsPresent ==
    ASSUME ControlTyped, PresentInv, NEW way, ToolEnds(way)
    PROVE  PresentInv'
<1>1. /\ UNCHANGED <<capture_output, at, captured, child_exited, waiting_for, result>>
      /\ tool = "running" /\ tool' \in {"gone", "zombie"}
  BY DEF ToolEnds, Alive, inputs, locals
<1>2. Returned' <=> Returned
  BY <1>1 DEF Returned, NoPid
<1>3. QED
  BY <1>1, <1>2 DEF PresentInv, StreamsPresent

\* Both streams are there by the time they are looked at.
LEMMA StepKeepsPresent ==
    TypeInv /\ ReapInv /\ StopInv /\ EndedInv /\ PresentInv /\ [Next]_vars => PresentInv'
<1> SUFFICES ASSUME TypeInv, ReapInv, StopInv, EndedInv, PresentInv, [Next]_vars
             PROVE  PresentInv'
  OBVIOUS
<1>a. ControlTyped /\ StreamsTyped /\ PlaceTyped
  BY DEF TypeInv
<1> USE <1>a, FailureIsAResult, OutcomeIsAResult DEF Errors
<1>1. CASE FailToStart
  BY <1>1
  DEF FailToStart, ReapInv, inputs, outside, locals, PresentInv,
      StreamsPresent, Returned, Draining, NoPid, GoTo
<1>2. CASE Spawn
  BY <1>2
  DEF Spawn, inputs, locals, PresentInv, StreamsPresent, Returned, Draining,
      NoPid, GoTo
<1>3. CASE SetNonBlocking
  BY <1>3
  DEF SetNonBlocking, StopAfterFailure, KillAndReap, Kill, inputs, outside,
      locals, PresentInv, StreamsPresent, Returned, Draining, NoPid, GoTo
<1>4. ASSUME NEW s \in Streams, Drain(s)
     PROVE  PresentInv'
  <2>1. /\ UNCHANGED <<capture_output, tool, helper, written, due, child_exited, reaped,
                        waiting_for, timed_out, result>>
        /\ at = IF s = "out" THEN "drain_out" ELSE "drain_err"
    BY <1>4 DEF Drain, inputs
  <2>2. /\ s = "out" => at' \in {"drain_out", "drain_err"}
        /\ s = "err" => at' \in {"drain_err", "look"}
    BY <1>4, <2>1
    DEF Drain, TakeNothing, TakeBytes, AfterTooMuch, AfterDrain, GoTo
  <2>3. /\ \A t \in Streams : captured[t] # Absent => captured'[t] # Absent
        /\ at' # at => captured'[s] # Absent
    BY <1>4, CapturedStays DEF EndedInv
  <2>4. capture_output
    BY <2>1 DEF PresentInv, Draining
  <2>5. at' = "drain_err" => captured'["out"] # Absent
    <3>1. CASE s = "out"
      BY <2>1, <2>3, <3>1
    <3>2. CASE s = "err"
      BY <2>1, <2>3, <3>2 DEF PresentInv, Streams
    <3>3. QED
      BY <3>1, <3>2 DEF Streams
  <2>6. at' = "look" => \A t \in Streams : captured'[t] # Absent
    BY <2>1, <2>2, <2>3 DEF PresentInv, Streams
  <2>7. child_exited => \A t \in Streams : captured'[t] # Absent
    BY <2>3 DEF PresentInv
  <2>8. at' \in {"drain_out", "drain_err", "look"}
    BY <2>2 DEF Streams
  <2>9. QED
    BY <2>1, <2>4, <2>5, <2>6, <2>7, <2>8
    DEF PresentInv, StreamsPresent, Returned
<1>5. ASSUME NEW s \in Streams, DrainFails(s)
     PROVE  PresentInv'
  BY <1>5
  DEF DrainFails, StopAfterFailure, KillAndReap, Kill, inputs, PresentInv,
      StreamsPresent, Returned, Draining, NoPid, GoTo
<1>6. ASSUME NEW s \in Streams, DrainThrows(s)
     PROVE  PresentInv'
  BY <1>6
  DEF DrainThrows, KillAndReap, Kill, inputs, PresentInv, StreamsPresent,
      Returned, Draining, NoPid, GoTo
<1>7. CASE LookAtOutput
  BY <1>7
  DEF LookAtOutput, KillAndReap, Kill, Return, inputs, PresentInv,
      StreamsPresent, Returned, Draining, NoPid, GoTo
<1>8. CASE WaitNoHang
  <2>1. /\ UNCHANGED <<capture_output, captured, waiting_for>>
        /\ ~child_exited /\ at = "wait"
    BY <1>8 DEF WaitNoHang, ReapInv, Draining, Done, inputs
  <2>2. CASE tool = "running"
    BY <1>8, <2>1, <2>2
    DEF WaitNoHang, inputs, PresentInv, StreamsPresent, Returned, Draining,
        NoPid, GoTo
  <2>3. CASE tool = "zombie" /\ capture_output
    BY <1>8, <2>1, <2>3
    DEF WaitNoHang, FoundExited, GoTo, PresentInv, StreamsPresent, inputs
  <2>4. CASE tool = "zombie" /\ ~capture_output
    <3>1. at' = "returned" /\ ~child_exited'
      BY <1>8, <2>4 DEF WaitNoHang, FoundExited, Return, GoTo
    <3>2. QED
      BY <2>1, <2>4, <3>1 DEF PresentInv, StreamsPresent, Returned, Draining
  <2>5. CASE tool = "gone" /\ capture_output
    BY <1>8, <2>1, <2>5
    DEF WaitNoHang, GoTo, PresentInv, StreamsPresent, inputs
  <2>6. CASE tool = "gone" /\ ~capture_output
    BY <1>8, <2>1, <2>6
    DEF WaitNoHang, inputs, PresentInv, StreamsPresent, Returned, Draining,
        NoPid, GoTo
  <2>7. QED
    BY <1>8, <2>2, <2>3, <2>4, <2>5, <2>6 DEF WaitNoHang
<1>9. CASE LookAtClock
  BY <1>9
  DEF LookAtClock, inputs, outside, locals, PresentInv, StreamsPresent,
      Returned, Draining, NoPid, GoTo
<1>10. CASE Expire
  BY <1>10
  DEF Expire, KillAndReap, Kill, GroupExists, inputs, PresentInv,
      StreamsPresent, Returned, Draining, NoPid, GoTo
<1>11. CASE Pause
  BY <1>11
  DEF Pause, StopAfterFailure, KillAndReap, Kill, inputs, outside, locals,
      PresentInv, StreamsPresent, Returned, Draining, NoPid, GoTo
<1>12. CASE Reap
  <2>1. UNCHANGED <<capture_output, captured, waiting_for, child_exited>>
    BY <1>12 DEF Reap, inputs
  <2>2. CASE waiting_for = "exception" \/ ~capture_output
    BY <1>12, <2>1, <2>2
    DEF Reap, Return, inputs, PresentInv, StreamsPresent, Returned, Draining,
        NoPid, GoTo
  <2>3. CASE waiting_for = "failure" /\ capture_output
    BY <1>12, <2>1, <2>3 DEF Reap, GoTo, PresentInv, StreamsPresent, inputs
  <2>4. CASE waiting_for \in {"limit", "deadline"} /\ capture_output
    BY <1>12, <2>1, <2>4
    DEF Reap, Return, GoTo, PresentInv, StreamsPresent, inputs
  <2>5. QED
    BY <1>12, <2>2, <2>3, <2>4 DEF Reap, StopInv, PlaceTyped
<1>13. ASSUME NEW s \in Streams, WriteByte(s)
     PROVE  PresentInv'
  BY <1>13
  DEF WriteByte, inputs, locals, PresentInv, StreamsPresent, Returned,
      Draining, NoPid
<1>14. CASE StartHelper
  BY <1>14
  DEF StartHelper, inputs, locals, PresentInv, StreamsPresent, Returned,
      Draining, NoPid
<1>15. CASE ToolExits
  BY <1>15, EndKeepsPresent DEF ToolExits
<1>16. CASE HelperExits
  BY <1>16
  DEF HelperExits, HelperEnds, inputs, locals, PresentInv, StreamsPresent,
      Returned, Draining, NoPid
<1>17. CASE Die
  <2>1. CASE HelperEnds
    BY <2>1
    DEF HelperEnds, inputs, locals, PresentInv, StreamsPresent, Returned,
        Draining, NoPid
  <2>2. QED
    BY <1>17, <2>1, EndKeepsPresent DEF Die
<1>18. CASE Tick
  BY <1>18
  DEF Tick, inputs, locals, PresentInv, StreamsPresent, Returned, Draining,
      NoPid
<1>19. CASE UNCHANGED vars
  BY <1>19
  DEF vars, inputs, outside, locals, PresentInv, StreamsPresent, Returned,
      Draining, NoPid
<1>20. QED
  BY <1>1, <1>2, <1>3, <1>4, <1>5, <1>6, <1>7, <1>8, <1>9, <1>10, <1>11, <1>12,
     <1>13, <1>14, <1>15, <1>16, <1>17, <1>18, <1>19
  DEF Next, RunToolStep

\* What is due once the tool has ended is not asked for before it was reaped.
LEMMA EndKeepsDue ==
    ASSUME ControlTyped, ReapInv, DueInv, NEW way, ToolEnds(way)
    PROVE  DueInv'
<1>1. /\ UNCHANGED <<at, waiting_for, output_limited, timed_out, child_exited>>
      /\ tool = "running"
  BY DEF ToolEnds, Alive, locals
<1>2. at # "returned" /\ ~child_exited
  BY <1>1 DEF ReapInv, Done, NoPid
<1>3. QED
  BY <1>1, <1>2 DEF DueInv, NothingMissed, Returned

\* A step drains what is due before RunTool() comes back with it.
LEMMA StepKeepsDue ==
    TypeInv /\ ReapInv /\ StopInv /\ ByteInv /\ EndedInv /\ PresentInv /\ DueInv
    /\ [Next]_vars => DueInv'
<1> SUFFICES ASSUME TypeInv, ReapInv, StopInv, ByteInv, EndedInv, PresentInv, DueInv,
                    [Next]_vars
             PROVE  DueInv'
  OBVIOUS
<1>a. ControlTyped /\ StreamsTyped /\ PlaceTyped
  BY DEF TypeInv
<1> USE <1>a, FailureIsAResult, OutcomeIsAResult DEF Errors
<1>1. CASE FailToStart
  BY <1>1 DEF FailToStart, GoTo, DueInv, NothingMissed, inputs, outside, locals
<1>2. CASE Spawn
  BY <1>2
  DEF Spawn, inputs, locals, DueInv, NothingMissed, Returned, NoPid, GoTo
<1>3. CASE SetNonBlocking
  BY <1>3
  DEF SetNonBlocking, StopAfterFailure, KillAndReap, Kill, inputs, outside,
      locals, DueInv, NothingMissed, Returned, NoPid, GoTo
<1>4. ASSUME NEW s \in Streams, Drain(s)
     PROVE  DueInv'
  <2>1. /\ UNCHANGED <<capture_output, tool, helper, written, due, child_exited, reaped,
                        waiting_for, timed_out, result>>
        /\ at = IF s = "out" THEN "drain_out" ELSE "drain_err"
    BY <1>4 DEF Drain, inputs
  <2>2. at' \in {at, AfterDrain(s)} /\ (output_limited => output_limited')
    BY <1>4 DEF Drain, TakeNothing, TakeBytes, AfterTooMuch, GoTo
  <2>3. \A t \in Streams : t # s => captured'[t] = captured[t]
    BY <1>4 DEF Drain, TakeNothing, TakeBytes, StreamsTyped
  <2>4. ASSUME at' # at, ~output_limited'
        PROVE  captured'[s] >= due[s]
    <3>1. captured[s] \in Int /\ written[s] \in Nat /\ due[s] \in Nat /\ due[s] <= written[s]
      BY StreamNumbers DEF ByteInv
    <3>2. CASE ended[s]
      <4>1. captured' = captured
        BY <1>4, <3>2 DEF Drain
      <4>2. captured[s] >= written[s]
        BY <2>2, <2>4, <3>2 DEF EndedInv
      <4>3. QED
        BY <3>1, <4>1, <4>2
    <3>3. CASE TakeNothing(s)
      <4>1. pipe[s] = 0 /\ captured'[s] = Present(captured[s])
        BY <3>3 DEF TakeNothing, StreamsTyped
      <4>2. Present(captured[s]) \in Nat
        BY StreamNumbers
      <4>3. written[s] <= Present(captured[s])
        BY <2>2, <2>4, <4>1, <4>2 DEF ByteInv
      <4>4. QED
        BY <3>1, <4>1, <4>2, <4>3
    <3>4. CASE TakeBytes(s, Smaller(pipe[s], ChunkSize))
      BY <2>4, <3>4 DEF TakeBytes, GoTo
    <3>5. QED
      BY <1>4, <3>2, <3>3, <3>4 DEF Drain
  <2>5. at' \in {"drain_out", "drain_err", "look"}
    BY <2>1, <2>2 DEF AfterDrain
  <2>6. ASSUME child_exited, ~output_limited'
        PROVE  /\ at' \in {"drain_err", "look"} => captured'["out"] >= due["out"]
               /\ at' = "look" => captured'["err"] >= due["err"]
    <3>1. CASE s = "out"
      BY <2>1, <2>2, <2>4, <2>6, <3>1 DEF AfterDrain
    <3>2. CASE s = "err"
      BY <2>1, <2>2, <2>3, <2>4, <2>6, <3>2 DEF AfterDrain, Streams, DueInv
    <3>3. QED
      BY <3>1, <3>2 DEF Streams
  <2>7. QED
    BY <2>1, <2>5, <2>6 DEF DueInv, NothingMissed, Returned, NoPid
<1>5. ASSUME NEW s \in Streams, DrainFails(s)
     PROVE  DueInv'
  BY <1>5
  DEF DrainFails, StopAfterFailure, KillAndReap, Kill, inputs, DueInv,
      NothingMissed, Returned, NoPid, GoTo
<1>6. ASSUME NEW s \in Streams, DrainThrows(s)
     PROVE  DueInv'
  BY <1>6
  DEF DrainThrows, KillAndReap, Kill, inputs, DueInv, NothingMissed, Returned,
      NoPid, GoTo
<1>7. CASE LookAtOutput
  <2>1. /\ UNCHANGED <<capture_output, captured, due, tool, child_exited, output_limited, timed_out>>
        /\ at = "look"
    BY <1>7 DEF LookAtOutput, KillAndReap, inputs
  <2>2. CASE output_limited /\ ~child_exited
    BY <1>7, <2>1, <2>2
    DEF LookAtOutput, KillAndReap, inputs, DueInv, NothingMissed, Returned,
        NoPid, GoTo
  <2>3. CASE child_exited
    <3>1. at' = "returned" /\ result' = Outcome(output_limited, FALSE)
      BY <1>7, <2>3 DEF LookAtOutput, Return, GoTo
    <3>2. CASE output_limited
      <4>1. result'.error = "output_limit"
        BY <3>1, <3>2, OutcomeIsAResult DEF ControlTyped
      <4>2. QED
        BY <2>1, <3>1, <4>1 DEF DueInv, NothingMissed
    <3>3. CASE ~output_limited
      <4>1. \A s \in Streams : captured[s] >= due[s]
        BY <2>1, <2>3, <3>3 DEF DueInv, Streams
      <4>2. QED
        BY <2>1, <3>1, <4>1 DEF DueInv, NothingMissed
    <3>4. QED
      BY <3>2, <3>3
  <2>4. CASE ~output_limited /\ ~child_exited
    BY <1>7, <2>1, <2>4
    DEF LookAtOutput, inputs, DueInv, NothingMissed, Returned, NoPid, GoTo
  <2>5. QED
    BY <2>2, <2>3, <2>4
<1>8. CASE WaitNoHang
  BY <1>8
  DEF WaitNoHang, FoundExited, Return, Kill, inputs, DueInv, NothingMissed,
      Returned, NoPid, GoTo
<1>9. CASE LookAtClock
  BY <1>9
  DEF LookAtClock, inputs, outside, locals, DueInv, NothingMissed, Returned,
      NoPid, GoTo
<1>10. CASE Expire
  <2>1. /\ at' = "reap" /\ timed_out' = GroupExists /\ waiting_for' = "deadline"
        /\ UNCHANGED <<tool, child_exited, output_limited>>
    BY <1>10 DEF Expire, KillAndReap, GoTo
  <2>2. GroupExists \/ tool = "gone"
    BY <1>10 DEF Expire, GroupExists, ControlTyped, ReapInv
  <2>3. QED
    BY <2>1, <2>2 DEF DueInv, NothingMissed, Returned
<1>11. CASE Pause
  BY <1>11
  DEF Pause, StopAfterFailure, KillAndReap, Kill, inputs, outside, locals,
      DueInv, NothingMissed, Returned, NoPid, GoTo
<1>12. CASE Reap
  <2>1. /\ UNCHANGED <<capture_output, child_exited>> /\ ~child_exited
        /\ at = "reap" /\ at' \in {"returned", "thrown"}
    BY <1>12 DEF Reap, Return, GoTo, ReapInv, Draining, Done, inputs
  <2>2. capture_output /\ at' = "returned" => result'.error \notin {"none", "signal"}
    <3>1. CASE waiting_for = "failure" \/ tool = "gone"
      BY <1>12, <2>1, <3>1 DEF Reap, GoTo
    <3>2. CASE waiting_for \in {"limit", "deadline"} /\ tool # "gone"
      <4>1. result' = Outcome(output_limited, timed_out)
        BY <1>12, <3>2 DEF Reap, Return
      <4>2. output_limited \/ timed_out
        BY <2>1, <3>2 DEF DueInv
      <4>3. result'.error \in {"output_limit", "timeout"}
        BY <4>1, <4>2, OutcomeIsAResult DEF ControlTyped
      <4>4. QED
        BY <4>3
    <3>3. CASE waiting_for = "exception"
      BY <1>12, <3>3 DEF Reap, GoTo
    <3>4. QED
      BY <2>1, <3>1, <3>2, <3>3 DEF StopInv, PlaceTyped
  <2>3. QED
    BY <2>1, <2>2 DEF DueInv, NothingMissed, Returned, NoPid
<1>13. ASSUME NEW s \in Streams, WriteByte(s)
     PROVE  DueInv'
  BY <1>13
  DEF WriteByte, inputs, locals, DueInv, NothingMissed, Returned, NoPid
<1>14. CASE StartHelper
  BY <1>14
  DEF StartHelper, inputs, locals, DueInv, NothingMissed, Returned, NoPid
<1>15. CASE ToolExits
  BY <1>15, EndKeepsDue DEF ToolExits
<1>16. CASE HelperExits
  BY <1>16
  DEF HelperExits, HelperEnds, inputs, locals, DueInv, NothingMissed, Returned,
      NoPid
<1>17. CASE Die
  <2>1. CASE HelperEnds
    BY <2>1
    DEF HelperEnds, inputs, locals, DueInv, NothingMissed, Returned, NoPid
  <2>2. QED
    BY <1>17, <2>1, EndKeepsDue DEF Die
<1>18. CASE Tick
  BY <1>18 DEF Tick, inputs, locals, DueInv, NothingMissed, Returned, NoPid
<1>19. CASE UNCHANGED vars
  BY <1>19
  DEF vars, inputs, outside, locals, DueInv, NothingMissed, Returned, NoPid
<1>20. QED
  BY <1>1, <1>2, <1>3, <1>4, <1>5, <1>6, <1>7, <1>8, <1>9, <1>10, <1>11, <1>12,
     <1>13, <1>14, <1>15, <1>16, <1>17, <1>18, <1>19
  DEF Next, RunToolStep

\* What was drained by when, in every state there is.
THEOREM BothAreDrained == Spec => [](EndedInv /\ PresentInv /\ DueInv)
<1>1. Init => EndedInv /\ PresentInv /\ DueInv
  BY DEF Init, EndedInv, PresentInv, DueInv, StreamsPresent, NothingMissed,
     Returned,
         Draining
<1>2. TypeInv /\ ReapInv /\ StopInv /\ ByteInv /\ (EndedInv /\ PresentInv /\ DueInv)
        /\ [Next]_vars => (EndedInv /\ PresentInv /\ DueInv)'
  BY StepKeepsEnded, StepKeepsPresent, StepKeepsDue
<1>3. QED
  BY Typing, StopsAndReaps, BytesAreAccountedFor, <1>1, <1>2, PTL DEF Spec

\* Whatever a tool wrote before it ended was captured when its run is reported as
\* one which ended by itself, however close to its end it wrote it and whatever it
\* left running.
THEOREM NothingIsMissed == Spec => []NothingMissed
<1>1. DueInv => NothingMissed
  BY DEF DueInv
<1>2. QED
  BY <1>1, BothAreDrained, PTL

\* Both streams are in the result of a tool which was started, whichever way it
\* was stopped, unless reading them failed.
THEOREM BothStreamsArePresent == Spec => []StreamsPresent
<1>1. PresentInv => StreamsPresent
  BY DEF PresentInv
<1>2. QED
  BY <1>1, BothAreDrained, PTL

=============================================================================
