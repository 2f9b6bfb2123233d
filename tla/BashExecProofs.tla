--------------------------- MODULE BashExecProofs ---------------------------
(***************************************************************************)
(* The join of the bash tool, for every size of its output, of the pipe    *)
(* and of what the child writes: no handle is closed twice, the ToolExec   *)
(* is freed when libuv has let go of all of them, and the result is given  *)
(* once.                                                                   *)
(***************************************************************************)
EXTENDS BashExec, TLAPS

Closed(h) == IF handle[h] = "closed" THEN 1 ELSE 0

(* The handles that were registered, by what the join waits for. *)
Registered ==
  /\ closes_expected \in {0, 1, 3}
  /\ closes_expected = 0 => \A h \in Handle : handle[h] = "none"
  /\ closes_expected = 1 =>
       handle["out"] \in {"closing", "closed"} /\ handle["proc"] = "none" /\ handle["timer"] = "none"
  /\ closes_expected = 3 => \A h \in Handle : handle[h] \in {"open", "closing", "closed"}

(* Without a child nothing can happen to a handle but its close. *)
NoChild ==
  child = "none" =>
    /\ ~exited /\ ~pipe_done /\ ~reading /\ armed = "no" /\ ~grace_armed
    /\ exec # "returned"
    /\ \A h \in Handle : handle[h] # "open"

(* Each flag says that its handle is on its way out. *)
FlagsMatchHandles ==
  child # "none" =>
    /\ closes_expected = 3
    /\ exited <=> child = "reaped"
    /\ exited <=> handle["proc"] # "open"
    /\ pipe_done <=> handle["out"] # "open"
    /\ timer_closing <=> handle["timer"] # "open"
    /\ timer_closing <=> exited /\ pipe_done

TimerArmed ==
  /\ armed # "no" => child # "none" /\ ~timer_closing
  /\ armed = "grace" => exited

(* The count of closes, and what is left to wait for. *)
JoinCounts ==
  /\ closes_done = Closed("proc") + Closed("out") + Closed("timer")
  /\ exec = "none" => child = "none" /\ closes_expected = 0 /\ ~timer_closing
  /\ exec \in {"returned", "silent"} => closes_done < closes_expected
  /\ exec = "freed" => \A h \in Handle : handle[h] \in {"none", "closed"}

ResultGiven ==
  /\ dones = IF done_fired THEN 1 ELSE 0
  /\ exec \in {"none", "returned"} <=> ~done_fired

IInv ==
  /\ TypeOK /\ Registered /\ NoChild /\ FlagsMatchHandles /\ TimerArmed /\ JoinCounts
  /\ ResultGiven

---------------------------------------------------------------------------

(* Before bash_execute there is nothing to join. *)
LEMMA InitIInv == Init => IInv
<1>1. SUFFICES ASSUME Init PROVE IInv
  OBVIOUS
<1>2. TypeOK
  <2>1. /\ pipe \in 0 .. PipeCap /\ written \in Nat /\ output \in 0 .. OutputCap
        /\ dropped \in Nat /\ nuls \in Nat /\ dones \in Nat
        /\ closes_done \in 0 .. 3 /\ closes_expected \in 0 .. 3
    BY <1>1, BashAssumption DEF Init
  <2>2. handle \in [Handle -> {"none", "open", "closing", "closed", "twice"}]
    BY <1>1 DEF Init
  <2>. QED
    BY <1>1, <2>1, <2>2, Zenon DEF Init, TypeOK
<1>3. Registered /\ NoChild /\ FlagsMatchHandles /\ TimerArmed
  BY <1>1 DEF Init, Registered, NoChild, FlagsMatchHandles, TimerArmed, Handle
<1>4. JoinCounts /\ ResultGiven
  BY <1>1 DEF Init, JoinCounts, ResultGiven, Closed, Handle
<1>. QED
  BY <1>2, <1>3, <1>4 DEF IInv

(* A setup that fails leaves nothing, the pipe, or all three to close. *)
LEMMA SetupFailsIInv ==
  ASSUME IInv, RefuseAtOnce \/ PipeOpenFails \/ SpawnFails PROVE IInv'
<1>. USE DEF IInv, TypeOK, Registered, NoChild, FlagsMatchHandles, TimerArmed, JoinCounts,
             ResultGiven, Closed, Handle, SetupFails, envVars, outVars, flagVars, closeVars
<1>1. CASE RefuseAtOnce
  BY <1>1 DEF RefuseAtOnce
<1>2. CASE PipeOpenFails
  BY <1>2 DEF PipeOpenFails
<1>3. CASE SpawnFails
  BY <1>3 DEF SpawnFails
<1>. QED
  BY <1>1, <1>2, <1>3

(* bash_execute with a child: armed, or killed and left to the join. *)
LEMMA ExecuteIInv == ASSUME IInv, Execute \/ ArmFails PROVE IInv'
<1>. USE DEF Handle, outVars
<1>1. CASE Execute
  BY <1>1 DEF IInv, TypeOK, Registered, NoChild, FlagsMatchHandles, TimerArmed, JoinCounts,
              ResultGiven, Closed, Execute, Spawn
<1>2. CASE ArmFails
  <2>0. ~exited /\ ~pipe_done /\ pipe_done \in BOOLEAN /\ ~timer_closing /\ closes_done = 0 /\ dones = 0
    BY <1>2 DEF ArmFails, IInv, TypeOK, NoChild, Registered, JoinCounts, Closed, ResultGiven
  <2>1. /\ handle' \in [Handle -> {"open", "closing"}]
        /\ handle'["proc"] = "open" /\ handle'["timer"] = "open"
        /\ pipe_done' \in BOOLEAN /\ reading' \in BOOLEAN
        /\ pipe_done' <=> handle'["out"] # "open"
    <3>1. CASE pipe_done' = TRUE /\ reading' = FALSE
               /\ handle' = [h \in Handle |-> IF h = "out" THEN "closing" ELSE "open"]
      BY <3>1
    <3>2. CASE pipe_done' = pipe_done /\ reading' = TRUE /\ handle' = [h \in Handle |-> "open"]
      BY <2>0, <3>2
    <3>. QED
      BY <1>2, <3>1, <3>2, Zenon DEF ArmFails
  <2>2. TypeOK'
    BY <1>2, <2>0, <2>1 DEF ArmFails, IInv, TypeOK
  <2>3. (Registered /\ NoChild /\ FlagsMatchHandles /\ TimerArmed)'
    BY <1>2, <2>0, <2>1 DEF ArmFails, Registered, NoChild, FlagsMatchHandles, TimerArmed
  <2>4. (JoinCounts /\ ResultGiven)'
    BY <1>2, <2>0, <2>1 DEF ArmFails, JoinCounts, ResultGiven, Closed
  <2>. QED
    BY <2>2, <2>3, <2>4 DEF IInv
<1>. QED
  BY <1>1, <1>2

(* With a child there are three handles, open or not as the flags say.  A  *)
(* step of MaybeFinish that closes the open handles of the flags it sets   *)
(* keeps them in step, closes the timer with the last of the two, and      *)
(* takes no handle for closed that is not.                                 *)
LEMMA MaybeFinishStep ==
  ASSUME IInv, child # "none",
         NEW ex \in BOOLEAN, NEW pd \in BOOLEAN, NEW forced \in BOOLEAN, NEW hs,
         MaybeFinish(ex, pd, forced, hs),
         hs \subseteq {"proc", "out"},
         exited => ex, pipe_done => pd,
         "proc" \in hs <=> (ex /\ ~exited), "out" \in hs <=> (pd /\ ~pipe_done)
  PROVE  /\ exited' = ex /\ pipe_done' \in BOOLEAN /\ timer_closing' \in BOOLEAN
         /\ grace_armed' \in BOOLEAN /\ grace_forced' \in BOOLEAN
         /\ armed' \in {"no", "timeout", "grace"}
         /\ handle' \in [Handle -> {"open", "closing", "closed"}]
         /\ \A h \in Handle : handle'[h] = "closed" <=> handle[h] = "closed"
         /\ exited' <=> handle'["proc"] # "open"
         /\ pipe_done' <=> handle'["out"] # "open"
         /\ timer_closing' <=> handle'["timer"] # "open"
         /\ timer_closing' <=> exited' /\ pipe_done'
         /\ armed' # "no" => ~timer_closing'
         /\ armed' = "grace" => exited'
<1>. USE DEF IInv, TypeOK, Registered, FlagsMatchHandles, TimerArmed, Handle, UvClose
<1>1. CASE ex /\ pd
  BY <1>1 DEF MaybeFinish
<1>2. CASE ~ex \/ (~pd /\ grace_armed)
  BY <1>2 DEF MaybeFinish
<1>3. CASE ex /\ ~pd /\ ~grace_armed
  <2>1. exited' = ex
    BY Zenon DEF MaybeFinish
  <2>2. CASE /\ grace_armed' = TRUE /\ armed' = "grace" /\ UvClose(hs)
             /\ pipe_done' = pd /\ grace_forced' = forced /\ timer_closing' = timer_closing
    BY <1>3, <2>1, <2>2
  <2>3. CASE /\ grace_armed' = TRUE /\ armed' = "no" /\ timer_closing' = TRUE
             /\ UvClose(hs \cup {"out", "timer"}) /\ pipe_done' = TRUE /\ grace_forced' = TRUE
    BY <1>3, <2>1, <2>3
  <2>. QED
    BY <1>3, <2>2, <2>3, Zenon DEF MaybeFinish
<1>. QED
  BY <1>1, <1>2, <1>3

(* What such a step, with nothing else but the child's end, makes of the   *)
(* invariant.                                                              *)
LEMMA FlagsKept ==
  ASSUME IInv, child # "none",
         exited' \in BOOLEAN, pipe_done' \in BOOLEAN, timer_closing' \in BOOLEAN,
         grace_armed' \in BOOLEAN, grace_forced' \in BOOLEAN,
         armed' \in {"no", "timeout", "grace"},
         handle' \in [Handle -> {"open", "closing", "closed"}],
         \A h \in Handle : handle'[h] = "closed" <=> handle[h] = "closed",
         exited' <=> handle'["proc"] # "open",
         pipe_done' <=> handle'["out"] # "open",
         timer_closing' <=> handle'["timer"] # "open",
         timer_closing' <=> exited' /\ pipe_done',
         armed' # "no" => ~timer_closing',
         armed' = "grace" => exited',
         child' \in {"running", "spared", "dead", "reaped"}, exited' <=> child' = "reaped",
         status' \in {"none", "zero", "nonzero", "signal"},
         canceled' \in BOOLEAN,
         UNCHANGED <<holder, pipe, written, reading, outVars, timed_out, closeVars, doneVars>>
  PROVE  IInv'
<1>. USE DEF outVars, closeVars, doneVars, Handle
<1>1. TypeOK'
  BY DEF IInv, TypeOK
<1>2. (Registered /\ NoChild /\ FlagsMatchHandles /\ TimerArmed)'
  BY DEF IInv, TypeOK, Registered, NoChild, FlagsMatchHandles, TimerArmed
<1>3. JoinCounts'
  BY DEF IInv, TypeOK, Registered, FlagsMatchHandles, JoinCounts, Closed
<1>4. ResultGiven'
  BY DEF IInv, ResultGiven
<1>. QED
  BY <1>1, <1>2, <1>3, <1>4 DEF IInv

(* bash_exit_cb closes the process handle, and with it the last flag may be set. *)
LEMMA ExitIInv == ASSUME IInv, ExitCb PROVE IInv'
<1>1. child = "dead" /\ child # "none" /\ ~exited /\ pipe_done \in BOOLEAN
      /\ grace_forced \in BOOLEAN
  BY DEF IInv, TypeOK, FlagsMatchHandles, ExitCb
<1>2. MaybeFinish(TRUE, pipe_done, grace_forced, {"proc"})
  BY DEF ExitCb
<1>3. child' = "reaped" /\ canceled' \in BOOLEAN
      /\ status' \in {"none", "zero", "nonzero", "signal"}
      /\ UNCHANGED <<holder, pipe, written, reading, outVars, timed_out, closeVars, doneVars>>
  BY DEF IInv, TypeOK, ExitCb
<1>. HIDE DEF IInv
<1>. QED
  BY <1>1, <1>2, <1>3, MaybeFinishStep, FlagsKept

(* bash_read_cb with bytes keeps the output within its cap. *)
LEMMA ReadIInv == ASSUME IInv, NEW n, NEW z, ReadCb(n, z) PROVE IInv'
<1>1. TypeOK'
  BY BashAssumption DEF IInv, TypeOK, ReadCb, CanRead, Handle, flagVars, closeVars, doneVars
<1>. QED
  BY <1>1 DEF IInv, TypeOK, Registered, NoChild, FlagsMatchHandles, TimerArmed, JoinCounts,
              ResultGiven, Closed, Handle, ReadCb, flagVars, closeVars, doneVars

(* bash_force_pipe_close, if there is a child. *)
LEMMA ForceStep ==
  ASSUME IInv, child # "none", NEW forced \in BOOLEAN, ForcePipeClose(forced),
         child' \in {"running", "spared", "dead", "reaped"}, exited <=> child' = "reaped",
         status' \in {"none", "zero", "nonzero", "signal"}, canceled' \in BOOLEAN,
         UNCHANGED <<holder, pipe, written, reading, outVars, timed_out, closeVars, doneVars>>
  PROVE  IInv'
<1>0. exited \in BOOLEAN /\ pipe_done \in BOOLEAN
  BY DEF IInv, TypeOK
<1>1. CASE ~pipe_done
  <2>1. MaybeFinish(exited, TRUE, forced, {"out"})
    BY <1>1 DEF ForcePipeClose
  <2>. QED
    BY <1>0, <1>1, <2>1, MaybeFinishStep, FlagsKept
<1>2. CASE pipe_done
  <2>1. grace_forced' \in BOOLEAN
        /\ UNCHANGED <<exited, pipe_done, timer_closing, armed, grace_armed, handle>>
    BY <1>2 DEF ForcePipeClose
  <2>2. handle \in [Handle -> {"open", "closing", "closed"}]
    BY DEF IInv, TypeOK, Registered, FlagsMatchHandles, Handle
  <2>. QED
    BY <1>0, <2>1, <2>2, FlagsKept DEF IInv, TypeOK, FlagsMatchHandles, TimerArmed
<1>. QED
  BY <1>0, <1>1, <1>2

(* End of file and the grace timer close the pipe. *)
LEMMA ForceIInv == ASSUME IInv, ReadEof \/ GraceCb PROVE IInv'
<1>1. child # "none"
  BY DEF IInv, TypeOK, NoChild, FlagsMatchHandles, ReadEof, GraceCb, CanRead
<1>2. child' \in {"running", "spared", "dead", "reaped"}
  BY <1>1 DEF IInv, TypeOK, ReadEof, GraceCb, envVars
<1>3. exited <=> child' = "reaped"
  BY <1>1 DEF IInv, TypeOK, FlagsMatchHandles, ReadEof, GraceCb, envVars
<1>4. status' \in {"none", "zero", "nonzero", "signal"}
  BY DEF IInv, TypeOK, ReadEof, GraceCb, envVars
<1>5. canceled' \in BOOLEAN
  BY DEF IInv, TypeOK, ReadEof, GraceCb
<1>6. UNCHANGED <<holder, pipe, written, reading, outVars, timed_out, closeVars, doneVars>>
  BY DEF ReadEof, GraceCb, envVars
<1>7. grace_forced \in BOOLEAN
  BY DEF IInv, TypeOK
<1>8. CASE ReadEof
  <2>1. ForcePipeClose(grace_forced)
    BY <1>8 DEF ReadEof
  <2>. QED
    BY <1>1, <1>2, <1>3, <1>4, <1>5, <1>6, <1>7, <2>1, ForceStep
<1>9. CASE GraceCb
  <2>1. ForcePipeClose(TRUE)
    BY <1>9 DEF GraceCb
  <2>. QED
    BY <1>1, <1>2, <1>3, <1>4, <1>5, <1>6, <2>1, ForceStep
<1>. QED
  BY <1>8, <1>9

(* bash_timeout_cb kills and closes nothing. *)
LEMMA TimeoutIInv == ASSUME IInv, TimeoutCb PROVE IInv'
<1>. USE DEF TimeoutCb, Kill, Alive, outVars, closeVars, doneVars
<1>1. TypeOK'
  <2>1. /\ timed_out' \in BOOLEAN /\ child' \in {"none", "running", "spared", "dead", "reaped"}
        /\ status' \in {"none", "zero", "nonzero", "signal"}
    BY DEF IInv, TypeOK
  <2>. QED
    BY <2>1 DEF IInv, TypeOK
<1>2. (Registered /\ NoChild /\ FlagsMatchHandles /\ TimerArmed)'
  BY DEF IInv, TypeOK, Registered, NoChild, FlagsMatchHandles, TimerArmed
<1>3. (JoinCounts /\ ResultGiven)'
  BY DEF IInv, JoinCounts, TimerArmed, ResultGiven, Closed
<1>. QED
  BY <1>1, <1>2, <1>3 DEF IInv

(* tools_cancel kills, or closes the pipe of a child that has ended. *)
LEMMA CancelIInv == ASSUME IInv, ToolsCancel PROVE IInv'
<1>0. /\ child # "none" /\ child \in {"running", "spared", "dead", "reaped"}
      /\ exited <=> child = "reaped"
      /\ canceled' \in BOOLEAN /\ grace_forced \in BOOLEAN
      /\ status \in {"none", "zero", "nonzero", "signal"}
      /\ UNCHANGED <<holder, pipe, written, reading, outVars, timed_out, closeVars, doneVars>>
  BY DEF IInv, TypeOK, NoChild, FlagsMatchHandles, ToolsCancel
<1>1. CASE exited
  BY <1>0, <1>1, ForceStep DEF ToolsCancel
<1>2. CASE ~exited
  <2>1. /\ child' \in {"running", "spared", "dead"} /\ status' \in {"none", "zero", "nonzero", "signal"}
        /\ UNCHANGED <<exited, pipe_done, timer_closing, armed, grace_armed, grace_forced, handle>>
    BY <1>0, <1>2 DEF ToolsCancel, Kill, Alive
  <2>2. handle \in [Handle -> {"open", "closing", "closed"}]
    BY <1>0 DEF IInv, TypeOK, Registered, FlagsMatchHandles, Handle
  <2>. QED
    BY <1>0, <1>2, <2>1, <2>2, FlagsKept DEF IInv, TypeOK, FlagsMatchHandles, TimerArmed
<1>. QED
  BY <1>1, <1>2

(* bash_close_cb counts, and the last one frees. *)
LEMMA CloseIInv == ASSUME IInv, NEW h \in Handle, CloseCb(h) PROVE IInv'
<1>. USE DEF CloseCb, Handle, envVars, outVars, flagVars
<1>1. TypeOK'
  <2>1. closes_done' \in 0 .. 3
    BY DEF IInv, TypeOK, JoinCounts, Closed
  <2>2. handle' \in [Handle -> {"none", "open", "closing", "closed", "twice"}]
    BY DEF IInv, TypeOK
  <2>3. /\ exec' \in {"none", "returned", "silent", "freed"} /\ done_fired' \in BOOLEAN
        /\ dones' \in Nat /\ result' \in {"none", "ok", "error"}
    <3>1. CASE UNCHANGED doneVars
      BY <3>1 DEF IInv, TypeOK, doneVars
    <3>2. CASE exec' = "freed" /\ done_fired' = TRUE /\ UNCHANGED <<dones, result>>
      BY <3>2 DEF IInv, TypeOK
    <3>3. CASE exec' = "freed" /\ done_fired' = TRUE /\ dones' = dones + 1
               /\ result' = IF IsError THEN "error" ELSE "ok"
      BY <3>3 DEF IInv, TypeOK
    <3>. QED
      BY <3>1, <3>2, <3>3, Zenon
  <2>. QED
    BY <2>1, <2>2, <2>3 DEF IInv, TypeOK
<1>2. (Registered /\ NoChild /\ FlagsMatchHandles /\ TimerArmed)'
  BY DEF IInv, TypeOK, Registered, NoChild, FlagsMatchHandles, TimerArmed, doneVars
<1>3. JoinCounts'
  BY DEF IInv, TypeOK, Registered, NoChild, FlagsMatchHandles, JoinCounts, Closed, doneVars
<1>4. ResultGiven'
  BY DEF IInv, TypeOK, ResultGiven, doneVars
<1>. QED
  BY <1>1, <1>2, <1>3, <1>4 DEF IInv

(* The child and what it leaves behind do not touch the handles. *)
LEMMA EnvironmentIInv == ASSUME IInv, Environment PROVE IInv'
<1>. USE DEF Environment, Alive, ChildWrites, ChildForks, ChildExits, HolderExits, outVars,
             flagVars, closeVars, doneVars
<1>1. TypeOK'
  <2>1. /\ pipe' \in 0 .. PipeCap /\ written' \in Nat
        /\ child' \in {"none", "running", "spared", "dead", "reaped"}
        /\ status' \in {"none", "zero", "nonzero", "signal"}
        /\ holder' \in BOOLEAN
    <3>1. CASE ChildWrites
      BY <3>1, BashAssumption DEF IInv, TypeOK
    <3>2. CASE ChildForks \/ ChildExits \/ HolderExits
      BY <3>2 DEF IInv, TypeOK
    <3>. QED
      BY <3>1, <3>2
  <2>. QED
    BY <2>1 DEF IInv, TypeOK
<1>2. (Registered /\ NoChild /\ FlagsMatchHandles /\ TimerArmed)'
  BY DEF IInv, TypeOK, Registered, NoChild, FlagsMatchHandles, TimerArmed
<1>3. (JoinCounts /\ ResultGiven)'
  BY DEF IInv, JoinCounts, ResultGiven, Closed
<1>. QED
  BY <1>1, <1>2, <1>3 DEF IInv

(* A step that changes nothing keeps the invariant. *)
LEMMA StutterIInv == ASSUME IInv, UNCHANGED vars PROVE IInv'
  BY DEF IInv, TypeOK, Registered, NoChild, FlagsMatchHandles, TimerArmed, JoinCounts,
         ResultGiven, Closed, Handle, vars, envVars, outVars, flagVars, closeVars, doneVars

(* The join is in order at all times: IInv is inductive. *)
THEOREM Inductive == Spec => []IInv
<1>1. Init => IInv
  BY InitIInv
<1>2. IInv /\ [Next]_vars => IInv'
  <2>. SUFFICES ASSUME IInv, [Next]_vars PROVE IInv'
    OBVIOUS
  <2>1. CASE Setup
    BY <2>1, SetupFailsIInv, ExecuteIInv DEF Setup
  <2>2. CASE ExitCb
    BY <2>2, ExitIInv
  <2>3. CASE ReadEof \/ GraceCb
    BY <2>3, ForceIInv
  <2>4. CASE \E n \in 1 .. PipeCap, z \in 0 .. PipeCap : ReadCb(n, z)
    BY <2>4, ReadIInv
  <2>5. CASE TimeoutCb
    BY <2>5, TimeoutIInv
  <2>6. CASE ToolsCancel
    BY <2>6, CancelIInv
  <2>7. CASE \E h \in Handle : CloseCb(h)
    BY <2>7, CloseIInv
  <2>8. CASE Environment
    BY <2>8, EnvironmentIInv
  <2>9. CASE UNCHANGED vars
    BY <2>9, StutterIInv
  <2>. QED
    BY <2>1, <2>2, <2>3, <2>4, <2>5, <2>6, <2>7, <2>8, <2>9 DEF Next
<1>. QED
  BY <1>1, <1>2, PTL DEF Spec

(* TypeOK at all times: in particular the output never exceeds its cap,    *)
(* and no more close callbacks come than there are handles.                *)
THEOREM TypeCorrect == Spec => []TypeOK
<1>1. IInv => TypeOK
  BY DEF IInv
<1>. QED
  BY <1>1, Inductive, PTL

(* No libuv handle of a bash execution is closed twice, in whatever order  *)
(* exit, end of file, grace, timeout and cancel arrive.                    *)
THEOREM ClosedOnce == Spec => []NeverClosedTwice
<1>1. IInv => NeverClosedTwice
  BY DEF IInv, Registered, Handle, NeverClosedTwice
<1>. QED
  BY <1>1, Inductive, PTL

(* The ToolExec is freed by the last close callback it waits for, and no   *)
(* handle or armed timer is left behind that could touch it.               *)
THEOREM FreedLast == Spec => []FreedWhenDetached
<1>1. IInv => FreedWhenDetached
  <2>. SUFFICES ASSUME IInv, exec = "freed"
                PROVE (\A h \in Handle : handle[h] \in {"none", "closed"}) /\ armed = "no"
    BY DEF FreedWhenDetached
  <2>1. \A h \in Handle : handle[h] \in {"none", "closed"}
    BY DEF IInv, JoinCounts
  <2>2. armed = "no"
    BY <2>1 DEF IInv, TypeOK, TimerArmed, FlagsMatchHandles, Registered, Handle
  <2>. QED
    BY <2>1, <2>2
<1>. QED
  BY <1>1, Inductive, PTL

(* The turn hears of an execution exactly once: inline when the setup      *)
(* fails, from the join otherwise, and never while it still may cancel.    *)
THEOREM HeardOnce == Spec => []DoneOnce
<1>1. IInv => DoneOnce
  BY DEF IInv, ResultGiven, DoneOnce, TypeOK
<1>. QED
  BY <1>1, Inductive, PTL

(* The join is safe: nothing closed twice, nothing freed too early, and    *)
(* the turn hears of its tool once, before the handle it may cancel by is  *)
(* gone.                                                                   *)
THEOREM JoinSafe == Spec => []JoinIsSafe
<1>1. NeverClosedTwice /\ FreedWhenDetached /\ DoneOnce => JoinIsSafe
  BY DEF JoinIsSafe
<1>. QED
  BY <1>1, ClosedOnce, FreedLast, HeardOnce, PTL
---------------------------------------------------------------------------
(* The result. *)

(* Every byte written is in the pipe, kept, dropped or a NUL removed. *)
BytesAccounted ==
  /\ output + dropped + nuls + pipe = written
  /\ dropped > 0 => output = OutputCap

(* A pipe that was read and is done with was read to its end, unless the   *)
(* tool stopped reading.                                                   *)
ReadToEnd ==
  child # "none" /\ pipe_done /\ reading =>
    canceled \/ grace_forced \/ (pipe = 0 /\ ~holder /\ child \notin Alive)

(* A good result is final. *)
OkIsFinal == result = "ok" => status = "zero" /\ ~canceled /\ ~timed_out /\ exec = "freed"

HonestInv == BytesAccounted /\ ReadToEnd /\ OkIsFinal

(* A freed ToolExec has no timer, and its child, if any, has been reaped   *)
(* and its pipe is done with.                                              *)
LEMMA FreedFacts ==
  ASSUME IInv, exec = "freed"
  PROVE  /\ armed = "no"
         /\ child # "none" => child = "reaped" /\ pipe_done
         /\ \A h \in Handle : handle[h] # "closing"
<1>1. \A h \in Handle : handle[h] \in {"none", "closed"}
  BY DEF IInv, JoinCounts
<1>. QED
  BY <1>1 DEF IInv, TypeOK, TimerArmed, FlagsMatchHandles, Registered, Handle

LEMMA BytesStep == ASSUME IInv, BytesAccounted, [Next]_vars PROVE BytesAccounted'
<1>1. CASE UNCHANGED <<pipe, written, outVars>>
  BY <1>1 DEF BytesAccounted, outVars
<1>2. CASE ChildWrites /\ UNCHANGED outVars
  BY <1>2 DEF BytesAccounted, ChildWrites, outVars, IInv, TypeOK
<1>3. ASSUME NEW n \in 1 .. PipeCap, NEW z \in 0 .. PipeCap, ReadCb(n, z)
      PROVE  BytesAccounted'
  <2>. DEFINE room == IF output < OutputCap THEN OutputCap - output ELSE 0
              take == IF n - z < room THEN n - z ELSE room
  <2>1. /\ output \in 0 .. OutputCap /\ dropped \in Nat /\ nuls \in Nat /\ pipe \in Nat
        /\ written \in Nat /\ OutputCap \in Nat
        /\ n \in Nat /\ z \in Nat /\ z <= n /\ n <= pipe
    BY <1>3, BashAssumption DEF IInv, TypeOK, ReadCb
  <2>2. /\ output' = output + take /\ dropped' = dropped + (n - z - take) /\ nuls' = nuls + z
        /\ pipe' = pipe - n /\ written' = written
    BY <1>3 DEF ReadCb
  <2>3. /\ room \in Nat /\ output + room = OutputCap /\ take \in Nat /\ take <= room
        /\ take = room \/ take = n - z
    BY <2>1
  <2>. HIDE DEF room, take
  <2>4. output + dropped + nuls + pipe = written /\ (dropped > 0 => output = OutputCap)
    BY DEF BytesAccounted
  <2>5. output' + dropped' + nuls' + pipe' = written'
    BY <2>1, <2>2, <2>3, <2>4
  <2>6. CASE take = room
    <3>1. output' = OutputCap
      BY <2>2, <2>3, <2>6
    <3>. QED
      BY <2>5, <3>1 DEF BytesAccounted
  <2>7. CASE take = n - z
    <3>1. dropped' = dropped /\ (dropped > 0 => output' = OutputCap)
      BY <2>1, <2>2, <2>3, <2>4, <2>7
    <3>. QED
      BY <2>5, <3>1 DEF BytesAccounted
  <2>. QED
    BY <2>3, <2>6, <2>7
<1>4. UNCHANGED <<pipe, written, outVars>> \/ (ChildWrites /\ UNCHANGED outVars)
      \/ \E n \in 1 .. PipeCap, z \in 0 .. PipeCap : ReadCb(n, z)
  BY DEF Next, Setup, RefuseAtOnce, PipeOpenFails, SpawnFails, SetupFails, ArmFails, Execute, Spawn,
         ExitCb, ReadEof, TimeoutCb, GraceCb, ToolsCancel, CloseCb, Environment, ChildForks,
         ChildExits, HolderExits, envVars, vars, outVars
<1>. QED
  BY <1>1, <1>2, <1>3, <1>4

(* bash_maybe_finish is done with the pipe when told so, or gives it up.   *)
LEMMA MaybeFinishPipe ==
  ASSUME NEW ex, NEW pd, NEW forced, NEW hs, MaybeFinish(ex, pd, forced, hs)
  PROVE  (pipe_done' = pd /\ grace_forced' = forced) \/ grace_forced' = TRUE
BY DEF MaybeFinish

LEMMA ReadToEndStep == ASSUME IInv, ReadToEnd, [Next]_vars PROVE ReadToEnd'
<1>1. CASE Setup
  <2>1. CASE RefuseAtOnce \/ PipeOpenFails \/ SpawnFails
    BY <2>1 DEF RefuseAtOnce, PipeOpenFails, SpawnFails, envVars, flagVars, ReadToEnd, IInv,
                JoinCounts, SetupFails
  <2>2. CASE Execute \/ ArmFails
    <3>1. exec = "none" /\ child = "none" /\ ~pipe_done
      BY <2>2 DEF Execute, Spawn, ArmFails, IInv, JoinCounts, NoChild
    <3>. QED
      BY <2>2, <3>1 DEF Execute, ArmFails, ReadToEnd
  <2>. QED
    BY <1>1, <2>1, <2>2 DEF Setup
<1>2. CASE ExitCb
  <2>1. MaybeFinish(TRUE, pipe_done, grace_forced, {"proc"})
    BY <1>2 DEF ExitCb
  <2>2. (pipe_done' = pipe_done /\ grace_forced' = grace_forced) \/ grace_forced' = TRUE
    BY <2>1, MaybeFinishPipe
  <2>3. child = "dead" /\ child' = "reaped" /\ UNCHANGED <<holder, pipe, reading, canceled>>
    BY <1>2 DEF ExitCb
  <2>. QED
    BY <2>2, <2>3 DEF ReadToEnd, Alive
<1>3. CASE ReadEof
  <2>1. /\ pipe = 0 /\ child \in {"dead", "reaped"} /\ ~holder
        /\ UNCHANGED envVars
    BY <1>3 DEF ReadEof
  <2>. QED
    BY <2>1 DEF ReadToEnd, Alive, envVars
<1>4. CASE GraceCb
  <2>1. ForcePipeClose(TRUE)
    BY <1>4 DEF GraceCb
  <2>2. grace_forced' = TRUE
    BY <2>1, MaybeFinishPipe DEF ForcePipeClose
  <2>. QED
    BY <2>2 DEF ReadToEnd
<1>5. CASE ToolsCancel
  BY <1>5 DEF ToolsCancel, ReadToEnd
<1>6. CASE TimeoutCb
  BY <1>6 DEF TimeoutCb, Kill, Alive, ReadToEnd, flagVars
<1>7. CASE \E n \in 1 .. PipeCap, z \in 0 .. PipeCap : ReadCb(n, z)
  BY <1>7 DEF ReadCb, CanRead, flagVars, ReadToEnd, IInv, FlagsMatchHandles
<1>8. CASE Environment
  BY <1>8 DEF Environment, Alive, ChildWrites, ChildForks, ChildExits, HolderExits, flagVars,
              ReadToEnd
<1>9. CASE UNCHANGED vars \/ \E h \in Handle : CloseCb(h)
  BY <1>9 DEF vars, CloseCb, envVars, flagVars, ReadToEnd
<1>. QED
  BY <1>1, <1>2, <1>3, <1>4, <1>5, <1>6, <1>7, <1>8, <1>9 DEF Next

LEMMA OkStep == ASSUME IInv, OkIsFinal, [Next]_vars PROVE OkIsFinal'
<1>1. CASE Setup
  BY <1>1 DEF Setup, RefuseAtOnce, PipeOpenFails, SpawnFails, SetupFails, ArmFails, Execute, Spawn,
              OkIsFinal
<1>2. CASE ExitCb \/ ReadEof \/ GraceCb
           \/ \E n \in 1 .. PipeCap, z \in 0 .. PipeCap : ReadCb(n, z)
  BY <1>2 DEF ExitCb, ReadEof, GraceCb, ReadCb, envVars, flagVars, doneVars, OkIsFinal
<1>3. CASE TimeoutCb
  BY <1>3, FreedFacts DEF TimeoutCb, doneVars, OkIsFinal
<1>4. CASE ToolsCancel
  BY <1>4 DEF ToolsCancel, doneVars, OkIsFinal
<1>5. ASSUME NEW h \in Handle, CloseCb(h) PROVE OkIsFinal'
  <2>1. exec # "freed"
    BY <1>5, FreedFacts DEF CloseCb
  <2>2. UNCHANGED <<envVars, flagVars>>
    BY <1>5 DEF CloseCb
  <2>3. CASE result' = result
    BY <2>1, <2>3 DEF OkIsFinal
  <2>4. CASE exec' = "freed" /\ result' = IF IsError THEN "error" ELSE "ok"
    BY <2>2, <2>4 DEF OkIsFinal, IsError, envVars, flagVars
  <2>. QED
    BY <1>5, <2>3, <2>4 DEF CloseCb, doneVars
<1>6. CASE Environment
  BY <1>6, FreedFacts DEF Environment, Alive, ChildWrites, ChildForks, ChildExits, HolderExits,
       flagVars, doneVars, OkIsFinal
<1>7. CASE UNCHANGED vars
  BY <1>7 DEF vars, envVars, flagVars, doneVars, OkIsFinal
<1>. QED
  BY <1>1, <1>2, <1>3, <1>4, <1>5, <1>6, <1>7 DEF Next

(* A result that is no error is of a child that ended by itself with       *)
(* status zero, and unless the tool says that it stopped reading, every    *)
(* byte the child wrote is in it, dropped over the cap, or a NUL removed.  *)
THEOREM HonestResult == Spec => []ResultHonest
<1>1. Init => HonestInv
  BY BashAssumption DEF Init, HonestInv, BytesAccounted, ReadToEnd, OkIsFinal
<1>2. IInv /\ HonestInv /\ [Next]_vars => HonestInv'
  BY BytesStep, ReadToEndStep, OkStep DEF HonestInv
<1>3. IInv /\ HonestInv => ResultHonest
  <2>. SUFFICES ASSUME IInv, HonestInv PROVE ResultHonest
    OBVIOUS
  <2>1. ASSUME exec = "freed", child = "reaped", reading, ~canceled, ~grace_forced
        PROVE  output + dropped + nuls = written
    <3>1. pipe_done
      BY <2>1, FreedFacts
    <3>2. pipe = 0
      BY <2>1, <3>1 DEF HonestInv, ReadToEnd
    <3>. QED
      BY <3>2 DEF HonestInv, BytesAccounted, IInv, TypeOK
  <2>. QED
    BY <2>1 DEF ResultHonest, HonestInv, BytesAccounted, OkIsFinal
<1>. QED
  BY <1>1, <1>2, <1>3, Inductive, PTL DEF Spec

=============================================================================
