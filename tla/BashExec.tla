----------------------------- MODULE BashExec -----------------------------
(***************************************************************************)
(* The bash tool of tools.c: one child process, its merged output pipe and *)
(* a timer, three libuv handles whose close callbacks join before the      *)
(* ToolExec is freed.                                                      *)
(*                                                                         *)
(* The child and the processes it leaves behind (a holder of the pipe's    *)
(* write end) are the environment, and so is the kernel: it orders the     *)
(* exit notification, the readability of the pipe and the timers as it     *)
(* likes.                                                                  *)
(***************************************************************************)
EXTENDS Naturals

CONSTANTS
  OutputCap,   \* kToolBashOutputCap
  PipeCap,     \* capacity of the kernel's pipe
  MaxWrites    \* bound: bytes written to the pipe in a behaviour

ASSUME BashAssumption ==
  OutputCap \in Nat /\ PipeCap \in Nat \ {0} /\ MaxWrites \in Nat

Handle == {"proc", "out", "timer"}
Alive == {"running", "spared"}

VARIABLES
  child,        \* "none", "running", "spared" (running, a kill of it was
                \* refused), "dead" (exit_cb is due) or "reaped"
  status,       \* how it ended: "none", "zero", "nonzero" or "signal"
  holder,       \* another process holds the write end
  pipe,         \* bytes in the pipe
  written,      \* history: bytes ever written to it
  handle,       \* per handle: "none", "open", "closing", "closed", "twice"
  armed,        \* what the timer is armed for: "no", "timeout" or "grace"
  reading,      \* uv_read_start succeeded
  output, dropped, nuls,  \* bytes kept, over the cap, and NULs removed
  exited, pipe_done, timed_out, canceled, done_fired,
  timer_closing, grace_armed, grace_forced,
  closes_done, closes_expected,
  exec,         \* "none", "returned" (the turn holds it), "silent" or "freed"
  dones,        \* history: how often the done callback fired
  result        \* what it was given: "none", "ok" or "error"

envVars   == <<child, status, holder, pipe, written>>
outVars   == <<output, dropped, nuls>>
flagVars  == <<exited, pipe_done, timed_out, canceled, timer_closing,
               grace_armed, grace_forced>>
closeVars == <<closes_done, closes_expected>>
doneVars  == <<done_fired, exec, dones, result>>
vars == <<envVars, handle, armed, reading, outVars, flagVars, closeVars, doneVars>>

Init ==
  /\ child = "none" /\ status = "none" /\ holder = FALSE /\ pipe = 0 /\ written = 0
  /\ handle = [h \in Handle |-> "none"] /\ armed = "no" /\ reading = FALSE
  /\ output = 0 /\ dropped = 0 /\ nuls = 0
  /\ exited = FALSE /\ pipe_done = FALSE /\ timed_out = FALSE /\ canceled = FALSE
  /\ timer_closing = FALSE /\ grace_armed = FALSE /\ grace_forced = FALSE
  /\ closes_done = 0 /\ closes_expected = 0
  /\ done_fired = FALSE /\ exec = "none" /\ dones = 0 /\ result = "none"

---------------------------------------------------------------------------
(* bash_execute. *)

(* uv_close: libuv aborts the program if the handle is closing already. *)
UvClose(hs) ==
  handle' = [h \in Handle |-> IF h \notin hs THEN handle[h]
                              ELSE IF handle[h] = "open" THEN "closing" ELSE "twice"]

(* A setup step failed: the result is fired inline, the handles registered *)
(* by then (hs, closes_expected of them) close and the join stays silent.  *)
SetupFails(hs) ==
  /\ exec = "none"
  /\ handle' = [h \in Handle |-> IF h \in hs THEN "closing" ELSE "none"]
  /\ done_fired' = TRUE /\ dones' = dones + 1 /\ result' = "error"

(* Bad arguments, no pipe or no pipe handle: nothing is left behind. *)
RefuseAtOnce ==
  /\ SetupFails({})
  /\ exec' = "freed"
  /\ UNCHANGED <<envVars, armed, reading, outVars, flagVars, closeVars>>

(* uv_pipe_open or uv_timer_init fails. *)
PipeOpenFails ==
  /\ SetupFails({"out"})
  /\ exec' = "silent"
  /\ closes_expected' = 1
  /\ UNCHANGED <<envVars, armed, reading, outVars, flagVars, closes_done>>

(* Mutant: the process handle is not counted. *)
SpawnFailsTwoCloses ==
  /\ SetupFails(Handle)
  /\ exec' = "silent"
  /\ closes_expected' = 2
  /\ timer_closing' = TRUE
  /\ UNCHANGED <<envVars, armed, reading, outVars, exited, pipe_done, timed_out, canceled,
                 grace_armed, grace_forced, closes_done>>

(* uv_spawn fails: it registers the process handle all the same. *)
SpawnFails ==
  /\ SetupFails(Handle)
  /\ exec' = "silent"
  /\ closes_expected' = 3
  /\ timer_closing' = TRUE
  /\ UNCHANGED <<envVars, armed, reading, outVars, exited, pipe_done, timed_out, canceled,
                 grace_armed, grace_forced, closes_done>>

(* The child runs and the tool is armed: bash_arm. *)
Spawn ==
  /\ exec = "none"
  /\ child' = "running"
  /\ closes_expected' = 3
  /\ UNCHANGED <<status, holder, pipe, written, outVars, exited, timed_out, canceled,
                 timer_closing, grace_armed, grace_forced, closes_done>>

Execute ==
  /\ Spawn
  /\ handle' = [h \in Handle |-> "open"]
  /\ reading' = TRUE /\ armed' = "timeout"
  /\ exec' = "returned"
  /\ UNCHANGED <<pipe_done, done_fired, dones, result>>

(* uv_process_kill SIGKILL: a child that has already died is unaffected;   *)
(* one that runs as another user may be spared (EPERM), which is logged or *)
(* ignored.                                                                *)
Kill ==
  \/ child \in Alive /\ child' = "dead" /\ status' = "signal"
  \/ child \in Alive /\ child' = "spared" /\ UNCHANGED status
  \/ child \notin Alive /\ UNCHANGED <<child, status>>

(* bash_arm fails on uv_read_start (the pipe is closed) or uv_timer_start: *)
(* the result is fired inline and the child killed, if it has not ended by *)
(* itself and may be killed; its exit_cb ends the join.                    *)
ArmFails ==
  /\ exec = "none"
  /\ \/ child' = "dead" /\ status' \in {"zero", "nonzero", "signal"}
     \/ child' = "spared" /\ UNCHANGED status
  /\ holder' \in BOOLEAN
  /\ closes_expected' = 3
  /\ done_fired' = TRUE /\ dones' = dones + 1 /\ result' = "error"
  /\ exec' = "silent"
  /\ armed' = "no"
  /\ \/ /\ reading' = FALSE /\ pipe_done' = TRUE
        /\ handle' = [h \in Handle |-> IF h = "out" THEN "closing" ELSE "open"]
     \/ /\ reading' = TRUE /\ UNCHANGED pipe_done
        /\ handle' = [h \in Handle |-> "open"]
  /\ UNCHANGED <<pipe, written, outVars, exited, timed_out, canceled,
                 timer_closing, grace_armed, grace_forced, closes_done>>

---------------------------------------------------------------------------
(* The join. *)

(* Mutant: exit alone does not bound the wait for the pipe. *)
MaybeFinishNoGrace(ex, pd, forced, hs) ==
  /\ exited' = ex /\ pipe_done' = pd /\ grace_forced' = forced
  /\ IF ex /\ pd
     THEN timer_closing' = TRUE /\ armed' = "no" /\ UvClose(hs \cup {"timer"})
     ELSE UvClose(hs) /\ UNCHANGED <<timer_closing, armed>>
  /\ UNCHANGED grace_armed

(* bash_maybe_finish after exited, pipe_done, grace_forced became ex, pd,  *)
(* forced, and with the handles hs being closed.  If the grace timer       *)
(* cannot be started the pipe and the timer are closed at once.            *)
MaybeFinish(ex, pd, forced, hs) ==
  /\ exited' = ex
  /\ \/ /\ ex /\ pd
        /\ timer_closing' = TRUE
        /\ armed' = IF timer_closing THEN armed ELSE "no"
        /\ UvClose(hs \cup IF timer_closing THEN {} ELSE {"timer"})
        /\ pipe_done' = pd /\ grace_forced' = forced
        /\ UNCHANGED grace_armed
     \/ /\ ex /\ ~pd /\ ~grace_armed
        /\ grace_armed' = TRUE
        /\ armed' = "grace"
        /\ UvClose(hs)
        /\ pipe_done' = pd /\ grace_forced' = forced
        /\ UNCHANGED timer_closing
     \/ /\ ex /\ ~pd /\ ~grace_armed
        /\ grace_armed' = TRUE
        /\ armed' = "no"
        /\ timer_closing' = TRUE
        /\ UvClose(hs \cup {"out", "timer"})
        /\ pipe_done' = TRUE /\ grace_forced' = TRUE
     \/ /\ ~ex \/ (~pd /\ grace_armed)
        /\ UvClose(hs)
        /\ pipe_done' = pd /\ grace_forced' = forced
        /\ UNCHANGED <<timer_closing, armed, grace_armed>>

(* bash_force_pipe_close, grace_forced having become `forced`. *)
ForcePipeClose(forced) ==
  IF pipe_done
  THEN /\ grace_forced' = forced
       /\ UNCHANGED <<exited, pipe_done, timer_closing, armed, grace_armed, handle>>
  ELSE MaybeFinish(exited, TRUE, forced, {"out"})

(* Mutant: the output still in the pipe is not waited for. *)
ExitCbClosesPipe ==
  /\ child = "dead"
  /\ child' = "reaped"
  /\ MaybeFinish(TRUE, TRUE, grace_forced, IF pipe_done THEN {"proc"} ELSE {"proc", "out"})
  /\ UNCHANGED <<status, holder, pipe, written, reading, outVars, timed_out, canceled,
                 closeVars, doneVars>>

(* bash_exit_cb. *)
ExitCb ==
  /\ child = "dead"
  /\ child' = "reaped"
  /\ MaybeFinish(TRUE, pipe_done, grace_forced, {"proc"})
  /\ UNCHANGED <<status, holder, pipe, written, reading, outVars, timed_out, canceled,
                 closeVars, doneVars>>

CanRead == reading /\ handle["out"] = "open"

(* Mutant: the cap is checked before the bytes are added, not with them. *)
ReadCbPastCap(n, z) ==
  /\ CanRead
  /\ n \in 1 .. pipe /\ z \in 0 .. n
  /\ IF output < OutputCap THEN output' = output + (n - z) /\ UNCHANGED dropped
     ELSE dropped' = dropped + (n - z) /\ UNCHANGED output
  /\ nuls' = nuls + z
  /\ pipe' = pipe - n
  /\ UNCHANGED <<child, status, holder, written, handle, armed, reading, flagVars,
                 closeVars, doneVars>>

(* bash_read_cb with n bytes, z of them NULs: bash_append_output. *)
ReadCb(n, z) ==
  /\ CanRead
  /\ n \in 1 .. pipe /\ z \in 0 .. n
  /\ LET room == IF output < OutputCap THEN OutputCap - output ELSE 0
         take == IF n - z < room THEN n - z ELSE room
     IN  /\ output' = output + take
         /\ dropped' = dropped + (n - z - take)
         /\ nuls' = nuls + z
  /\ pipe' = pipe - n
  /\ UNCHANGED <<child, status, holder, written, handle, armed, reading, flagVars,
                 closeVars, doneVars>>

(* bash_read_cb at end of file: nobody holds the write end.  (A read error *)
(* is handled alike; a pipe has none.)                                     *)
ReadEof ==
  /\ CanRead
  /\ pipe = 0 /\ child \in {"dead", "reaped"} /\ ~holder
  /\ ForcePipeClose(grace_forced)
  /\ UNCHANGED <<envVars, reading, outVars, timed_out, canceled, closeVars, doneVars>>

(* bash_timeout_cb. *)
TimeoutCb ==
  /\ armed = "timeout"
  /\ armed' = "no"
  /\ IF exited THEN UNCHANGED <<timed_out, child, status>>
     ELSE timed_out' = TRUE /\ Kill
  /\ UNCHANGED <<holder, pipe, written, handle, reading, outVars, exited, pipe_done, canceled,
                 timer_closing, grace_armed, grace_forced, closeVars, doneVars>>

(* bash_grace_cb. *)
GraceCb ==
  /\ armed = "grace"
  /\ ForcePipeClose(TRUE)
  /\ UNCHANGED <<envVars, reading, outVars, timed_out, canceled, closeVars, doneVars>>

(* tools_cancel, by a turn that still holds the ToolExec. *)
ToolsCancel ==
  /\ exec = "returned" /\ dones = 0 /\ ~canceled
  /\ canceled' = TRUE
  /\ IF exited THEN ForcePipeClose(grace_forced) /\ UNCHANGED <<child, status>>
     ELSE Kill /\ UNCHANGED <<exited, pipe_done, timer_closing, armed, grace_armed,
                              grace_forced, handle>>
  /\ UNCHANGED <<holder, pipe, written, reading, outVars, timed_out, closeVars, doneVars>>

IsError == timed_out \/ canceled \/ status # "zero"

(* bash_close_cb: the last of the expected closes fires the result, unless *)
(* the setup did, and frees the ToolExec.                                  *)
CloseCb(h) ==
  /\ handle[h] = "closing"
  /\ handle' = [handle EXCEPT ![h] = "closed"]
  /\ closes_done' = closes_done + 1
  /\ IF closes_done + 1 < closes_expected THEN UNCHANGED doneVars
     ELSE /\ exec' = "freed"
          /\ done_fired' = TRUE
          /\ IF done_fired THEN UNCHANGED <<dones, result>>
             ELSE dones' = dones + 1 /\ result' = IF IsError THEN "error" ELSE "ok"
  /\ UNCHANGED <<envVars, armed, reading, outVars, flagVars, closes_expected>>

---------------------------------------------------------------------------
(* The environment: the child writes, leaves a background process behind,  *)
(* ends; that process writes and ends.                                     *)

ChildWrites ==
  /\ child \in Alive \/ holder
  /\ pipe < PipeCap /\ written < MaxWrites
  /\ pipe' = pipe + 1 /\ written' = written + 1
  /\ UNCHANGED <<child, status, holder>>

ChildForks == child \in Alive /\ holder' = TRUE /\ UNCHANGED <<child, status, pipe, written>>

ChildExits ==
  /\ child \in Alive
  /\ child' = "dead"
  /\ status' \in {"zero", "nonzero", "signal"}
  /\ UNCHANGED <<holder, pipe, written>>

HolderExits == holder /\ holder' = FALSE /\ UNCHANGED <<child, status, pipe, written>>

Environment ==
  /\ ChildWrites \/ ChildForks \/ ChildExits \/ HolderExits
  /\ UNCHANGED <<handle, armed, reading, outVars, flagVars, closeVars, doneVars>>

---------------------------------------------------------------------------
Setup == RefuseAtOnce \/ PipeOpenFails \/ SpawnFails \/ ArmFails \/ Execute

Next ==
  \/ Setup
  \/ ExitCb \/ ReadEof \/ \E n \in 1 .. PipeCap, z \in 0 .. PipeCap : ReadCb(n, z)
  \/ TimeoutCb \/ GraceCb \/ ToolsCancel
  \/ \E h \in Handle : CloseCb(h)
  \/ Environment

(* libuv delivers exits, end of file, due timers and closes.  Nothing is   *)
(* assumed of the child or of what it leaves behind.                       *)
Fairness ==
  /\ WF_vars(ExitCb)
  /\ WF_vars(ReadEof)
  /\ WF_vars(TimeoutCb)
  /\ WF_vars(GraceCb)
  /\ \A h \in Handle : WF_vars(CloseCb(h))

Spec == Init /\ [][Next]_vars /\ Fairness

---------------------------------------------------------------------------
(* Properties. *)

(* Every variable holds a value of its type; the output respects its cap. *)
TypeOK ==
  /\ child \in {"none", "running", "spared", "dead", "reaped"}
  /\ status \in {"none", "zero", "nonzero", "signal"}
  /\ holder \in BOOLEAN /\ pipe \in 0 .. PipeCap /\ written \in Nat
  /\ handle \in [Handle -> {"none", "open", "closing", "closed", "twice"}]
  /\ armed \in {"no", "timeout", "grace"} /\ reading \in BOOLEAN
  /\ output \in 0 .. OutputCap /\ dropped \in Nat /\ nuls \in Nat
  /\ exited \in BOOLEAN /\ pipe_done \in BOOLEAN /\ timed_out \in BOOLEAN
  /\ canceled \in BOOLEAN /\ done_fired \in BOOLEAN /\ timer_closing \in BOOLEAN
  /\ grace_armed \in BOOLEAN /\ grace_forced \in BOOLEAN
  /\ closes_done \in 0 .. 3 /\ closes_expected \in 0 .. 3
  /\ exec \in {"none", "returned", "silent", "freed"}
  /\ dones \in Nat /\ result \in {"none", "ok", "error"}

(* No handle is closed twice, in whatever order exit, end of file, grace,  *)
(* timeout and cancel arrive (libuv would abort the program).              *)
NeverClosedTwice == \A h \in Handle : handle[h] # "twice"

(* The ToolExec is freed when libuv has let go of all of its handles and   *)
(* not before, and no timer is armed on it.                                *)
FreedWhenDetached ==
  exec = "freed" => (\A h \in Handle : handle[h] \in {"none", "closed"}) /\ armed = "no"

(* The done callback fires once, and not before a handle that was handed   *)
(* to the turn is about to be freed: the turn may cancel until then.       *)
DoneOnce ==
  /\ dones = IF done_fired THEN 1 ELSE 0
  /\ exec = "returned" => dones = 0
  /\ exec = "freed" => dones = 1

(* The join of the three handles, by reference count, is safe in whatever  *)
(* order its callbacks come.                                               *)
JoinIsSafe == NeverClosedTwice /\ FreedWhenDetached /\ DoneOnce

(* A result that is no error is of a child that ended by itself with       *)
(* status zero, and unless it says that it stopped reading it accounts for *)
(* every byte that was written: kept, dropped because the output was full, *)
(* or a NUL removed.                                                       *)
ResultHonest ==
  /\ result = "ok" => status = "zero" /\ ~canceled /\ ~timed_out
  /\ result # "none" /\ exec = "freed" /\ child = "reaped" /\ reading =>
       canceled \/ grace_forced \/ output + dropped + nuls = written
  /\ dropped > 0 => output = OutputCap

(* Every execution ends, also of a child that never ends, that fills the   *)
(* pipe, or that leaves a process behind which does; unless a child that   *)
(* may not be killed lives on for ever.                                    *)
ExecutionEnds == ~<>[](child = "spared") => (exec # "none" ~> exec = "freed")

(* tools.h:69 of a canceled tool: "`done` still fires exactly once         *)
(* afterwards -- cancellation never suppresses the done contract".  (When  *)
(* the kill is refused, tools_cancel logs it and waits for exit_cb.)       *)
CancelFiresDone == canceled ~> dones = 1

===========================================================================
