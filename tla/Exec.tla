--------------------------------- MODULE Exec ---------------------------------
(***************************************************************************)
(* One command run and the poll built on it: run, exec and poll of         *)
(* zyris-capkit/src/terminal/mod.rs, with drain_capped and kill_tree.      *)
(*                                                                         *)
(* An exec is a single run; a poll repeats runs with what is left of its   *)
(* budget.  The command may write, may write what a poll looks for, may    *)
(* leave a descendant that holds its output pipe, inside its process group *)
(* or out of it, and may not end by itself.  stdout and stderr behave      *)
(* alike: one pipe stands for both.                                        *)
(***************************************************************************)
EXTENDS Integers

CONSTANTS Budgets,       \* timeouts asked for; None for an exec without one
          None,
          Interval,      \* POLL_*_INTERVAL_SECS
          Cap,           \* EXEC_OUTPUT_CAP
          MaxOutput,     \* bound on the bytes of a run
          MaxLate        \* bound on the time after the budget

Codes == {0, 1}          \* exit codes, success_exit_code is 0
Killed == -1
Alive == -2

VARIABLES
    exTool,      \* "exec" or "poll"
    exBudget,    \* timeout of the call
    exAt,        \* "idle", "running", "draining", "sleeping", "done", "failed", "cancelled"
    exNow,       \* time since the call
    exWake,      \* end of the sleep between two attempts
    exChild,     \* Alive, Killed or its exit code
    exHelper,    \* a descendant with the pipe: "none", "group", "escaped"
    exPipe,      \* bytes in the pipe
    exBuf,       \* bytes collected by the drain
    exTrunc,     \* OutputAcc.truncated
    exCode, exTimedOut,   \* of this attempt
    exLast,      \* last_completed
    exMet,
    exNeedle,    \* position of what the poll looks for, 0 for none
    exWritten,   \* history: bytes written in this attempt
    exHeld,      \* history: a descendant has outlived its command
    exTries      \* history: exit code of the last command that ended by itself

exVars == <<exTool, exBudget, exAt, exNow, exWake, exChild, exHelper, exPipe, exBuf, exTrunc,
            exCode, exTimedOut, exLast, exMet, exNeedle, exWritten, exHeld, exTries>>
call == <<exTool, exBudget>>
output == <<exPipe, exBuf, exTrunc, exNeedle, exWritten>>
verdict == <<exCode, exTimedOut, exLast, exMet, exTries>>

Least(a, b) == IF a < b THEN a ELSE b

ExTypeOK ==
    /\ exTool = "poll" => exBudget # None
    /\ exBuf \in 0 .. Cap /\ exPipe \in 0 .. MaxOutput
    /\ exLast \in Codes \cup {Killed}

\* A poll clamps its budget, so that it has one and it is not zero.
ExInit ==
    /\ exTool \in {"exec", "poll"} /\ exBudget \in Budgets \cup {None}
    /\ exTool = "poll" => exBudget # None
    /\ exAt = "idle" /\ exNow = 0 /\ exWake = 0
    /\ exChild = Killed /\ exHelper = "none"
    /\ exPipe = 0 /\ exBuf = 0 /\ exTrunc = FALSE
    /\ exCode = Killed /\ exTimedOut = FALSE /\ exLast = Killed /\ exMet = FALSE
    /\ exNeedle = 0 /\ exWritten = 0 /\ exHeld = FALSE /\ exTries = Killed

Spent == exBudget # None /\ exNow >= exBudget

-------------------------------------------------------------------------------
(* run *)

\* The budget is looked at before an attempt is launched.
Launch ==
    /\ exAt = "idle" \/ (exAt = "sleeping" /\ exNow >= exWake)
    /\ exTool = "poll" => ~Spent
    /\ exAt' = "running" /\ exChild' = Alive
    /\ exPipe' = 0 /\ exBuf' = 0 /\ exTrunc' = FALSE /\ exNeedle' = 0 /\ exWritten' = 0
    /\ UNCHANGED <<call, exNow, exWake, exHelper, verdict, exHeld>>

SpawnError ==
    /\ exAt = "idle" \/ (exAt = "sleeping" /\ exNow >= exWake)
    /\ exTool = "poll" => ~Spent
    /\ exAt' = "failed"
    /\ UNCHANGED <<call, exNow, exWake, exChild, exHelper, output, verdict, exHeld>>

\* Slip: once the command is gone, what the pipe holds is all there is.
DrainDoneAtExit == exAt = "draining" /\ exPipe = 0

\* The drain task has seen the end of the pipe: nobody has it open for writing.
DrainDone == exAt = "draining" /\ exPipe = 0 /\ exHelper = "none"

Reap ==
    /\ exAt = "running" /\ exChild \in Codes
    /\ exAt' = "draining" /\ exCode' = exChild /\ exTimedOut' = FALSE /\ exTries' = exChild
    /\ exHeld' = (exHeld \/ exHelper # "none")
    /\ UNCHANGED <<call, exNow, exWake, exChild, exHelper, output, exLast, exMet>>

\* kill_tree: the process group, and what left it lives on.
KillTree(helper) == IF helper = "group" THEN "none" ELSE helper

RunTimesOut ==
    /\ exAt = "running" /\ exChild = Alive /\ Spent
    /\ exChild' = Killed /\ exHelper' = KillTree(exHelper)
    /\ exAt' = "draining" /\ exCode' = Killed /\ exTimedOut' = TRUE
    /\ exHeld' = (exHeld \/ KillTree(exHelper) # "none")
    /\ UNCHANGED <<call, exNow, exWake, output, exLast, exMet, exTries>>

\* drain_capped reads on past the cap.
Drain ==
    /\ exPipe > 0
    /\ exBuf' = Least(exBuf + exPipe, Cap)
    /\ exTrunc' = (exTrunc \/ exPipe > Cap - exBuf)
    /\ exPipe' = 0
    /\ UNCHANGED <<call, exAt, exNow, exWake, exChild, exHelper, verdict, exNeedle,
                   exWritten, exHeld>>

-------------------------------------------------------------------------------
(* The result of an attempt *)

Completed == IF exTimedOut THEN exLast ELSE exCode
Found == exNeedle # 0 /\ exNeedle <= Cap
Succeeds == (~exTimedOut /\ exCode = 0) \/ Found

ExecReturns ==
    /\ DrainDone /\ exTool = "exec"
    /\ exAt' = "done" /\ exLast' = exCode
    /\ UNCHANGED <<call, exNow, exWake, exChild, exHelper, output, exCode, exTimedOut, exMet,
                   exHeld, exTries>>

PollJudges ==
    /\ DrainDone /\ exTool = "poll"
    /\ exLast' = Completed
    /\ exMet' = Succeeds
    /\ exAt' = IF Succeeds \/ Spent THEN "done" ELSE "sleeping"
    /\ exWake' = IF Succeeds \/ Spent THEN exWake ELSE exNow + Least(Interval, exBudget - exNow)
    /\ UNCHANGED <<call, exNow, exChild, exHelper, output, exCode, exTimedOut, exHeld, exTries>>

PollGivesUp ==
    /\ exTool = "poll" /\ exAt = "sleeping" /\ exNow >= exWake /\ Spent
    /\ exAt' = "done"
    /\ UNCHANGED <<call, exNow, exWake, exChild, exHelper, output, verdict, exHeld>>

\* The caller is gone: the future is dropped, and kill_on_drop kills the command,
\* not its group.
Cancel ==
    /\ exAt \in {"running", "draining", "sleeping"}
    /\ exAt' = "cancelled"
    /\ exChild' = IF exChild = Alive THEN Killed ELSE exChild
    /\ UNCHANGED <<call, exNow, exWake, exHelper, output, verdict, exHeld>>

-------------------------------------------------------------------------------
(* External: the command, its descendant and the clock *)

Writes ==
    /\ exAt \in {"running", "draining", "sleeping", "done"}
    /\ exChild = Alive \/ exHelper # "none"
    /\ exWritten < MaxOutput
    /\ exWritten' = exWritten + 1 /\ exPipe' = exPipe + 1
    /\ exNeedle' \in (IF exNeedle = 0 THEN {0, exWritten + 1} ELSE {exNeedle})
    /\ UNCHANGED <<call, exAt, exNow, exWake, exChild, exHelper, exBuf, exTrunc, verdict, exHeld>>

Forks ==
    /\ exAt = "running" /\ exChild = Alive /\ exHelper = "none"
    /\ exHelper' \in {"group", "escaped"}
    /\ UNCHANGED <<call, exAt, exNow, exWake, exChild, output, verdict, exHeld>>

ChildExits ==
    /\ exAt = "running" /\ exChild = Alive
    /\ exChild' \in Codes
    /\ UNCHANGED <<call, exAt, exNow, exWake, exHelper, output, verdict, exHeld>>

HelperEnds ==
    /\ exHelper # "none"
    /\ exHelper' = "none"
    /\ UNCHANGED <<call, exAt, exNow, exWake, exChild, output, verdict, exHeld>>

\* A timer that is due fires, and a pipe nobody holds is read to its end, at once.
Clock ==
    /\ exAt \in {"running", "draining", "sleeping"}
    /\ exAt = "running" => exChild = Alive /\ ~Spent
    /\ exAt = "sleeping" => exNow < exWake
    /\ exAt = "draining" => exHelper # "none"
    /\ exNow < (IF exBudget = None THEN 0 ELSE exBudget) + MaxLate
    /\ exNow' = exNow + 1
    /\ UNCHANGED <<call, exAt, exWake, exChild, exHelper, output, verdict, exHeld>>

ExNext ==
    \/ Launch \/ SpawnError \/ Reap \/ RunTimesOut \/ Drain
    \/ ExecReturns \/ PollJudges \/ PollGivesUp \/ Cancel
    \/ Writes \/ Forks \/ ChildExits \/ HelperEnds \/ Clock

-------------------------------------------------------------------------------
\* The result of a run (run, drain_capped, kill_tree) and of a poll:
\*  - it holds every byte written until then, up to the cap, and says truncated
\*    exactly if there were more;
\*  - it comes within the budget, unless a descendant held the pipe of a command that
\*    was gone, and a timeout leaves nobody of the process group behind;
\*  - a poll reports the last attempt that completed, gives up only on a spent budget,
\*    and never takes the -1 of a killed attempt for an answer.
RunIsReported ==
    /\ ExTypeOK
    /\ exAt \in {"sleeping", "done"} =>
        exBuf = Least(exWritten, Cap) /\ exTrunc = (exWritten > Cap)
    /\ exAt = "done" /\ exBudget # None /\ ~exHeld => exNow <= exBudget
    /\ exAt = "draining" /\ exTimedOut => exHelper # "group"
    /\ exAt = "done" /\ exTool = "poll" =>
        /\ exLast = exTries
        /\ exMet \/ exNow >= exBudget
        /\ exMet => ~exTimedOut \/ Found
===============================================================================
