----------------------------- MODULE MCTimerMgr -----------------------------
(* TimerMgr with either once timers or repeat timers in a behaviour: the     *)
(* two kinds share only the timer thread, and both at once are too many      *)
(* states.                                                                   *)
EXTENDS TimerMgr

VARIABLE kind

MCInit == Init /\ kind \in {"once", "repeat"}

MCNext ==
    /\ Next
    /\ kind = "once" => repeatSet' = {}
    /\ kind = "repeat" => onceLst' = {}
    /\ UNCHANGED kind

MCSpec == MCInit /\ [][MCNext]_<<vars, kind>>

MCFairSpec ==
    /\ MCSpec
    /\ WF_vars(Sigalrm) /\ WF_vars(Tick) /\ WF_vars(OnceProcess) /\ WF_vars(RepeatProcess)

\* What the memory of a new timer may hold: zeroes, or left-over values.
MCZero == {<<0, 0>>}
MCGarbage == {<<0, 0>>, <<1, 3>>}

\* Under an interval timer that goes on and fair threads both kinds of timer get their
\* callbacks (DealOnceHandle, DealRepeatHandle).
TimersFire == OnceFires /\ RepeatFires
=============================================================================
