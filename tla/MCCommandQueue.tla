--------------------------- MODULE MCCommandQueue ---------------------------
(* CommandQueue on small sets.  Two callers are in the agent's process, two *)
(* are elsewhere, one of them with a clock that is ahead; each behaviour    *)
(* has a plan of those who ask, of the runs that may be in progress, and of *)
(* the crashes there may be.                                                *)
EXTENDS CommandQueue

CONSTANTS here, more, there, late, r1, r2

MCCmds  == {here, more, there, late}
MCLocal == {here, more}
MCAhead == {late}
MCRuns  == {r1, r2}

VARIABLE plan

mcvars == <<vars, plan>>
Keep   == UNCHANGED plan

Plans ==
  { [asked |-> {here, more},  runs |-> Runs, crashes |-> 0],
    [asked |-> {here, there}, runs |-> {r1}, crashes |-> 1],
    [asked |-> {late},        runs |-> Runs, crashes |-> 1] }

MCNext ==
  \/ \E c \in Cmds :
       \/ c \in plan.asked /\ Create(c) /\ Keep
       \/ Push(c) /\ Keep
       \/ Expire(c) /\ Keep
       \/ TimerFires(c) /\ Keep
       \/ Answer(c) /\ Keep
       \/ Overtake(c) /\ Keep
       \/ SendTimeout(c) /\ Keep
       \/ TellTimeout(c) /\ Keep
  \/ TellPush /\ Keep
  \/ \E r \in Runs :
       \/ r \in plan.runs /\ Wake(r) /\ Keep
       \/ TakeNext(r) /\ Keep
       \/ Finish(r) /\ Keep
       \/ Removed(r) /\ Keep
  \/ Sync /\ Keep
  \/ Start /\ Keep
  \/ crashes < plan.crashes /\ Crash /\ Keep

MCInit == Init /\ plan \in Plans

MCSpec == MCInit /\ [][MCNext]_mcvars /\ CallerFairness
=============================================================================
