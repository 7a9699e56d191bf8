------------------------------ MODULE MCRollout ------------------------------
\* Calls over up to four environments of three databases; one is listed twice.
EXTENDS Rollout

MCName == {"dev", "staging", "prod", "test"}
\* The first migration is an initial one, which has no way back.
MCReversible == {2}
MCRegistered == {"dev", "staging", "prod"}

Three == <<"dev", "staging", "prod">>

Call(envs, strategy, size, pct) ==
  [envs |-> envs, strategy |-> strategy, size |-> size, pct |-> pct,
   verify |-> FALSE, autoRollback |-> TRUE, dryRun |-> FALSE]

MCPlans ==
  { Call(Three, "sequential", 0, 0),
    [Call(Three, "sequential", 0, 0) EXCEPT !.verify = TRUE, !.autoRollback = FALSE],
    [Call(Three, "parallel", 2, 0) EXCEPT !.verify = TRUE],
    Call(Three, "parallel", 0, 0),
    Call(Three, "rolling", 2, 0),
    Call(<<"dev", "staging", "prod", "dev">>, "rolling", 0, 0),
    Call(Three, "canary", 0, 50),
    Call(Three, "canary", 0, 0),
    Call(Three, "canary", 0, 60),
    Call(<<"dev", "prod", "dev">>, "parallel", 0, 0),
    [Call(Three, "rolling", 2, 0) EXCEPT !.dryRun = TRUE, !.verify = TRUE],
    Call(<<"dev", "test">>, "sequential", 0, 0),
    Call(<<>>, "sequential", 0, 0) }
=============================================================================
