----------------------------- MODULE MCDemoApi ------------------------------
(* The instance of DemoApi that TLC checks: two callers under the default  *)
(* name and one under its own.                                             *)
EXTENDS DemoApi, TLC

CONSTANTS ann, bob, eve

CallerValues == {ann, bob, eve}
NameValues == [c \in CallerValues |->
                 IF c = eve THEN "eve-worker" ELSE "demo-worker"]

Env(app_env, flag) == [app_env |-> app_env, live_trading_enabled |-> flag]
EnvironmentValues == {Env("UNIT", FALSE), Env("LIVE", FALSE), Env("LIVE", TRUE)}
(* The two callers of one name are interchangeable.                        *)
Symmetry == Permutations({ann, bob})
=============================================================================
