----------------------------- MODULE MCPipeline -----------------------------
EXTENDS Pipeline

Content(good, bad) == [d \in good \cup bad |-> IF d \in bad THEN "bad" ELSE "good"]

\* No order at all, or two bad days whose alerts exceed the maximum of one.
MCFiles == {Content({}, {}), Content({}, {1, 2})}

\* The full plan, and one of the steps that read what others write.
MCPlans == {AllSteps, <<"build_metric_daily">>}
=============================================================================
