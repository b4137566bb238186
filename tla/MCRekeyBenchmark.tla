-------------------------- MODULE MCRekeyBenchmark --------------------------
(* TLC instances of RekeyBenchmark.                                        *)
EXTENDS RekeyBenchmark

Limits == <<"default", "64K">>

\* A matched pair of one workload; a repeated RTT; the bulk
\* workload without diagnoses.
SmallPlans ==
    {[rtts |-> <<20>>, workloads |-> <<"interactive">>, limits |-> Limits, diagnose |-> TRUE],
     [rtts |-> <<0, 0>>, workloads |-> <<"bulk">>, limits |-> <<"64K">>, diagnose |-> TRUE],
     [rtts |-> <<0>>, workloads |-> <<"bulk">>, limits |-> Limits, diagnose |-> FALSE]}
=============================================================================
