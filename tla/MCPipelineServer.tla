-------------------------- MODULE MCPipelineServer --------------------------
(* PipelineServer on a small instance: three queries are what it takes to     *)
(* close the ring of connector, querier and finisher.                        *)
EXTENDS PipelineServer, TLC

CONSTANTS q1, q2, q3, c1, c2, c3
=============================================================================
