------------------------------ MODULE MCWorker ------------------------------
(* An instance of Worker for TLC.                                          *)
EXTENDS Worker

CONSTANTS logs, pr, slack, web

MCJobs == {logs, pr}
MCPrJobs == {pr}
MCApprovers == {slack, web}
MCWebApprovers == {web}
=============================================================================
