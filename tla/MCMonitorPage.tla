---- MODULE MCMonitorPage ----
(* TLC instance of MonitorPage: a taskpool thread is named by its task. *)
EXTENDS MonitorPage

MonitorCallers == Fetches \X Metrics
====
