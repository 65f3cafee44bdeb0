----------------------------- MODULE MCJobsPool -----------------------------
(* Two workers; the caller uses all of the pool or only the test's part.   *)
EXTENDS JobsPool

AllCalls == {"start", "stop", "cleanup", "wait"}
TestCalls == {"start", "wait"}
=============================================================================
