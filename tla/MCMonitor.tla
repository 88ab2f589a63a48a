----------------------------- MODULE MCMonitor ------------------------------
(* Model-checking instances of the readers-writers monitor. *)
EXTENDS MonitorProps, TLC

\* The threads run the same code: permuting them changes nothing.  Used only
\* by the runs that check no liveness.
ThreadSymmetry == Permutations(Threads)
=============================================================================
