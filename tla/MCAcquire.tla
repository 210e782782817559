----------------------------- MODULE MCAcquire ------------------------------
(* The hourly job and a request of the owner after one episode, for TLC.           *)
EXTENDS Acquire

CONSTANTS job, request, spoken
=============================================================================
