-------------------------------- MODULE MCGate --------------------------------
(* Small instances of MetaGate. *)
EXTENDS MetaGate

CONSTANTS w1, w2, w3, t1

\* The request of a caller returns, whatever Meta answers, the gate refuses or
\* the slot timer decides.  Nothing tells callers apart: one stands for all.
Returned == pc[w1] # "idle" ~> pc[w1] = "idle"
===============================================================================
