------------------------------ MODULE MCExport ------------------------------
(***************************************************************************)
(* Loads for module Export: what the master answers, on an empty fid table;*)
(* more slow requests than buffers or slaves; slow requests, one of which  *)
(* is flushed; one that is flushed twice; and an open and what follows.    *)
(***************************************************************************)
EXTENDS Export

Load(q, s, f, fids, o) == [quick |-> q, slow |-> s, flush |-> f, fids |-> fids, open |-> o]

MCLoads == {Load(4, 0, 0, {}, FALSE), Load(0, 3, 0, {1}, TRUE), Load(0, 2, 1, {1}, TRUE),
            Load(0, 1, 2, {1}, TRUE), Load(0, 2, 1, {1}, FALSE)}

MCFlushLoad == {Load(0, 1, 1, {1}, TRUE)}

=============================================================================
