---------------------------- MODULE MCIBQtSession ----------------------------
(* Values for the model checker: versions 37 (too old), 69 (bare client     *)
(* id) and 70 (START_API).                                                  *)
EXTENDS IBQtSession
================================================================================
