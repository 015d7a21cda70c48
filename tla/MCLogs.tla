-------------------------------- MODULE MCLogs --------------------------------
(* Standard output and standard error, with more lines than the log can hold.  *)
EXTENDS Logs
=============================================================================
