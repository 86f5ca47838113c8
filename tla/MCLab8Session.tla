--------------------------- MODULE MCLab8Session ---------------------------
(***************************************************************************)
(* One session over two directories.  The word the user echoes is QUIT     *)
(* when it comes back and is sent as a query; the replies that are no      *)
(* query come back from everything else.                                   *)
(***************************************************************************)
EXTENDS Lab8Session

MCEchoed == {"QUIT"}
============================================================================
