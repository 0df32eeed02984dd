----------------------------- MODULE MCAttachments -----------------------------
(***************************************************************************)
(* One file and everything that can happen to it: records of different     *)
(* files share nothing but the application and its task.                   *)
(***************************************************************************)
EXTENDS Attachments
================================================================================
