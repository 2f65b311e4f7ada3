-------------------------- MODULE MCBackgroundWork --------------------------
(***************************************************************************)
(* Two jobs and one worker of two slots; or two processes that embed six   *)
(* chunks, of which two have the same text.  The ids are not in the order  *)
(* of the hashes.  Three chunks come while processes embed.                *)
(***************************************************************************)
EXTENDS BackgroundWork, MCJobQueue

MCSha == <<5, 1, 4, 2, 1, 3>>
MCCorpora == {{}, {1, 2, 3}}
=============================================================================
