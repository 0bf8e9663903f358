----------------------------- MODULE StateFile -----------------------------
(***************************************************************************)
(* What the runtime adapters' JSON state files share.  write_text opens    *)
(* the file, which empties it, and writes it in a second step; whoever     *)
(* reads in between, or after a crash there, finds a file that does not    *)
(* parse.                                                                  *)
(***************************************************************************)
CONSTANTS
    None,  \* Python's None
    Torn   \* a file that does not parse
=============================================================================
