---------------------------- MODULE DesktopShared ----------------------------
(***************************************************************************)
(* The constants that several parts of the program share.                  *)
(***************************************************************************)
CONSTANTS None,      \* no value
          Computer   \* the computers of the account
=============================================================================
