---------------------------- MODULE MCWalletTool ----------------------------
(***************************************************************************)
(* WalletTool for TLC: command lines of up to three arguments, each a      *)
(* switch, the empty string, or one of two methods.                        *)
(***************************************************************************)
EXTENDS WalletTool

MCMethods == {"info", "create"}
=============================================================================
