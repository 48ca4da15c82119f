------------------------------ MODULE Accounts ------------------------------
(***************************************************************************)
(* The SPL token accounts that instructions may name.                      *)
(***************************************************************************)
CONSTANTS
    TokenAccounts,  \* their addresses
    mint            \* the mint of each of them

=============================================================================
