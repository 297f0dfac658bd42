---------------------------- MODULE DeviceTokens ----------------------------
(***************************************************************************)
(* The device-token store (src/tokens.go).  Tokens live in memory and in   *)
(* one file that every mint and every revoke rewrites whole under the      *)
(* store's lock, so each operation is one step with two outcomes: the      *)
(* write succeeded, or it failed and the change in memory was rolled back. *)
(*                                                                         *)
(* A start whose read of the file fails leaves the store empty with        *)
(* loadErr set: "missing" (no file yet) still allows writes, "broken"      *)
(* (unreadable or corrupt) blocks them.                                    *)
(***************************************************************************)
EXTENDS Integers, FiniteSets

CONSTANT Devices \* the ids mint may draw (random in the code: never drawn twice)

VARIABLES
    tokens,   \* ids of the tokens in memory
    tokFile,  \* ids in the token file
    hasFile,  \* the token file exists
    loadErr,  \* "none", "missing" or "broken", set at start and never cleared
    minted    \* history: ids drawn so far

tokVars == <<tokens, tokFile, hasFile, loadErr, minted>>

TokTypeOK ==
    /\ tokens \in SUBSET Devices
    /\ tokFile \in SUBSET Devices
    /\ hasFile \in BOOLEAN
    /\ loadErr \in {"none", "missing", "broken"}
    /\ minted \in SUBSET Devices

TokInit ==
    /\ tokens = {}
    /\ tokFile = {} /\ hasFile = FALSE
    /\ loadErr = "missing"
    /\ minted = {}

\* Mutant: writes whatever the load found.
SavesAlways == TRUE

\* saveLocked may write: a store that could not read its file never overwrites it.
MaySave == loadErr # "broken"

\* One rewrite of the file with the given content; a failed one leaves memory and file alone.
SaveTokens(new, saved) ==
    IF saved
    THEN /\ MaySave
         /\ tokens' = new
         /\ tokFile' = new
         /\ hasFile' = TRUE
    ELSE UNCHANGED <<tokens, tokFile, hasFile>>

Mint(d, saved) ==
    /\ d \notin minted
    /\ minted' = minted \cup {d}
    /\ SaveTokens(tokens \cup {d}, saved)
    /\ UNCHANGED loadErr

RevokeToken(d, saved) ==
    /\ d \in tokens
    /\ SaveTokens(tokens \ {d}, saved)
    /\ UNCHANGED <<loadErr, minted>>

\* newTokenStore at process start.
LoadTokens(readable) ==
    /\ tokens' = IF readable THEN tokFile ELSE {}
    /\ loadErr' = IF ~readable THEN "broken"
                  ELSE IF hasFile THEN "none" ELSE "missing"
    /\ UNCHANGED <<tokFile, hasFile, minted>>

-----------------------------------------------------------------------------
\* A token leaves the file only by a revoke that found it in memory: a store that failed to
\* load its file never rewrites it from the empty list it started with.
TokenLostOnlyByRevoke ==
    [][\A d \in tokFile : d \notin tokFile' => d \in tokens]_tokVars

=============================================================================
