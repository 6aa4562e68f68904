--------------------------- MODULE SecretKeyFile ----------------------------
(***************************************************************************)
(* The first boots of processes that share data/ (harness/secrets_store.py,*)
(* _load_or_create_key): each finds the key file or publishes a key of its *)
(* own, by a hard link to a complete temporary file, or, where the file    *)
(* system has no hard links, by creating the file exclusively and filling  *)
(* it. All secrets and session cookies hang on this one key.               *)
(***************************************************************************)
CONSTANTS
    Process,    \* boots; each draws a key of its own
    NoKey,      \* no file
    HalfKey     \* an empty or short file

ASSUME KeyAssumption ==
    NoKey \notin Process /\ HalfKey \notin Process /\ NoKey # HalfKey

VARIABLES
    keyFile,    \* whose key data/secret.key holds
    hardLinks,  \* the file system has hard links
    step,       \* of each boot
    key         \* the key that a boot has ended with

keyFileVars == <<keyFile, hardLinks, step, key>>

KeyFileInit ==
    /\ keyFile = NoKey
    /\ hardLinks \in BOOLEAN
    /\ step = [p \in Process |-> "check"]
    /\ key = [p \in Process |-> NoKey]

-----------------------------------------------------------------------------
Goes(p, s) == step' = [step EXCEPT ![p] = s]

(* os.path.exists                                                          *)
Checks(p) ==
    /\ step[p] = "check"
    /\ Goes(p, IF keyFile = NoKey THEN "publish" ELSE "read")
    /\ UNCHANGED <<keyFile, hardLinks, key>>

Publishes(p) ==
    /\ keyFile' = p
    /\ key' = [key EXCEPT ![p] = p]
    /\ Goes(p, "booted")

(* Mutant: the complete file is moved into place, as os.replace does.      *)
LinksOver(p) ==
    /\ step[p] = "publish" /\ hardLinks
    /\ Publishes(p)
    /\ UNCHANGED hardLinks

(* os.link, which fails if the file exists.                                *)
Links(p) ==
    /\ step[p] = "publish" /\ hardLinks
    /\ IF keyFile = NoKey THEN Publishes(p)
       ELSE Goes(p, "read") /\ UNCHANGED <<keyFile, key>>
    /\ UNCHANGED hardLinks

(* _create_key_exclusive                                                   *)
Creates(p) ==
    /\ step[p] = "publish" /\ ~hardLinks
    /\ IF keyFile = NoKey THEN keyFile' = HalfKey /\ Goes(p, "fill")
       ELSE Goes(p, "read") /\ UNCHANGED keyFile
    /\ UNCHANGED <<hardLinks, key>>

Fills(p) ==
    /\ step[p] = "fill"
    /\ Publishes(p)
    /\ UNCHANGED hardLinks

(* _read_key, again and again until the file is complete.                  *)
Reads(p) ==
    /\ step[p] = "read" /\ keyFile # HalfKey
    /\ key' = [key EXCEPT ![p] = keyFile]
    /\ Goes(p, "booted")
    /\ UNCHANGED <<keyFile, hardLinks>>

(* Or until two seconds have passed.                                       *)
GivesUp(p) ==
    /\ step[p] = "read" /\ keyFile = HalfKey
    /\ Goes(p, "failed")
    /\ UNCHANGED <<keyFile, hardLinks, key>>

Dies(p) ==
    /\ step[p] # "failed"
    /\ Goes(p, "failed")
    /\ key' = [key EXCEPT ![p] = NoKey]
    /\ UNCHANGED <<keyFile, hardLinks>>

Reboots(p) ==
    /\ step[p] = "failed"
    /\ Goes(p, "check")
    /\ UNCHANGED <<keyFile, hardLinks, key>>

KeyFileNext ==
    \E p \in Process :
        \/ Checks(p) \/ Links(p) \/ Creates(p) \/ Fills(p) \/ Reads(p)
        \/ GivesUp(p) \/ Dies(p) \/ Reboots(p)

KeyFileSpec == KeyFileInit /\ [][KeyFileNext]_keyFileVars

-----------------------------------------------------------------------------
(* What must hold.                                                         *)

(* However first boots overlap, die and are tried again, those that get    *)
(* through hold one complete key, which is in the file as long as one of   *)
(* them lives. With hard links no boot ever sees an incomplete one.        *)
OneKey ==
    /\ \A p \in Process : step[p] = "booted" => key[p] = keyFile /\ keyFile \in Process
    /\ \A p, q \in Process : step[p] = "booted" /\ step[q] = "booted" => key[p] = key[q]
    /\ hardLinks => keyFile # HalfKey

=============================================================================
