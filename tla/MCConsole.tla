------------------------------ MODULE MCConsole -----------------------------
(***************************************************************************)
(* A small instance for TLC of the five modules about the console: who may *)
(* use it, and what its server keeps on the disk. They share no state, so  *)
(* that a behaviour moves one of them and leaves the others as they start: *)
(* part says which.                                                        *)
(*                                                                         *)
(* The accounts: a local name that the directory knows in another          *)
(* spelling, and a GitHub row that an older version has left unlinked. The *)
(* catalog: two apps, with a schedule for Friday to Sunday or without one. *)
(***************************************************************************)
EXTENDS Accounts, LoginGuard, ApiKeys, AppCatalog, SecretKeyFile, TLC

CONSTANTS ann, dir, git, g1, g2, shop, docs, shopFile, docsFile

VARIABLE part

allVars == <<vars, guardVars, keyVars, catalogVars, keyFileVars, part>>

NameOf == (ann :> "Ann") @@ (dir :> "ann") @@ (git :> "github:ann")
FoldedName == (ann :> "ann") @@ (dir :> "ann") @@ (git :> "github:ann")

FileOf == (shop :> shopFile) @@ (docs :> docsFile)
Schedules == {NoCron, <<5, 7, 0>>}

TwoIds == Permutations({g1, g2})

MCInit ==
    /\ part \in {"accounts", "guard", "keys", "catalog", "keyfile"}
    /\ Init /\ GuardInit /\ KeysInit /\ CatalogInit /\ KeyFileInit
    /\ part # "accounts" => Users = {}
    /\ part # "keys" => standing = [u \in Owner |-> "admin"] /\ owner = [k \in ApiKey |-> NoOwner]
    /\ part # "keyfile" => hardLinks

MCNext ==
    /\ part' = part
    /\ \/ /\ part = "accounts" /\ Next
          /\ UNCHANGED <<guardVars, keyVars, catalogVars, keyFileVars>>
       \/ /\ part = "guard" /\ GuardNext
          /\ UNCHANGED <<vars, keyVars, catalogVars, keyFileVars>>
       \/ /\ part = "keys" /\ KeysNext
          /\ UNCHANGED <<vars, guardVars, catalogVars, keyFileVars>>
       \/ /\ part = "catalog" /\ CatalogNext
          /\ UNCHANGED <<vars, guardVars, keyVars, keyFileVars>>
       \/ /\ part = "keyfile" /\ KeyFileNext
          /\ UNCHANGED <<vars, guardVars, keyVars, catalogVars>>

MCSpec == MCInit /\ [][MCNext]_allVars

=============================================================================
