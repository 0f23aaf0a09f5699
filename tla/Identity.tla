------------------------------ MODULE Identity ------------------------------
(***************************************************************************)
(* x/identity: binds a contributor's passkey to a wallet, once.  The       *)
(* passkey signature over (passkey, wallet) that MigrateIdentity verifies  *)
(* is the environment's choice of the pair; its nonce is not stored.       *)
(***************************************************************************)
CONSTANTS
    Passkeys,       \* contributor passkey public keys
    Wallets,        \* chain account addresses
    NoWallet,       \* no address
    GenesisAliases  \* the alias tables a genesis file may hold

VARIABLE alias      \* alias/{passkey}: wallet and whether it was migrated

StoredAlias == [wallet : Wallets \cup {NoWallet}, migrated : BOOLEAN]

NoAlias == [wallet |-> NoWallet, migrated |-> FALSE]

IdentityInit == alias \in GenesisAliases

\* the wallet a migrated passkey resolves to, NoWallet for any other
ResolveIdentity(k) == IF alias[k].migrated THEN alias[k].wallet ELSE NoWallet

\* a bug: a migrated passkey may be bound again, to another wallet
RebindingMigrate(signer, k) ==
    alias' = [alias EXCEPT ![k] = [wallet |-> signer, migrated |-> TRUE]]

MigrateIdentity(signer, k) ==
    /\ ~ alias[k].migrated
    /\ alias' = [alias EXCEPT ![k] = [wallet |-> signer, migrated |-> TRUE]]
=============================================================================
