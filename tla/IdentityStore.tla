---------------------------- MODULE IdentityStore ----------------------------
(***************************************************************************)
(* The Semaphore identities a browser keeps in localStorage                *)
(* (frontend/src/lib/semaphore.ts): one per wallet, the wallet that was    *)
(* used last, and the single identity an older release stored, which is    *)
(* moved into the map the first time a page touches it.                    *)
(***************************************************************************)
EXTENDS Naturals

CONSTANTS Wallets, NoWallet,
          IdentityOf, \* IdentityOf[w]: the identity the signature of w derives
          NoIdentity,
          LegacyWallets \* bound: wallets whose identity an older release stored

ASSUME IdentityStoreAssumption ==
    NoWallet \notin Wallets /\ LegacyWallets \subseteq Wallets /\ \A w \in Wallets : IdentityOf[w] # NoIdentity

VARIABLES identities,   \* IDENTITIES_MAP_KEY
          activeWallet, \* ACTIVE_WALLET_KEY
          legacy        \* LEGACY_IDENTITY_KEY and LEGACY_WALLET_KEY

storeVars == <<identities, activeWallet, legacy>>

NoLegacy == [identity |-> NoIdentity, wallet |-> NoWallet]

StoreInit ==
    /\ identities = [w \in Wallets |-> NoIdentity]
    /\ activeWallet = NoWallet
    /\ \/ legacy = NoLegacy
       \/ \E w \in LegacyWallets, tag \in LegacyWallets \cup {NoWallet} :
              /\ tag \in {w, NoWallet}
              /\ legacy = [identity |-> IdentityOf[w], wallet |-> tag]

(* migrateLegacy: an identity without a tag is dropped.                     *)
Migrated ==
    IF /\ legacy.identity # NoIdentity /\ legacy.wallet # NoWallet
       /\ identities[legacy.wallet] = NoIdentity
    THEN [identities EXCEPT ![legacy.wallet] = legacy.identity]
    ELSE identities

StoredFor(w) == IF w = NoWallet THEN NoIdentity ELSE Migrated[w]
Loaded == StoredFor(activeWallet)

CreateIdentity(w) ==
    /\ identities' = [Migrated EXCEPT ![w] = IdentityOf[w]]
    /\ activeWallet' = w
    /\ legacy' = NoLegacy

LoadIdentityForWallet(w) ==
    /\ identities' = Migrated
    /\ activeWallet' = IF StoredFor(w) = NoIdentity THEN activeWallet ELSE w
    /\ legacy' = NoLegacy

LoadIdentity ==
    /\ identities' = Migrated
    /\ legacy' = NoLegacy
    /\ UNCHANGED activeWallet

=============================================================================
