-------------------------------- MODULE Org --------------------------------
(***************************************************************************)
(* x/org: the organization registry.  An org is identified by its slot     *)
(* (FormatOrgID is injective), members by pubkey, accounts by address.     *)
(* A transaction handler either returns an error and is rolled back (a     *)
(* stuttering step here) or commits all of its writes in one step.         *)
(***************************************************************************)
EXTENDS Integers, FiniteSets, Functions

CONSTANTS
    Keys,           \* member public keys
    Addrs,          \* chain account addresses
    NoKey,          \* the empty pubkey
    NoAddr,         \* the empty address
    Capability,     \* what a leader may grant a member: contribute, moderate
    MaxSlots,       \* bound on the slot cap governance may set
    Word,           \* 2^64: amounts are uint64, the price is computed wider
    Prices,         \* base burn prices governance may set
    Percents,       \* price increases per slot, in percent
    InitBalance,    \* every account's balance at genesis
    ServingInfo,    \* hub endpoint lists with their response key
    NoInfo,         \* no endpoints published
    Configs,        \* configurations a leader may set
    TrialGrantees   \* accounts a leader may give a trial fee allowance

ASSUME OrgConstants ==
    /\ IsFiniteSet(Keys) /\ IsFiniteSet(Addrs)
    /\ NoKey \notin Keys
    /\ NoAddr \notin Addrs
    /\ MaxSlots \in Nat \ {0}
    /\ Word \in Nat \ {0}
    /\ Prices \subseteq 0 .. (Word - 1)
    /\ Percents \subseteq 0 .. (Word - 1)
    /\ InitBalance \in Nat
    /\ TrialGrantees \subseteq Addrs
    /\ Configs \subseteq [receipt : BOOLEAN, minContrib : 0 .. 100]

VARIABLES
    org,            \* org/{id}: the stored organization
    member,         \* member/{org}/{pubkey}: the member records
    orgConfig,      \* orgconfig/{id}
    nextSlot,       \* slotreg/: the next slot to hand out
    params,         \* module parameters
    bank,           \* account balances (x/bank)
    orgAccount,     \* balance of each org's derived account (x/bank)
    burned,         \* coins burned through the module account
    feegrants       \* allowances <<granter, grantee, scope>> (x/feegrant)

orgVars == <<org, member, orgConfig, nextSlot, params>>
coins == <<bank, orgAccount, burned>>
vars == <<org, member, orgConfig, nextSlot, params, bank, orgAccount, burned, feegrants>>

Slots == 0 .. (MaxSlots - 1)

Params == [base : Prices, pct : Percents, cap : 0 .. MaxSlots]

StoredOrg ==
    [status : {"NONE", "ACTIVE", "CLOSED"}, leader : Keys \cup {NoKey},
     wallet : Addrs \cup {NoAddr}, serving : Addrs \cup {NoAddr},
     info : ServingInfo \cup {NoInfo}, active : Nat]

MemberRecord == [role : {"none", "member", "leader"}, caps : SUBSET Capability]

\* the messages an allowance pays for: those of x/serve, those of a leader, or
\* any while a trial lasts
Scopes == {"serve", "leader", "trial"}

OrgConfig == [receipt : BOOLEAN, minContrib : 0 .. 100]

NoOrg == [status |-> "NONE", leader |-> NoKey, wallet |-> NoAddr,
          serving |-> NoAddr, info |-> NoInfo, active |-> 0]

NoMember == [role |-> "none", caps |-> {}]

DefaultConfig == [receipt |-> FALSE, minContrib |-> 0]

HasOrg(o) == org[o].status # "NONE"

IsActive(o) == org[o].status = "ACTIVE"

IsMember(o, k) == member[o][k].role # "none"

Members(o) == {k \in Keys : IsMember(o, k)}

\* a bug: an org without a wallet takes any signer
WalletIfAny(o, signer) == org[o].wallet # NoAddr => signer = org[o].wallet

\* signer is the org's registered, non-empty leader wallet
IsLeaderWallet(o, signer) == org[o].wallet # NoAddr /\ signer = org[o].wallet

----------------------------------------------------------------------------
(* Slot price.                                                             *)

\* the Go conversion int64(x) of a uint64
Int64(x) == IF 2 * x >= Word THEN x - Word ELSE x

\* the big.Rat multiplier of the pricing loop, in hundredths
Multiplier(pct, slot) == 100 + slot * Int64(pct)

\* computeAscendingPrice: out of range falls back to the base price
SlotPrice(p, slot) ==
    LET result == (Int64(p.base) * Multiplier(p.pct, slot)) \div 100
    IN  IF result > 0 /\ result < Word THEN result ELSE p.base

BurnHalf(price) == price \div 2

\* a bug: the odd unit of a price is lost
AcctHalfRoundedDown(price) == price \div 2

AcctHalf(price) == price - BurnHalf(price)

----------------------------------------------------------------------------
(* Transaction handlers.                                                   *)

Init ==
    /\ org = [o \in Slots |-> NoOrg]
    /\ member = [o \in Slots |-> [k \in Keys |-> NoMember]]
    /\ orgConfig = [o \in Slots |-> DefaultConfig]
    /\ nextSlot = 0
    /\ params \in {p \in Params : p.cap # 0}
    /\ bank = [a \in Addrs |-> InitBalance]
    /\ orgAccount = [o \in Slots |-> 0]
    /\ burned = 0
    /\ feegrants = {}

\* x/feegrant: GrantAllowance refuses a granter and grantee that already have
\* an allowance, of whatever scope, and the message fails with it
CanGrant(granter, grantee) ==
    \A s \in Scopes : <<granter, grantee, s>> \notin feegrants

\* what org o's account grants; the empty address is skipped
OrgGrants(o, grantee, scope) == {<<o, g, scope>> : g \in {grantee} \ {NoAddr}}

RegisterOrg(signer, leader, wallet, serving) ==
    LET o == nextSlot
        price == SlotPrice(params, o)
    IN  /\ nextSlot < params.cap
        /\ ~HasOrg(o)
        /\ \A p \in Slots : HasOrg(p) => org[p].leader # leader
        /\ bank[signer] >= price
        /\ serving # NoAddr => CanGrant(o, serving)
        /\ wallet # NoAddr => wallet # serving /\ CanGrant(o, wallet)
        /\ bank' = [bank EXCEPT ![signer] = @ - price]
        /\ burned' = burned + BurnHalf(price)
        /\ orgAccount' = [orgAccount EXCEPT ![o] = @ + AcctHalf(price)]
        /\ org' = [org EXCEPT ![o] =
                     [status |-> "ACTIVE", leader |-> leader, wallet |-> wallet,
                      serving |-> serving, info |-> NoInfo, active |-> 1]]
        /\ member' = [member EXCEPT ![o][leader] = [role |-> "leader", caps |-> {}]]
        /\ feegrants' = feegrants \cup OrgGrants(o, serving, "serve")
                                 \cup OrgGrants(o, wallet, "leader")
        /\ nextSlot' = nextSlot + 1
        /\ UNCHANGED <<orgConfig, params>>

\* a bug: a member is added again
AddMemberAgain(signer, o, k, caps) ==
    /\ HasOrg(o) /\ IsLeaderWallet(o, signer) /\ IsActive(o)
    /\ org[o].active <= Cardinality(Keys)
    /\ member' = [member EXCEPT ![o][k] = [role |-> "member", caps |-> caps]]
    /\ org' = [org EXCEPT ![o].active = @ + 1]
    /\ UNCHANGED <<orgConfig, nextSlot, params, coins, feegrants>>

AddMember(signer, o, k, caps) ==
    /\ HasOrg(o) /\ IsLeaderWallet(o, signer) /\ IsActive(o)
    /\ ~IsMember(o, k)
    /\ member' = [member EXCEPT ![o][k] = [role |-> "member", caps |-> caps]]
    /\ org' = [org EXCEPT ![o].active = @ + 1]
    /\ UNCHANGED <<orgConfig, nextSlot, params, coins, feegrants>>

\* a bug: the counter is decremented at zero
RemoveMemberBelowZero(signer, o, k) ==
    /\ HasOrg(o) /\ IsLeaderWallet(o, signer)
    /\ IsMember(o, k) /\ member[o][k].role # "leader"
    /\ IsActive(o)
    /\ member' = [member EXCEPT ![o][k] = NoMember]
    /\ org' = [org EXCEPT ![o].active = @ - 1]
    /\ UNCHANGED <<orgConfig, nextSlot, params, coins, feegrants>>

RemoveMember(signer, o, k) ==
    /\ HasOrg(o) /\ IsLeaderWallet(o, signer)
    /\ IsMember(o, k) /\ member[o][k].role # "leader"
    /\ IsActive(o)
    /\ member' = [member EXCEPT ![o][k] = NoMember]
    /\ org' = [org EXCEPT ![o].active = IF @ > 0 THEN @ - 1 ELSE @]
    /\ UNCHANGED <<orgConfig, nextSlot, params, coins, feegrants>>

\* a bug: the status of the org is not looked at
SetCapabilitiesWhenClosed(signer, o, k, caps) ==
    /\ HasOrg(o) /\ IsLeaderWallet(o, signer)
    /\ IsMember(o, k)
    /\ member' = [member EXCEPT ![o][k].caps = caps]
    /\ UNCHANGED <<org, orgConfig, nextSlot, params, coins, feegrants>>

SetMemberCapabilities(signer, o, k, caps) ==
    /\ HasOrg(o) /\ IsLeaderWallet(o, signer) /\ IsActive(o)
    /\ IsMember(o, k)
    /\ member' = [member EXCEPT ![o][k].caps = caps]
    /\ UNCHANGED <<org, orgConfig, nextSlot, params, coins, feegrants>>

\* a bug: the old leader keeps the role
TransferKeepsLeader(signer, o, newLeader, newWallet) ==
    /\ signer # newLeader
    /\ HasOrg(o) /\ IsLeaderWallet(o, signer)
    /\ IsMember(o, newLeader)
    /\ CanGrant(o, newWallet)
    /\ member' = [member EXCEPT ![o][newLeader].role = "leader"]
    /\ org' = [org EXCEPT ![o].leader = newLeader, ![o].wallet = newWallet]
    /\ feegrants' = feegrants \cup OrgGrants(o, newWallet, "leader")
    /\ UNCHANGED <<orgConfig, nextSlot, params, coins>>

\* neither the org's status nor the leaders of other orgs are looked at
TransferLeadership(signer, o, newLeader, newWallet) ==
    LET demoted == [member[o] EXCEPT ![org[o].leader].role = "member"]
        promoted == [demoted EXCEPT ![newLeader].role = "leader"]
    IN  /\ signer # newLeader
        /\ HasOrg(o) /\ IsLeaderWallet(o, signer)
        /\ IsMember(o, newLeader)
        /\ CanGrant(o, newWallet)
        /\ member' = [member EXCEPT ![o] = promoted]
        /\ org' = [org EXCEPT ![o].leader = newLeader, ![o].wallet = newWallet]
        /\ feegrants' = feegrants \cup OrgGrants(o, newWallet, "leader")
        /\ UNCHANGED <<orgConfig, nextSlot, params, coins>>

CloseOrg(signer, o) ==
    /\ HasOrg(o) /\ IsLeaderWallet(o, signer) /\ IsActive(o)
    /\ org' = [org EXCEPT ![o].status = "CLOSED"]
    /\ UNCHANGED <<member, orgConfig, nextSlot, params, coins, feegrants>>

\* a bug: an allowance that exists already is taken for the one asked for
SetServingKeyAnyGrant(signer, o, newKey) ==
    /\ HasOrg(o) /\ IsLeaderWallet(o, signer)
    /\ org' = [org EXCEPT ![o].serving = newKey]
    /\ feegrants' = IF CanGrant(o, newKey)
                    THEN feegrants \cup OrgGrants(o, newKey, "serve") ELSE feegrants
    /\ UNCHANGED <<member, orgConfig, nextSlot, params, coins>>

\* the allowance of the replaced key is left in place, so that no key returns
SetServingKey(signer, o, newKey) ==
    /\ HasOrg(o) /\ IsLeaderWallet(o, signer)
    /\ CanGrant(o, newKey)
    /\ org' = [org EXCEPT ![o].serving = newKey]
    /\ feegrants' = feegrants \cup OrgGrants(o, newKey, "serve")
    /\ UNCHANGED <<member, orgConfig, nextSlot, params, coins>>

SetServingInfo(signer, o, info) ==
    /\ HasOrg(o) /\ IsLeaderWallet(o, signer)
    /\ org' = [org EXCEPT ![o].info = info]
    /\ UNCHANGED <<member, orgConfig, nextSlot, params, coins, feegrants>>

SetOrgConfig(signer, o, cfg) ==
    /\ HasOrg(o) /\ IsLeaderWallet(o, signer)
    /\ orgConfig' = [orgConfig EXCEPT ![o] = cfg]
    /\ UNCHANGED <<org, member, nextSlot, params, coins, feegrants>>

GrantTrialAllowance(signer, o, grantee) ==
    /\ HasOrg(o) /\ IsLeaderWallet(o, signer)
    /\ CanGrant(signer, grantee)
    /\ feegrants' = feegrants \cup {<<signer, grantee, "trial">>}
    /\ UNCHANGED <<orgVars, coins>>

\* x/feegrant: a trial allowance expires, is used up or is revoked by its
\* granter; those of an org account have no limit and nobody to revoke them
TrialEnds(granter, grantee) ==
    /\ <<granter, grantee, "trial">> \in feegrants
    /\ feegrants' = feegrants \ {<<granter, grantee, "trial">>}
    /\ UNCHANGED <<orgVars, coins>>

UpdateParams(p) ==
    /\ p.cap # 0
    /\ params' = p
    /\ UNCHANGED <<org, member, orgConfig, nextSlot, coins, feegrants>>

LeaderTx ==
    \E o \in Slots, signer \in Addrs :
        \/ \E k \in Keys, caps \in SUBSET Capability :
              \/ AddMember(signer, o, k, caps)
              \/ SetMemberCapabilities(signer, o, k, caps)
        \/ \E k \in Keys : RemoveMember(signer, o, k)
        \/ \E k \in Keys, a \in Addrs : TransferLeadership(signer, o, k, a)
        \/ CloseOrg(signer, o)
        \/ \E a \in Addrs : SetServingKey(signer, o, a)
        \/ \E i \in ServingInfo : SetServingInfo(signer, o, i)
        \/ \E c \in Configs : SetOrgConfig(signer, o, c)
        \/ \E g \in TrialGrantees : GrantTrialAllowance(signer, o, g)

Next ==
    \/ \E signer \in Addrs, k \in Keys, w, s \in Addrs \cup {NoAddr} :
          RegisterOrg(signer, k, w, s)
    \/ LeaderTx
    \/ \E p \in Params : UpdateParams(p)
    \/ \E a \in Addrs, g \in TrialGrantees : TrialEnds(a, g)

Spec == Init /\ [][Next]_vars

----------------------------------------------------------------------------
(* A chain restarted from its own export: ExportGenesis then InitGenesis.  *)

\* a bug: the slot registry is not restored
RoundTripForgetsSlot ==
    /\ org' = [o \in Slots |-> [org[o] EXCEPT !.active = 0]]
    /\ orgConfig' = [o \in Slots |-> [DefaultConfig EXCEPT !.receipt = orgConfig[o].receipt]]
    /\ nextSlot' = 0
    /\ UNCHANGED <<member, params, coins, feegrants>>

\* storedToOrg and orgToStored carry no aggregate, so the counter restarts;
\* of an org's configuration InitGenesis stores serve_receipt_required only
GenesisRoundTrip ==
    /\ org' = [o \in Slots |-> [org[o] EXCEPT !.active = 0]]
    /\ orgConfig' = [o \in Slots |-> [DefaultConfig EXCEPT !.receipt = orgConfig[o].receipt]]
    /\ UNCHANGED <<member, nextSlot, params, coins, feegrants>>

RestartSpec == Init /\ [][Next \/ GenesisRoundTrip]_vars

----------------------------------------------------------------------------
(* Properties.                                                             *)

\* Every stored value has the type its Go struct gives it.
TypeOK ==
    /\ org \in [Slots -> StoredOrg]
    /\ member \in [Slots -> [Keys -> MemberRecord]]
    /\ orgConfig \in [Slots -> OrgConfig]
    /\ nextSlot \in 0 .. MaxSlots
    /\ params \in Params /\ params.cap # 0
    /\ bank \in [Addrs -> Nat]
    /\ orgAccount \in [Slots -> Nat]
    /\ burned \in Nat
    /\ feegrants \subseteq (Slots \cup Addrs) \X Addrs \X Scopes

\* Registered orgs fill the slots below nextSlot and no others: the slot
\* registry and the org store, written separately by RegisterOrg, never
\* disagree, and no org ever loses its record.
SlotsContiguous == \A o \in Slots : HasOrg(o) <=> o < nextSlot

\* The member records of an org name exactly one leader, the one its org
\* record names, whatever the order of transfers, removals and re-additions
\* ("Leaders cannot be removed unless they transfer leadership first",
\* docs/MODULES.md); TransferLeadership writes three records for it.
UniqueLeader ==
    \A o \in Slots : \A k \in Keys :
        (member[o][k].role = "leader") <=> (HasOrg(o) /\ org[o].leader = k)

\* TotalActiveMembers, kept by RegisterOrg, AddMember and RemoveMember beside
\* the records, is the number of member records of the org.
MemberCount == \A o \in Slots : org[o].active = Cardinality(Members(o))

\* The counter restarts from 0 when a chain is restored from an export, and
\* RemoveMember must then not take it below zero (it is a uint64): it never
\* exceeds the number of member records and never wraps.
MemberCountBounded ==
    \A o \in Slots : org[o].active \in 0 .. Cardinality(Members(o))

\* Registration fees are conserved and half of each is burned: what accounts,
\* org accounts and the burn hold adds up to the genesis supply, and the org
\* accounts are ahead of the burn by at most the odd unit of each fee.
FeesConserved ==
    LET inAccounts == SumFunctionOnSet(bank, Addrs)
        inOrgs == SumFunctionOnSet(orgAccount, Slots)
    IN  /\ inAccounts + inOrgs + burned = InitBalance * Cardinality(Addrs)
        /\ inOrgs - burned \in 0 .. nextSlot

\* The keys an org currently relies on can act at the org's expense: its leader
\* wallet holds an allowance of the org account for the messages of a leader,
\* its serving key one for those of x/serve, however often either was rotated
\* (grantLeaderFeegrant, grantServingFeegrant).
AuthoritiesSponsored ==
    \A o \in Slots : HasOrg(o) =>
        /\ OrgGrants(o, org[o].wallet, "leader") \subseteq feegrants
        /\ OrgGrants(o, org[o].serving, "serve") \subseteq feegrants

\* The leader wallet and the serving key of an org are never one account: the
\* KEY-SEPARATION that requireServingKeySigner and requireLeaderWallet rely on.  No
\* handler compares the two; a second allowance for one account is what is refused.
AuthoritiesSeparate ==
    \A o \in Slots : org[o].wallet # NoAddr => org[o].serving # org[o].wallet

\* A closed org stays closed and its roster is frozen: nobody joins, leaves
\* or gains a capability ("permanently closed", x/org/docs/TOPOLOGY.md).
ClosedRosterFrozen ==
    [][\A o \in Slots : org[o].status = "CLOSED" =>
          /\ org'[o].status = "CLOSED"
          /\ org'[o].active = org[o].active
          /\ \A k \in Keys : /\ (member'[o][k].role = "none") <=> (member[o][k].role = "none")
                             /\ member'[o][k].caps = member[o][k].caps]_vars

\* An org registered without a leader wallet is beyond everyone's reach: no
\* message can change it, its members or its configuration ("no org-decision
\* message can be authorized", GetLeaderWallet).
WalletlessOrgFrozen ==
    [][\A o \in Slots : (HasOrg(o) /\ org[o].wallet = NoAddr) =>
          /\ org'[o] = org[o]
          /\ member'[o] = member[o]
          /\ orgConfig'[o] = orgConfig[o]]_vars
=============================================================================
