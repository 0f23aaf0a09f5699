----------------------------- MODULE Bandwidth ------------------------------
(***************************************************************************)
(* x/bandwidth: how many serve entries an org may submit for an epoch.     *)
(* The cap of an (org, epoch) is fixed when its state is first created.    *)
(* The memory half of the state is left out: no code in the application    *)
(* calls ConsumeMemoryBandwidth, so MemoryUsed is always 0.                *)
(***************************************************************************)
EXTENDS Integers

CONSTANTS
    Orgs,           \* registered orgs
    EpochIds,       \* epoch numbers a batch may name
    Signers,        \* accounts that sign transactions
    LeaderKeys,     \* public keys recorded for org leaders
    Leader,         \* Leader[o]: the member record with the role "leader"
    ServeCaps,      \* values of the serve cap, by parameter or override
    DefaultServeCap \* DefaultServeCapPerEpoch at genesis

ASSUME BandwidthConstants ==
    /\ EpochIds \subseteq Nat
    /\ Leader \in [Orgs -> LeaderKeys]
    /\ ServeCaps \subseteq Nat
    /\ DefaultServeCap \in ServeCaps

VARIABLES
    bandwidth,      \* state/{org}/{epoch}
    override,       \* override/{org}
    capParam        \* the parameter DefaultServeCapPerEpoch

bandwidthVars == <<bandwidth, override, capParam>>

NoState == [stored |-> FALSE, used |-> 0, cap |-> 0]

NoOverride == [stored |-> FALSE, cap |-> 0]

BandwidthInit ==
    /\ bandwidth = [s \in Orgs \X EpochIds |-> NoState]
    /\ override = [o \in Orgs |-> NoOverride]
    /\ capParam = DefaultServeCap

\* a bug: the stored cap is recomputed on every use
RecomputedState(o, e) ==
    [stored |-> TRUE, used |-> bandwidth[<<o, e>>].used,
     cap |-> IF override[o].stored THEN override[o].cap ELSE capParam]

GetOrInitBandwidthState(o, e) ==
    IF bandwidth[<<o, e>>].stored THEN bandwidth[<<o, e>>]
    ELSE [stored |-> TRUE, used |-> 0,
          cap |-> IF override[o].stored THEN override[o].cap ELSE capParam]

\* a bug: a batch is refused only once the cap has been reached
ConsumePastCap(o, e, n) ==
    LET state == GetOrInitBandwidthState(o, e) IN
    /\ state.used < state.cap
    /\ bandwidth' = [bandwidth EXCEPT ![<<o, e>>] = [state EXCEPT !.used = @ + n]]

ConsumeServeBandwidth(o, e, n) ==
    LET state == GetOrInitBandwidthState(o, e) IN
    /\ state.used + n <= state.cap
    /\ bandwidth' = [bandwidth EXCEPT ![<<o, e>>] = [state EXCEPT !.used = @ + n]]

\* IsLeader looks the signing account up among the org's member public keys
SetBandwidthOverride(signer, o, cap) ==
    /\ signer = Leader[o]
    /\ override' = [override EXCEPT ![o] = [stored |-> TRUE, cap |-> cap]]
    /\ UNCHANGED <<bandwidth, capParam>>

UpdateBandwidthParams(cap) ==
    /\ capParam' = cap
    /\ UNCHANGED <<bandwidth, override>>

\* no state, override or parameter is exported
BandwidthRestart ==
    /\ bandwidth' = [s \in Orgs \X EpochIds |-> NoState]
    /\ override' = [o \in Orgs |-> NoOverride]
    /\ capParam' = DefaultServeCap

BandwidthNext ==
    \/ \E signer \in Signers, o \in Orgs, cap \in ServeCaps :
          SetBandwidthOverride(signer, o, cap)
    \/ \E cap \in ServeCaps : UpdateBandwidthParams(cap)

BandwidthTypeOK ==
    /\ bandwidth \in [Orgs \X EpochIds -> [stored : BOOLEAN, used : Nat, cap : {0} \cup ServeCaps]]
    /\ override \in [Orgs -> [stored : BOOLEAN, cap : {0} \cup ServeCaps]]
    /\ capParam \in ServeCaps
=============================================================================
