----------------------------- MODULE OrgProofs -----------------------------
(***************************************************************************)
(* Theorems about Org, for all sets of keys and accounts and every slot    *)
(* bound.  UniqueLeader and SlotsContiguous are not inductive on their     *)
(* own: registering an org must not find leftovers of an earlier one in    *)
(* its slot, and a registered org must name a real key.  RegistryInv adds  *)
(* both facts.                                                             *)
(***************************************************************************)
EXTENDS Org, SumTheorems

\* provers of a leaf that names none
USE ZenonT(30), SMTT(30)

\* A slot that was never registered holds no org and no member record, and a
\* registered org names one of the keys as its leader.
CleanSlots ==
    \A o \in Slots :
        /\ ~HasOrg(o) => org[o] = NoOrg /\ member[o] = [k \in Keys |-> NoMember]
        /\ HasOrg(o) => org[o].leader \in Keys

RegistryInv == TypeOK /\ SlotsContiguous /\ CleanSlots /\ UniqueLeader

----------------------------------------------------------------------------

\* The price of a slot is a natural number, and so are its two halves, which
\* add up to it (ComputeSlotPrice and the split in RegisterOrg).
LEMMA PriceType ==
    ASSUME NEW p \in Params, NEW s \in Slots
    PROVE  LET price == SlotPrice(p, s)
           IN  /\ price \in Nat
               /\ BurnHalf(price) \in Nat
               /\ AcctHalf(price) \in Nat
               /\ BurnHalf(price) + AcctHalf(price) = price
<1>1. p.base \in Nat /\ p.pct \in Nat
  <2>1. p.base \in Prices /\ p.pct \in Percents
    BY DEF Params
  <2>2. p.base \in 0 .. (Word - 1) /\ p.pct \in 0 .. (Word - 1)
    BY <2>1, OrgConstants, ZenonT(60)
  <2> QED
    BY <2>2, SMTT(30)
<1>2. s \in Nat
  BY OrgConstants, SMTT(30) DEF Slots
<1>3. SlotPrice(p, s) \in Nat
  <2>1. Int64(p.base) \in Int /\ Int64(p.pct) \in Int
    BY <1>1, OrgConstants, SMTT(30) DEF Int64
  <2>2. Multiplier(p.pct, s) \in Int
    BY <2>1, <1>2, SMTT(30) DEF Multiplier
  <2>3. Int64(p.base) * Multiplier(p.pct, s) \in Int
    BY <2>1, <2>2, SMTT(30)
  <2> QED
    BY <2>3, <1>1, SMTT(30) DEF SlotPrice
<1>4. \A n \in Nat : n \div 2 \in Nat /\ n - (n \div 2) \in Nat /\ (n \div 2) + (n - (n \div 2)) = n
  BY SMTT(30)
<1> QED
  BY <1>3, <1>4, ZenonT(60) DEF BurnHalf, AcctHalf

\* The wallet, the serving key and the grants of an org are well typed.
LEMMA GrantsType ==
    ASSUME NEW o \in Slots, NEW a \in Addrs \cup {NoAddr}, NEW scope \in Scopes
    PROVE  OrgGrants(o, a, scope) \subseteq (Slots \cup Addrs) \X Addrs \X Scopes
  BY SMTT(30) DEF OrgGrants

\* The genesis state satisfies the inductive invariant.
LEMMA InitRegistryInv == Init => RegistryInv
<1> SUFFICES ASSUME Init PROVE RegistryInv
  OBVIOUS
<1>1. NoOrg \in StoredOrg /\ NoMember \in MemberRecord /\ DefaultConfig \in OrgConfig
  BY SMTT(30) DEF NoOrg, NoMember, DefaultConfig, StoredOrg, MemberRecord, OrgConfig
<1>2. TypeOK
  BY <1>1, OrgConstants, SMTT(30) DEF Init, TypeOK
<1>3. \A o \in Slots : ~HasOrg(o)
  BY DEF Init, HasOrg, NoOrg
<1>4. SlotsContiguous
  BY <1>3, OrgConstants, SMTT(30) DEF SlotsContiguous, Init, Slots
<1>5. CleanSlots
  BY <1>3 DEF CleanSlots, Init
<1>6. UniqueLeader
  BY <1>3 DEF UniqueLeader, Init, NoMember
<1> QED
  BY <1>2, <1>4, <1>5, <1>6 DEF RegistryInv

\* Registration keeps the invariant.
LEMMA RegisterOrgInv ==
    ASSUME RegistryInv,
           NEW signer \in Addrs, NEW k \in Keys,
           NEW w \in Addrs \cup {NoAddr}, NEW s \in Addrs \cup {NoAddr},
           RegisterOrg(signer, k, w, s)
    PROVE  RegistryInv'
<1> DEFINE o == nextSlot
           rec == [status |-> "ACTIVE", leader |-> k, wallet |-> w,
                   serving |-> s, info |-> NoInfo, active |-> 1]
           mrec == [role |-> "leader", caps |-> {}]
<1>0. TypeOK /\ SlotsContiguous /\ CleanSlots /\ UniqueLeader
  BY DEF RegistryInv
<1>1. o \in Slots /\ params \in Params
  BY <1>0, OrgConstants, SMTT(30) DEF RegisterOrg, TypeOK, Params, Slots
<1>2. rec \in StoredOrg /\ mrec \in MemberRecord
  BY DEF StoredOrg, MemberRecord
<1>3. /\ org' = [org EXCEPT ![o] = rec]
      /\ member' = [member EXCEPT ![o][k] = mrec]
      /\ nextSlot' = o + 1
  BY DEF RegisterOrg
<1>4. ~HasOrg(o) /\ member[o] = [j \in Keys |-> NoMember]
  BY <1>0, <1>1 DEF RegisterOrg, CleanSlots
<1>5. TypeOK'
  <2>1. org' \in [Slots -> StoredOrg]
    BY <1>0, <1>1, <1>2, <1>3 DEF TypeOK
  <2>2. member' \in [Slots -> [Keys -> MemberRecord]]
    BY <1>0, <1>1, <1>2, <1>3 DEF TypeOK
  <2>3. nextSlot' \in 0 .. MaxSlots
    BY <1>1, <1>3, OrgConstants, SMTT(30) DEF Slots
  <2>4. /\ bank' \in [Addrs -> Nat]
        /\ orgAccount' \in [Slots -> Nat]
        /\ burned' \in Nat
    BY <1>0, <1>1, PriceType, SMTT(30) DEF TypeOK, RegisterOrg
  <2>5. feegrants' \subseteq (Slots \cup Addrs) \X Addrs \X Scopes
    <3>1. /\ OrgGrants(o, s, "serve") \subseteq (Slots \cup Addrs) \X Addrs \X Scopes
          /\ OrgGrants(o, w, "leader") \subseteq (Slots \cup Addrs) \X Addrs \X Scopes
      BY <1>1, GrantsType DEF Scopes
    <3>2. feegrants' = feegrants \cup OrgGrants(o, s, "serve") \cup OrgGrants(o, w, "leader")
      BY DEF RegisterOrg
    <3>3. feegrants \subseteq (Slots \cup Addrs) \X Addrs \X Scopes
      BY <1>0 DEF TypeOK
    <3> QED
      BY <3>1, <3>2, <3>3
  <2>6. orgConfig' = orgConfig /\ params' = params
    BY DEF RegisterOrg
  <2> QED
    BY <1>0, <2>1, <2>2, <2>3, <2>4, <2>5, <2>6 DEF TypeOK
<1>6. \A p \in Slots : HasOrg(p)' <=> (HasOrg(p) \/ p = o)
  BY <1>0, <1>1, <1>3 DEF HasOrg, TypeOK
<1>7. SlotsContiguous'
  BY <1>0, <1>1, <1>3, <1>6, SMTT(30) DEF SlotsContiguous, Slots
<1>8. ASSUME NEW p \in Slots
      PROVE  /\ ~HasOrg(p)' => org'[p] = NoOrg /\ member'[p] = [j \in Keys |-> NoMember]
             /\ HasOrg(p)' => org'[p].leader \in Keys
             /\ \A j \in Keys : (member'[p][j].role = "leader") <=> (HasOrg(p)' /\ org'[p].leader = j)
  <2>1. CASE p = o
    <3>1. org'[p] = rec /\ HasOrg(p)'
      BY <1>0, <1>1, <1>3, <2>1, <1>6 DEF TypeOK
    <3>2. \A j \in Keys : member'[p][j] = IF j = k THEN mrec ELSE NoMember
      BY <1>0, <1>1, <1>3, <1>4, <2>1 DEF TypeOK
    <3> QED
      BY <3>1, <3>2, SMTT(30) DEF NoMember
  <2>2. CASE p # o
    <3>1. org'[p] = org[p] /\ member'[p] = member[p]
      BY <1>0, <1>1, <1>3, <2>2 DEF TypeOK
    <3> QED
      BY <1>0, <1>6, <2>2, <3>1, SMTT(30) DEF CleanSlots, UniqueLeader
  <2> QED
    BY <2>1, <2>2
<1>9. CleanSlots' /\ UniqueLeader'
  BY <1>8 DEF CleanSlots, UniqueLeader
<1> QED
  BY <1>5, <1>7, <1>9 DEF RegistryInv

\* A step that changes neither an org's existence nor its leader, and no
\* role, keeps the invariant as soon as it keeps the types.
LEMMA SameRolesInv ==
    ASSUME RegistryInv, TypeOK', nextSlot' = nextSlot,
           \A o \in Slots : /\ HasOrg(o)' <=> HasOrg(o)
                            /\ org'[o].leader = org[o].leader
                            /\ ~HasOrg(o) => org'[o] = org[o] /\ member'[o] = member[o]
                            /\ \A k \in Keys : (member'[o][k].role = "leader") <=> (member[o][k].role = "leader")
    PROVE  RegistryInv'
  BY SMTT(30) DEF RegistryInv, SlotsContiguous, CleanSlots, UniqueLeader

\* Adding, removing and re-equipping members keep the invariant.
LEMMA RosterInv ==
    ASSUME RegistryInv, NEW signer \in Addrs, NEW o \in Slots, NEW k \in Keys,
           NEW caps \in SUBSET Capability,
           \/ AddMember(signer, o, k, caps)
           \/ SetMemberCapabilities(signer, o, k, caps)
           \/ RemoveMember(signer, o, k)
    PROVE  RegistryInv'
<1>0. TypeOK
  BY DEF RegistryInv
<1>1. CASE AddMember(signer, o, k, caps)
  <2> DEFINE mrec == [role |-> "member", caps |-> caps]
  <2>1. mrec \in MemberRecord
    BY DEF MemberRecord
  <2>2. TypeOK'
    <3>1. org' \in [Slots -> StoredOrg]
      <4>1. org[o] \in StoredOrg
        BY <1>0 DEF TypeOK
      <4>2. [org[o] EXCEPT !.active = @ + 1] \in StoredOrg
        BY <4>1, SMTT(30) DEF StoredOrg
      <4>3. org' = [org EXCEPT ![o] = [org[o] EXCEPT !.active = @ + 1]]
        BY <1>1 DEF AddMember
      <4> QED
        BY <1>0, <4>2, <4>3 DEF TypeOK
    <3>2. member' \in [Slots -> [Keys -> MemberRecord]]
      BY <1>0, <1>1, <2>1 DEF TypeOK, AddMember
    <3> QED
      BY <1>0, <1>1, <3>1, <3>2 DEF TypeOK, AddMember, coins
  <2>3. \A p \in Slots : /\ HasOrg(p)' <=> HasOrg(p)
                         /\ org'[p].leader = org[p].leader
                         /\ p # o => org'[p] = org[p] /\ member'[p] = member[p]
    BY <1>0, <1>1 DEF TypeOK, AddMember, HasOrg, StoredOrg
  <2>4. \A p \in Slots : \A j \in Keys :
            (member'[p][j].role = "leader") <=> (member[p][j].role = "leader")
    BY <1>0, <1>1 DEF TypeOK, AddMember, IsMember, MemberRecord
  <2>5. HasOrg(o) /\ nextSlot' = nextSlot
    BY <1>1 DEF AddMember
  <2> QED
    BY <2>2, <2>3, <2>4, <2>5, SameRolesInv
<1>2. CASE SetMemberCapabilities(signer, o, k, caps)
  <2>2. TypeOK'
    <3>1. member' \in [Slots -> [Keys -> MemberRecord]]
      <4>1. member[o][k] \in MemberRecord
        BY <1>0 DEF TypeOK
      <4>2. [member[o][k] EXCEPT !.caps = caps] \in MemberRecord
        BY <4>1 DEF MemberRecord
      <4>3. member' = [member EXCEPT ![o][k] = [member[o][k] EXCEPT !.caps = caps]]
        BY <1>2 DEF SetMemberCapabilities
      <4> QED
        BY <1>0, <4>2, <4>3 DEF TypeOK
    <3> QED
      BY <1>0, <1>2, <3>1 DEF TypeOK, SetMemberCapabilities, coins
  <2>3. \A p \in Slots : /\ HasOrg(p)' <=> HasOrg(p)
                         /\ org'[p] = org[p]
                         /\ p # o => member'[p] = member[p]
    BY <1>0, <1>2 DEF TypeOK, SetMemberCapabilities, HasOrg
  <2>4. \A p \in Slots : \A j \in Keys : member'[p][j].role = member[p][j].role
    BY <1>0, <1>2, SMTT(30) DEF TypeOK, SetMemberCapabilities, MemberRecord
  <2>5. HasOrg(o) /\ nextSlot' = nextSlot
    BY <1>2 DEF SetMemberCapabilities
  <2> QED
    BY <2>2, <2>3, <2>4, <2>5, SameRolesInv
<1>3. CASE RemoveMember(signer, o, k)
  <2>1. NoMember \in MemberRecord
    BY DEF MemberRecord, NoMember
  <2>2. TypeOK'
    <3>1. org' \in [Slots -> StoredOrg]
      <4> DEFINE rec == [org[o] EXCEPT !.active = IF @ > 0 THEN @ - 1 ELSE @]
      <4>1. org[o] \in StoredOrg
        BY <1>0 DEF TypeOK
      <4>2. rec \in StoredOrg
        BY <4>1, SMTT(30) DEF StoredOrg
      <4>3. org' = [org EXCEPT ![o] = rec]
        BY <1>3 DEF RemoveMember
      <4> QED
        BY <1>0, <4>2, <4>3 DEF TypeOK
    <3>2. member' \in [Slots -> [Keys -> MemberRecord]]
      BY <1>0, <1>3, <2>1 DEF TypeOK, RemoveMember
    <3> QED
      BY <1>0, <1>3, <3>1, <3>2 DEF TypeOK, RemoveMember, coins
  <2>3. \A p \in Slots : /\ HasOrg(p)' <=> HasOrg(p)
                         /\ org'[p].leader = org[p].leader
                         /\ p # o => org'[p] = org[p] /\ member'[p] = member[p]
    BY <1>0, <1>3, SMTT(30) DEF TypeOK, RemoveMember, HasOrg, StoredOrg
  <2>4. \A p \in Slots : \A j \in Keys :
            (member'[p][j].role = "leader") <=> (member[p][j].role = "leader")
    BY <1>0, <1>3 DEF TypeOK, RemoveMember, IsMember, MemberRecord, NoMember
  <2>5. HasOrg(o) /\ nextSlot' = nextSlot
    BY <1>3 DEF RemoveMember
  <2> QED
    BY <2>2, <2>3, <2>4, <2>5, SameRolesInv
<1> QED
  BY <1>1, <1>2, <1>3

\* Closing an org, and setting its serving key, endpoints, configuration or
\* allowances, keep the invariant.
LEMMA SettingsInv ==
    ASSUME RegistryInv, NEW signer \in Addrs, NEW o \in Slots,
           \/ CloseOrg(signer, o)
           \/ \E a \in Addrs : SetServingKey(signer, o, a)
           \/ \E i \in ServingInfo : SetServingInfo(signer, o, i)
           \/ \E c \in Configs : SetOrgConfig(signer, o, c)
           \/ \E g \in TrialGrantees : GrantTrialAllowance(signer, o, g)
    PROVE  RegistryInv'
<1>0. TypeOK
  BY DEF RegistryInv
<1>1. CASE CloseOrg(signer, o)
  <2>1. TypeOK'
    <3>1. org' \in [Slots -> StoredOrg]
      <4>1. org[o] \in StoredOrg
        BY <1>0 DEF TypeOK
      <4>2. [org[o] EXCEPT !.status = "CLOSED"] \in StoredOrg
        BY <4>1 DEF StoredOrg
      <4>3. org' = [org EXCEPT ![o] = [org[o] EXCEPT !.status = "CLOSED"]]
        BY <1>0, <1>1 DEF TypeOK, CloseOrg
      <4> QED
        BY <1>0, <4>2, <4>3 DEF TypeOK
    <3> QED
      BY <1>0, <1>1, <3>1 DEF TypeOK, CloseOrg, coins
  <2>2. \A p \in Slots : /\ HasOrg(p)' <=> HasOrg(p)
                         /\ org'[p].leader = org[p].leader
                         /\ p # o => org'[p] = org[p]
    BY <1>0, <1>1 DEF TypeOK, CloseOrg, HasOrg, StoredOrg
  <2>3. HasOrg(o) /\ member' = member /\ nextSlot' = nextSlot
    BY <1>1 DEF CloseOrg
  <2> QED
    BY <2>1, <2>2, <2>3, SameRolesInv
<1>2. ASSUME NEW a \in Addrs, SetServingKey(signer, o, a)
      PROVE  RegistryInv'
  <2>1. TypeOK'
    <3>1. org' \in [Slots -> StoredOrg]
      <4>1. org[o] \in StoredOrg
        BY <1>0 DEF TypeOK
      <4>2. [org[o] EXCEPT !.serving = a] \in StoredOrg
        BY <4>1 DEF StoredOrg
      <4>3. org' = [org EXCEPT ![o] = [org[o] EXCEPT !.serving = a]]
        BY <1>0, <1>2 DEF TypeOK, SetServingKey
      <4> QED
        BY <1>0, <4>2, <4>3 DEF TypeOK
    <3>2. OrgGrants(o, a, "serve") \subseteq (Slots \cup Addrs) \X Addrs \X Scopes
      BY <1>2, GrantsType DEF Scopes
    <3> QED
      BY <1>0, <1>2, <3>1, <3>2, ZenonT(60) DEF TypeOK, SetServingKey, coins
  <2>2. \A p \in Slots : /\ HasOrg(p)' <=> HasOrg(p)
                         /\ org'[p].leader = org[p].leader
                         /\ p # o => org'[p] = org[p]
    BY <1>0, <1>2 DEF TypeOK, SetServingKey, HasOrg, StoredOrg
  <2>3. HasOrg(o) /\ member' = member /\ nextSlot' = nextSlot
    BY <1>2 DEF SetServingKey
  <2> QED
    BY <2>1, <2>2, <2>3, SameRolesInv
<1>3. ASSUME NEW i \in ServingInfo, SetServingInfo(signer, o, i)
      PROVE  RegistryInv'
  <2>1. TypeOK'
    <3>1. org' \in [Slots -> StoredOrg]
      <4>1. org[o] \in StoredOrg
        BY <1>0 DEF TypeOK
      <4>2. [org[o] EXCEPT !.info = i] \in StoredOrg
        BY <4>1 DEF StoredOrg
      <4>3. org' = [org EXCEPT ![o] = [org[o] EXCEPT !.info = i]]
        BY <1>0, <1>3 DEF TypeOK, SetServingInfo
      <4> QED
        BY <1>0, <4>2, <4>3 DEF TypeOK
    <3> QED
      BY <1>0, <1>3, <3>1 DEF TypeOK, SetServingInfo, coins
  <2>2. \A p \in Slots : /\ HasOrg(p)' <=> HasOrg(p)
                         /\ org'[p].leader = org[p].leader
                         /\ p # o => org'[p] = org[p]
    BY <1>0, <1>3 DEF TypeOK, SetServingInfo, HasOrg, StoredOrg
  <2>3. HasOrg(o) /\ member' = member /\ nextSlot' = nextSlot
    BY <1>3 DEF SetServingInfo
  <2> QED
    BY <2>1, <2>2, <2>3, SameRolesInv
<1>4. ASSUME NEW c \in Configs, SetOrgConfig(signer, o, c)
      PROVE  RegistryInv'
  <2>1. c \in OrgConfig
    BY OrgConstants DEF OrgConfig
  <2>2. TypeOK'
    <3>1. orgConfig' \in [Slots -> OrgConfig]
      BY <1>0, <1>4, <2>1 DEF TypeOK, SetOrgConfig
    <3> QED
      BY <1>0, <1>4, <3>1 DEF TypeOK, SetOrgConfig, coins
  <2>3. org' = org /\ member' = member /\ nextSlot' = nextSlot
    BY <1>4 DEF SetOrgConfig
  <2> QED
    BY <2>2, <2>3, SameRolesInv DEF HasOrg
<1>5. ASSUME NEW g \in TrialGrantees, GrantTrialAllowance(signer, o, g)
      PROVE  RegistryInv'
  <2>1. TypeOK'
    BY <1>0, <1>5, OrgConstants, SMTT(30) DEF TypeOK, GrantTrialAllowance, orgVars, coins, Scopes
  <2>2. org' = org /\ member' = member /\ nextSlot' = nextSlot
    BY <1>5 DEF GrantTrialAllowance, orgVars
  <2> QED
    BY <2>1, <2>2, SameRolesInv DEF HasOrg
<1> QED
  BY <1>1, <1>2, <1>3, <1>4, <1>5

\* A transfer demotes before it promotes, so it keeps the invariant even when
\* the leader is its own successor.
LEMMA TransferInv ==
    ASSUME RegistryInv, NEW signer \in Addrs, NEW o \in Slots,
           NEW k \in Keys, NEW a \in Addrs,
           TransferLeadership(signer, o, k, a)
    PROVE  RegistryInv'
<1> DEFINE old == org[o].leader
           demoted == [member[o] EXCEPT ![old].role = "member"]
           promoted == [demoted EXCEPT ![k].role = "leader"]
           rec == [org[o] EXCEPT !.leader = k, !.wallet = a]
<1>0. TypeOK /\ SlotsContiguous /\ CleanSlots /\ UniqueLeader
  BY DEF RegistryInv
<1>1. /\ HasOrg(o) /\ IsMember(o, k)
      /\ member' = [member EXCEPT ![o] = promoted]
      /\ feegrants' = feegrants \cup OrgGrants(o, a, "leader")
      /\ UNCHANGED <<orgConfig, nextSlot, params, bank, orgAccount, burned>>
  BY DEF TransferLeadership, coins
<1>2. org' = [org EXCEPT ![o] = rec]
  BY <1>0, ZenonT(60) DEF TransferLeadership, TypeOK, StoredOrg
<1>3. old \in Keys /\ member[o] \in [Keys -> MemberRecord]
  BY <1>0, <1>1 DEF CleanSlots, TypeOK
<1>4. /\ demoted \in [Keys -> MemberRecord]
      /\ \A j \in Keys : demoted[j].role = IF j = old THEN "member" ELSE member[o][j].role
  BY <1>3 DEF MemberRecord
<1>5. /\ promoted \in [Keys -> MemberRecord]
      /\ \A j \in Keys : promoted[j].role = IF j = k THEN "leader" ELSE demoted[j].role
  <2> HIDE DEF demoted
  <2> QED
    BY <1>4 DEF MemberRecord
<1> HIDE DEF demoted, promoted
<1>6. rec \in StoredOrg /\ rec.leader = k /\ rec.status = org[o].status
  BY <1>0, ZenonT(60) DEF TypeOK, StoredOrg
<1>7. TypeOK'
  <2>1. org' \in [Slots -> StoredOrg]
    BY <1>0, <1>2, <1>6 DEF TypeOK
  <2>2. member' \in [Slots -> [Keys -> MemberRecord]]
    BY <1>0, <1>1, <1>5 DEF TypeOK
  <2>3. OrgGrants(o, a, "leader") \subseteq (Slots \cup Addrs) \X Addrs \X Scopes
    BY GrantsType DEF Scopes
  <2> QED
    BY <1>0, <1>1, <2>1, <2>2, <2>3, ZenonT(60) DEF TypeOK
<1>8. \A p \in Slots : HasOrg(p)' <=> HasOrg(p)
  BY <1>0, <1>2, <1>6 DEF HasOrg, TypeOK
<1>9. ASSUME NEW p \in Slots
      PROVE  /\ ~HasOrg(p)' => org'[p] = NoOrg /\ member'[p] = [j \in Keys |-> NoMember]
             /\ HasOrg(p)' => org'[p].leader \in Keys
             /\ \A j \in Keys : (member'[p][j].role = "leader") <=> (HasOrg(p)' /\ org'[p].leader = j)
  <2>1. CASE p = o
    <3>1. org'[p] = rec /\ member'[p] = promoted
      BY <1>0, <1>1, <1>2, <2>1 DEF TypeOK
    <3>2. HasOrg(p)'
      BY <1>1, <1>8, <2>1
    <3>3. \A j \in Keys : (promoted[j].role = "leader") <=> (j = k)
      BY <1>0, <1>1, <1>3, <1>4, <1>5, SMTT(30) DEF UniqueLeader
    <3> QED
      BY <3>1, <3>2, <3>3, <1>6, SMTT(30)
  <2>2. CASE p # o
    <3>1. org'[p] = org[p] /\ member'[p] = member[p]
      BY <1>0, <1>1, <1>2, <2>2 DEF TypeOK
    <3> QED
      BY <1>0, <1>8, <3>1, SMTT(30) DEF CleanSlots, UniqueLeader
  <2> QED
    BY <2>1, <2>2
<1> QED
  BY <1>0, <1>1, <1>7, <1>8, <1>9 DEF RegistryInv, SlotsContiguous, CleanSlots, UniqueLeader

\* What the leader wallet of org o may send.
LeaderMsg(signer, o) ==
    \/ \E k \in Keys, caps \in SUBSET Capability :
          \/ AddMember(signer, o, k, caps)
          \/ SetMemberCapabilities(signer, o, k, caps)
    \/ \E k \in Keys : RemoveMember(signer, o, k)
    \/ \E k \in Keys, a \in Addrs : TransferLeadership(signer, o, k, a)
    \/ CloseOrg(signer, o)
    \/ \E a \in Addrs : SetServingKey(signer, o, a)
    \/ \E i \in ServingInfo : SetServingInfo(signer, o, i)
    \/ \E c \in Configs : SetOrgConfig(signer, o, c)
    \/ \E g \in TrialGrantees : GrantTrialAllowance(signer, o, g)

\* a trial allowance that ends
SomeTrialEnds == \E a \in Addrs, g \in TrialGrantees : TrialEnds(a, g)

\* A leader's transaction is one of those messages about one org.
LEMMA LeaderTxMsg == LeaderTx => \E o \in Slots, signer \in Addrs : LeaderMsg(signer, o)
  BY DEF LeaderTx, LeaderMsg

\* Every transaction, and a restart from an export, keeps the invariant.
LEMMA NextRegistryInv == RegistryInv /\ [Next \/ GenesisRoundTrip]_vars => RegistryInv'
<1> SUFFICES ASSUME RegistryInv, [Next \/ GenesisRoundTrip]_vars
             PROVE  RegistryInv'
  OBVIOUS
<1>0. TypeOK
  BY DEF RegistryInv
<1>1. CASE \E signer \in Addrs, k \in Keys, w, s \in Addrs \cup {NoAddr} : RegisterOrg(signer, k, w, s)
  BY <1>1, RegisterOrgInv
<1>2. CASE LeaderTx
  <2> PICK o \in Slots, signer \in Addrs : LeaderMsg(signer, o)
    BY <1>2, LeaderTxMsg
  <2>1. {} \in SUBSET Capability
    OBVIOUS
  <2> QED
    BY <2>1, RosterInv, TransferInv, SettingsInv DEF LeaderMsg
<1>3. CASE \E p \in Params : UpdateParams(p)
  <2>1. TypeOK'
    BY <1>0, <1>3 DEF TypeOK, UpdateParams, coins
  <2>2. org' = org /\ member' = member /\ nextSlot' = nextSlot
    BY <1>3 DEF UpdateParams
  <2> QED
    BY <2>1, <2>2, SameRolesInv DEF HasOrg
<1>4. CASE GenesisRoundTrip
  <2>1. \A o \in Slots : /\ [org[o] EXCEPT !.active = 0] \in StoredOrg
                         /\ [DefaultConfig EXCEPT !.receipt = orgConfig[o].receipt] \in OrgConfig
    <3>1. ASSUME NEW o \in Slots
          PROVE  [org[o] EXCEPT !.active = 0] \in StoredOrg
      BY <1>0, ZenonT(60) DEF TypeOK, StoredOrg
    <3>2. ASSUME NEW o \in Slots
          PROVE  [DefaultConfig EXCEPT !.receipt = orgConfig[o].receipt] \in OrgConfig
      <4>1. orgConfig[o].receipt \in BOOLEAN
        BY <1>0 DEF TypeOK, OrgConfig
      <4> QED
        BY <4>1, SMTT(30) DEF OrgConfig, DefaultConfig
    <3> QED
      BY <3>1, <3>2
  <2>2. TypeOK'
    <3>1. org' \in [Slots -> StoredOrg] /\ orgConfig' \in [Slots -> OrgConfig]
      BY <2>1, <1>4 DEF GenesisRoundTrip
    <3> QED
      BY <1>0, <1>4, <3>1 DEF TypeOK, GenesisRoundTrip, coins
  <2>3. \A o \in Slots : /\ org'[o].status = org[o].status
                         /\ org'[o].leader = org[o].leader
                         /\ org[o] = NoOrg => org'[o] = org[o]
    BY <1>0, <1>4, SMTT(30) DEF GenesisRoundTrip, TypeOK, StoredOrg, NoOrg
  <2>4. member' = member /\ nextSlot' = nextSlot
    BY <1>4 DEF GenesisRoundTrip
  <2>5. \A o \in Slots : ~HasOrg(o) => org[o] = NoOrg
    BY DEF RegistryInv, CleanSlots
  <2> QED
    BY <2>2, <2>3, <2>4, <2>5, SameRolesInv DEF HasOrg
<1>5. CASE SomeTrialEnds
  <2>1. TypeOK'
    BY <1>0, <1>5 DEF TypeOK, SomeTrialEnds, TrialEnds, orgVars, coins
  <2>2. org' = org /\ member' = member /\ nextSlot' = nextSlot
    BY <1>5 DEF SomeTrialEnds, TrialEnds, orgVars
  <2> QED
    BY <2>1, <2>2, SameRolesInv DEF HasOrg
<1>6. CASE UNCHANGED vars
  <2>1. TypeOK'
    BY <1>0, <1>6 DEF TypeOK, vars
  <2>2. org' = org /\ member' = member /\ nextSlot' = nextSlot
    BY <1>6 DEF vars
  <2> QED
    BY <2>1, <2>2, SameRolesInv DEF HasOrg
<1> QED
  BY <1>1, <1>2, <1>3, <1>4, <1>5, <1>6 DEF Next, SomeTrialEnds

\* The types, the slot registry and the leadership of every org stay sound
\* through all transactions and through restarts from an export.
THEOREM RegistryCorrect == RestartSpec => [](TypeOK /\ SlotsContiguous /\ UniqueLeader)
<1>1. RegistryInv => TypeOK /\ SlotsContiguous /\ UniqueLeader
  BY DEF RegistryInv
<1> QED
  BY <1>1, InitRegistryInv, NextRegistryInv, PTL DEF RestartSpec

----------------------------------------------------------------------------
(* Registration fees.                                                      *)

\* The part of a fee an org keeps is ahead of the burned part by the odd unit.
LEMMA HalvesDiffer ==
    ASSUME NEW price \in Nat
    PROVE  AcctHalf(price) - BurnHalf(price) \in {0, 1}
  BY SMTT(30) DEF AcctHalf, BurnHalf

\* Only RegisterOrg moves coins or hands out a slot.
LEMMA CoinsStill ==
    ASSUME \/ LeaderTx \/ (\E p \in Params : UpdateParams(p)) \/ SomeTrialEnds
           \/ GenesisRoundTrip \/ UNCHANGED vars
    PROVE  UNCHANGED <<bank, orgAccount, burned, nextSlot>>
<1>1. ASSUME NEW o, NEW signer, NEW k, NEW caps
      PROVE  /\ AddMember(signer, o, k, caps) => UNCHANGED <<coins, nextSlot>>
             /\ SetMemberCapabilities(signer, o, k, caps) => UNCHANGED <<coins, nextSlot>>
             /\ RemoveMember(signer, o, k) => UNCHANGED <<coins, nextSlot>>
  BY DEF AddMember, SetMemberCapabilities, RemoveMember
<1>2. ASSUME NEW o, NEW signer, NEW k, NEW a
      PROVE  /\ TransferLeadership(signer, o, k, a) => UNCHANGED <<coins, nextSlot>>
             /\ CloseOrg(signer, o) => UNCHANGED <<coins, nextSlot>>
             /\ SetServingKey(signer, o, a) => UNCHANGED <<coins, nextSlot>>
             /\ SetServingInfo(signer, o, a) => UNCHANGED <<coins, nextSlot>>
             /\ SetOrgConfig(signer, o, a) => UNCHANGED <<coins, nextSlot>>
             /\ GrantTrialAllowance(signer, o, a) => UNCHANGED <<coins, nextSlot>>
  BY DEF TransferLeadership, CloseOrg, SetServingKey, SetServingInfo, SetOrgConfig,
         GrantTrialAllowance, orgVars
<1>3. LeaderTx => UNCHANGED <<coins, nextSlot>>
  BY <1>1, <1>2 DEF LeaderTx
<1>4. (\E p \in Params : UpdateParams(p)) \/ SomeTrialEnds \/ GenesisRoundTrip \/ UNCHANGED vars
        => UNCHANGED <<coins, nextSlot>>
  BY DEF UpdateParams, SomeTrialEnds, TrialEnds, orgVars, GenesisRoundTrip, vars, coins
<1> QED
  BY <1>3, <1>4 DEF coins

\* A registration takes the price from the signer, burns half of it and
\* credits the rest to the org's account.
LEMMA RegisterFees ==
    ASSUME RegistryInv, FeesConserved, NEW signer \in Addrs, NEW k \in Keys,
           NEW w \in Addrs \cup {NoAddr}, NEW s \in Addrs \cup {NoAddr},
           RegisterOrg(signer, k, w, s)
    PROVE  FeesConserved'
<1> DEFINE price == SlotPrice(params, nextSlot)
           inAccounts == SumFunctionOnSet(bank, Addrs)
           inOrgs == SumFunctionOnSet(orgAccount, Slots)
<1>1. nextSlot \in Slots /\ params \in Params
  BY OrgConstants, SMTT(30) DEF RegistryInv, RegisterOrg, TypeOK, Params, Slots
<1>2. /\ price \in Nat /\ BurnHalf(price) \in Nat /\ AcctHalf(price) \in Nat
      /\ BurnHalf(price) + AcctHalf(price) = price
      /\ AcctHalf(price) - BurnHalf(price) \in {0, 1}
  BY <1>1, PriceType, HalvesDiffer
<1>3. /\ bank \in [Addrs -> Nat] /\ orgAccount \in [Slots -> Nat] /\ burned \in Nat
      /\ nextSlot \in Nat
  BY <1>1, OrgConstants, SMTT(30) DEF RegistryInv, TypeOK, Slots
<1>4. /\ bank' = [bank EXCEPT ![signer] = bank[signer] - price]
      /\ orgAccount' = [orgAccount EXCEPT ![nextSlot] = orgAccount[nextSlot] + AcctHalf(price)]
      /\ burned' = burned + BurnHalf(price)
      /\ nextSlot' = nextSlot + 1
  BY DEF RegisterOrg
<1> HIDE DEF price
<1>5. IsFiniteSet(Addrs) /\ IsFiniteSet(Slots)
  BY OrgConstants, FS_Interval, SMTT(30) DEF Slots
<1>6. SumFunctionOnSet(bank', Addrs) = inAccounts + (bank'[signer] - bank[signer])
  <2>1. /\ \A a \in Addrs : bank[a] \in Int
        /\ bank'[signer] \in Int
        /\ \A a \in Addrs : a # signer => bank'[a] = bank[a]
    BY <1>2, <1>3, <1>4, SMTT(30)
  <2> QED
    BY <2>1, <1>5, SumChange
<1>7. SumFunctionOnSet(orgAccount', Slots) = inOrgs + (orgAccount'[nextSlot] - orgAccount[nextSlot])
  <2>1. /\ \A o \in Slots : orgAccount[o] \in Int
        /\ orgAccount'[nextSlot] \in Int
        /\ \A o \in Slots : o # nextSlot => orgAccount'[o] = orgAccount[o]
    BY <1>1, <1>2, <1>3, <1>4, SMTT(30)
  <2> QED
    BY <2>1, <1>1, <1>5, SumChange
<1>8. inAccounts \in Nat /\ inOrgs \in Nat
  BY <1>3, <1>5, SumNat
<1>9. /\ bank'[signer] - bank[signer] = 0 - price
      /\ orgAccount'[nextSlot] - orgAccount[nextSlot] = AcctHalf(price)
  BY <1>1, <1>2, <1>3, <1>4, SMTT(30)
<1>10. /\ inAccounts + inOrgs + burned = InitBalance * Cardinality(Addrs)
       /\ inOrgs - burned \in 0 .. nextSlot
  BY DEF FeesConserved
<1> HIDE DEF inAccounts, inOrgs
<1>11. /\ SumFunctionOnSet(bank', Addrs) + SumFunctionOnSet(orgAccount', Slots) + burned'
            = inAccounts + inOrgs + burned
       /\ SumFunctionOnSet(orgAccount', Slots) - burned' \in 0 .. nextSlot'
  BY <1>2, <1>3, <1>4, <1>6, <1>7, <1>8, <1>9, <1>10, SMTT(30)
<1> QED
  BY <1>10, <1>11 DEF FeesConserved

\* Registration fees are neither lost nor created, and half of each is burned,
\* through all transactions and through restarts from an export (RegisterOrg,
\* BurnCoins, SendCoins).
THEOREM FeesAlwaysConserved == RestartSpec => []FeesConserved
<1>1. Init => FeesConserved
  <2> SUFFICES ASSUME Init PROVE FeesConserved
    OBVIOUS
  <2>1. IsFiniteSet(Addrs) /\ IsFiniteSet(Slots) /\ Cardinality(Addrs) \in Nat
    BY OrgConstants, FS_Interval, FS_CardinalityType, SMTT(30) DEF Slots
  <2>2. SumFunctionOnSet(bank, Addrs) = InitBalance * Cardinality(Addrs)
    <3>1. \A a \in Addrs : bank[a] = IF a \in Addrs THEN InitBalance ELSE 0
      BY DEF Init
    <3>2. InitBalance \in Nat
      BY OrgConstants
    <3> QED
      BY <2>1, <3>1, <3>2, SumShares, SMTT(30)
  <2>3. SumFunctionOnSet(orgAccount, Slots) = 0
    <3>1. \A o \in Slots : orgAccount[o] = 0
      BY DEF Init
    <3> QED
      BY <2>1, <3>1, SumZero
  <2>4. burned = 0 /\ nextSlot = 0 /\ InitBalance * Cardinality(Addrs) \in Nat
    BY <2>1, OrgConstants, SMTT(30) DEF Init
  <2> QED
    BY <2>2, <2>3, <2>4, SMTT(30) DEF FeesConserved
<1>2. RegistryInv /\ FeesConserved /\ [Next \/ GenesisRoundTrip]_vars => FeesConserved'
  <2> SUFFICES ASSUME RegistryInv, FeesConserved, [Next \/ GenesisRoundTrip]_vars
               PROVE  FeesConserved'
    OBVIOUS
  <2>1. CASE \E signer \in Addrs, k \in Keys, w, s \in Addrs \cup {NoAddr} : RegisterOrg(signer, k, w, s)
    BY <2>1, RegisterFees
  <2>2. CASE \/ LeaderTx \/ (\E p \in Params : UpdateParams(p)) \/ SomeTrialEnds
             \/ GenesisRoundTrip \/ UNCHANGED vars
    BY <2>2, CoinsStill DEF FeesConserved
  <2> QED
    BY <2>1, <2>2 DEF Next, SomeTrialEnds
<1> QED
  BY <1>1, <1>2, InitRegistryInv, NextRegistryInv, PTL DEF RestartSpec

----------------------------------------------------------------------------
(* The member counter.                                                     *)

\* Members of an org form a finite set.
LEMMA MembersFinite == ASSUME NEW o \in Slots PROVE IsFiniteSet(Members(o))
<1>1. Members(o) \subseteq Keys
  BY DEF Members
<1> QED
  BY <1>1, OrgConstants, FS_Subset

\* What one step may do to the counter and the member records of org p.
RosterStep(p) ==
    \/ org'[p].active = org[p].active /\ Members(p)' = Members(p)
    \/ org'[p].active = 1 /\ \E k \in Keys : Members(p)' = {k}
    \/ /\ org'[p].active = org[p].active + 1
       /\ \E k \in Keys : k \notin Members(p) /\ Members(p)' = Members(p) \cup {k}
    \/ /\ org'[p].active = IF org[p].active > 0 THEN org[p].active - 1 ELSE 0
       /\ \E k \in Keys : k \in Members(p) /\ Members(p)' = Members(p) \ {k}

\* A new org starts with its leader as its only member.
LEMMA RegisterRoster ==
    ASSUME RegistryInv, NEW signer \in Addrs, NEW k \in Keys,
           NEW w \in Addrs \cup {NoAddr}, NEW s \in Addrs \cup {NoAddr},
           RegisterOrg(signer, k, w, s)
    PROVE  \A p \in Slots : RosterStep(p)
<1>a. nextSlot \in Slots
  BY OrgConstants, SMTT(30) DEF RegistryInv, RegisterOrg, TypeOK, Params, Slots
<1> PICK o \in Slots : o = nextSlot
  BY <1>a
<1>0. TypeOK /\ CleanSlots /\ ~HasOrg(o)
  BY DEF RegistryInv, RegisterOrg
<1>1. \A p \in Slots : p # o => org'[p] = org[p] /\ member'[p] = member[p]
  BY <1>0 DEF RegisterOrg, TypeOK
<1>2. org'[o].active = 1
  BY <1>0 DEF RegisterOrg, TypeOK
<1>3. \A j \in Keys : member'[o][j].role # "none" <=> j = k
  <2>1. member[o] = [j \in Keys |-> NoMember]
    BY <1>0 DEF CleanSlots
  <2>2. \A j \in Keys : member'[o][j] = IF j = k THEN [role |-> "leader", caps |-> {}] ELSE NoMember
    BY <1>0, <2>1 DEF RegisterOrg, TypeOK
  <2> QED
    BY <2>2, SMTT(30) DEF NoMember
<1>4. Members(o)' = {k}
  BY <1>3 DEF Members, IsMember
<1>5. \A p \in Slots : p # o => Members(p)' = Members(p)
  BY <1>1 DEF Members, IsMember
<1> QED
  BY <1>1, <1>2, <1>4, <1>5 DEF RosterStep

\* Adding and removing a member move the counter with the records.
LEMMA MemberRoster ==
    ASSUME RegistryInv, NEW signer \in Addrs, NEW o \in Slots,
           NEW k \in Keys, NEW caps \in SUBSET Capability,
           AddMember(signer, o, k, caps) \/ RemoveMember(signer, o, k)
    PROVE  \A p \in Slots : RosterStep(p)
<1>0. TypeOK
  BY DEF RegistryInv
<1>1. \A p \in Slots : p # o => org'[p] = org[p] /\ Members(p)' = Members(p)
  BY <1>0 DEF AddMember, RemoveMember, TypeOK, Members, IsMember
<1>2. CASE AddMember(signer, o, k, caps)
  <2>1. Members(o)' = Members(o) \cup {k} /\ k \notin Members(o)
    BY <1>0, <1>2 DEF AddMember, TypeOK, Members, IsMember
  <2>2. org'[o].active = org[o].active + 1
    BY <1>0, <1>2 DEF AddMember, TypeOK, StoredOrg
  <2> QED
    BY <1>1, <2>1, <2>2 DEF RosterStep
<1>3. CASE RemoveMember(signer, o, k)
  <2>1. Members(o)' = Members(o) \ {k} /\ k \in Members(o)
    BY <1>0, <1>3 DEF RemoveMember, TypeOK, Members, IsMember, NoMember
  <2>2. org'[o].active = IF org[o].active > 0 THEN org[o].active - 1 ELSE 0
    BY <1>0, <1>3, SMTT(30) DEF RemoveMember, TypeOK, StoredOrg
  <2> QED
    BY <1>1, <2>1, <2>2 DEF RosterStep
<1> QED
  BY <1>2, <1>3

\* A step that changes no org's counter and no member's presence.
LEMMA SameRoster ==
    ASSUME \A o \in Slots : /\ org'[o].active = org[o].active
                            /\ \A k \in Keys : IsMember(o, k)' <=> IsMember(o, k)
    PROVE  \A p \in Slots : RosterStep(p)
<1>1. \A o \in Slots : Members(o)' = Members(o)
  BY DEF Members
<1> QED
  BY <1>1 DEF RosterStep

\* Every transaction moves the counter of an org with its member records.
LEMMA NextRoster == RegistryInv /\ [Next]_vars => \A p \in Slots : RosterStep(p)
<1> SUFFICES ASSUME RegistryInv, [Next]_vars PROVE \A p \in Slots : RosterStep(p)
  OBVIOUS
<1>0. TypeOK /\ CleanSlots
  BY DEF RegistryInv
<1>1. CASE \E signer \in Addrs, k \in Keys, w, s \in Addrs \cup {NoAddr} : RegisterOrg(signer, k, w, s)
  BY <1>1, RegisterRoster
<1>2. CASE LeaderTx
  <2> PICK o \in Slots, signer \in Addrs : LeaderMsg(signer, o)
    BY <1>2, LeaderTxMsg
  <2>1. ASSUME NEW k \in Keys, NEW caps \in SUBSET Capability,
               AddMember(signer, o, k, caps) \/ RemoveMember(signer, o, k)
        PROVE  \A p \in Slots : RosterStep(p)
    BY <2>1, MemberRoster
  <2>2. ASSUME NEW k \in Keys, NEW caps \in SUBSET Capability,
               SetMemberCapabilities(signer, o, k, caps)
        PROVE  \A p \in Slots : RosterStep(p)
    <3>1. \A p \in Slots : \A j \in Keys : member'[p][j].role = member[p][j].role
      BY <1>0, <2>2, SMTT(30) DEF TypeOK, SetMemberCapabilities, MemberRecord
    <3> QED
      BY <2>2, <3>1, SameRoster DEF SetMemberCapabilities, IsMember
  <2>3. ASSUME NEW k \in Keys, NEW a \in Addrs, TransferLeadership(signer, o, k, a)
        PROVE  \A p \in Slots : RosterStep(p)
    <3>1. org[o].leader \in Keys /\ IsMember(o, k) /\ IsMember(o, org[o].leader)
      BY <1>0, <2>3, ZenonT(60) DEF TransferLeadership, CleanSlots, RegistryInv, UniqueLeader, IsMember
    <3>2. \A p \in Slots : org'[p].active = org[p].active
      BY <1>0, <2>3, ZenonT(60) DEF TransferLeadership, TypeOK, StoredOrg
    <3>3. \A p \in Slots : \A j \in Keys : IsMember(p, j)' <=> IsMember(p, j)
      BY <1>0, <2>3, <3>1, ZenonT(60) DEF TransferLeadership, TypeOK, MemberRecord, IsMember
    <3> QED
      BY <3>2, <3>3, SameRoster, ZenonT(60)
  <2>4. CASE CloseOrg(signer, o) \/ \E a \in Addrs : SetServingKey(signer, o, a)
    <3>1. CASE CloseOrg(signer, o)
      <4>1. \A p \in Slots : org'[p].active = org[p].active
        BY <1>0, <3>1 DEF CloseOrg, TypeOK, StoredOrg
      <4> QED
        BY <3>1, <4>1, SameRoster DEF CloseOrg, IsMember
    <3>2. CASE \E a \in Addrs : SetServingKey(signer, o, a)
      <4>1. \A p \in Slots : org'[p].active = org[p].active
        BY <1>0, <3>2, SMTT(30) DEF SetServingKey, TypeOK, StoredOrg
      <4> QED
        BY <3>2, <4>1, SameRoster DEF SetServingKey, IsMember
    <3> QED
      BY <2>4, <3>1, <3>2
  <2>5. CASE \E i \in ServingInfo : SetServingInfo(signer, o, i)
    <3>1. \A p \in Slots : org'[p].active = org[p].active
      BY <1>0, <2>5, SMTT(30) DEF SetServingInfo, TypeOK, StoredOrg
    <3> QED
      BY <2>5, <3>1, SameRoster DEF SetServingInfo, IsMember
  <2>6. CASE \/ \E c \in Configs : SetOrgConfig(signer, o, c)
             \/ \E g \in TrialGrantees : GrantTrialAllowance(signer, o, g)
    BY <2>6, SameRoster DEF SetOrgConfig, GrantTrialAllowance, orgVars, IsMember
  <2> QED
    <3>1. {} \in SUBSET Capability
      OBVIOUS
    <3> QED
      BY <2>1, <2>2, <2>3, <2>4, <2>5, <2>6, <3>1 DEF LeaderMsg
<1>3. CASE (\E p \in Params : UpdateParams(p)) \/ SomeTrialEnds \/ UNCHANGED vars
  BY <1>3, SameRoster DEF UpdateParams, SomeTrialEnds, TrialEnds, orgVars, vars, IsMember
<1> QED
  BY <1>1, <1>2, <1>3 DEF Next, SomeTrialEnds

\* A count kept beside a finite set follows it through a step: exactly, when it
\* was exact before, and within its bound when it was within it.
LEMMA CountFollows ==
    ASSUME RegistryInv, NEW p \in Slots, RosterStep(p)
    PROVE  /\ org[p].active = Cardinality(Members(p)) => org'[p].active = Cardinality(Members(p)')
           /\ org[p].active <= Cardinality(Members(p)) => org'[p].active <= Cardinality(Members(p)')
<1> DEFINE n == org[p].active
           size == Cardinality(Members(p))
<1>1. IsFiniteSet(Members(p)) /\ size \in Nat /\ n \in Nat
  BY MembersFinite, FS_CardinalityType DEF RegistryInv, TypeOK, StoredOrg
<1>2. ASSUME NEW k, Members(p)' = {k}
      PROVE  Cardinality(Members(p)') = 1
  BY <1>2, FS_Singleton
<1>3. ASSUME NEW k, k \notin Members(p), Members(p)' = Members(p) \cup {k}
      PROVE  Cardinality(Members(p)') = size + 1
  BY <1>1, <1>3, FS_AddElement, ZenonT(60)
<1>4. ASSUME NEW k, k \in Members(p), Members(p)' = Members(p) \ {k}
      PROVE  Cardinality(Members(p)') = size - 1 /\ size - 1 \in Nat
  <2>1. Cardinality(Members(p)') \in Nat
    BY <1>1, <1>4, FS_RemoveElement, FS_CardinalityType
  <2>2. Cardinality(Members(p)') = size - 1
    BY <1>1, <1>4, FS_RemoveElement, ZenonT(60)
  <2> QED
    BY <2>1, <2>2
<1> HIDE DEF size
<1>5. \/ org'[p].active = n /\ Cardinality(Members(p)') = size
      \/ org'[p].active = 1 /\ Cardinality(Members(p)') = 1
      \/ org'[p].active = n + 1 /\ Cardinality(Members(p)') = size + 1
      \/ /\ org'[p].active = IF n > 0 THEN n - 1 ELSE 0
         /\ Cardinality(Members(p)') = size - 1 /\ size - 1 \in Nat
  BY <1>2, <1>3, <1>4 DEF RosterStep, size
<1> QED
  BY <1>1, <1>5, SMTT(30) DEF size

\* TotalActiveMembers is the number of member records of its org as long as
\* the chain runs without a restart from an export.
THEOREM MemberCountCorrect == Spec => []MemberCount
<1>1. Init => MemberCount
  <2> SUFFICES ASSUME Init PROVE MemberCount
    OBVIOUS
  <2>1. \A o \in Slots : Members(o) = {} /\ org[o].active = 0
    BY DEF Init, Members, IsMember, NoMember, NoOrg
  <2> QED
    BY <2>1, FS_EmptySet DEF MemberCount
<1>2. RegistryInv /\ [Next]_vars => RegistryInv'
  BY NextRegistryInv
<1>3. RegistryInv /\ MemberCount /\ [Next]_vars => MemberCount'
  BY NextRoster, CountFollows DEF MemberCount
<1> QED
  BY <1>1, <1>2, <1>3, InitRegistryInv, PTL DEF Spec

\* A restart from an export resets TotalActiveMembers, and RemoveMember still
\* never takes it below zero, nor does it ever exceed the number of records
\* (storedToOrg, RemoveMember).
THEOREM MemberCountStaysBounded == RestartSpec => []MemberCountBounded
<1>1. Init => MemberCountBounded
  <2> SUFFICES ASSUME Init PROVE MemberCountBounded
    OBVIOUS
  <2>1. \A o \in Slots : org[o].active = 0 /\ Cardinality(Members(o)) \in Nat
    BY MembersFinite, FS_CardinalityType DEF Init, NoOrg
  <2> QED
    BY <2>1, SMTT(30) DEF MemberCountBounded
<1>2. RegistryInv /\ RegistryInv' /\ MemberCountBounded /\ [Next \/ GenesisRoundTrip]_vars
        => MemberCountBounded'
  <2> SUFFICES ASSUME RegistryInv, RegistryInv', MemberCountBounded,
                      [Next \/ GenesisRoundTrip]_vars, NEW o \in Slots
               PROVE  org'[o].active \in 0 .. Cardinality(Members(o)')
    BY DEF MemberCountBounded
  <2>1. /\ org[o].active \in Nat /\ org'[o].active \in Nat
        /\ Cardinality(Members(o)) \in Nat
        /\ org[o].active <= Cardinality(Members(o))
    BY MembersFinite, FS_CardinalityType, SMTT(30) DEF RegistryInv, TypeOK, StoredOrg, MemberCountBounded
  <2>2. IsFiniteSet(Members(o)')
    <3>1. Members(o)' \subseteq Keys
      BY DEF Members
    <3> QED
      BY <3>1, OrgConstants, FS_Subset
  <2>3. Cardinality(Members(o)') \in Nat
    BY <2>2, FS_CardinalityType
  <2>4. CASE [Next]_vars
    BY <2>1, <2>3, <2>4, NextRoster, CountFollows, SMTT(30)
  <2>5. CASE GenesisRoundTrip
    <3>1. org'[o].active = 0
      BY <2>5, SMTT(30) DEF GenesisRoundTrip, RegistryInv, TypeOK, StoredOrg
    <3> QED
      BY <2>3, <3>1, SMTT(30)
  <2> QED
    BY <2>4, <2>5
<1> QED
  BY <1>1, <1>2, InitRegistryInv, NextRegistryInv, PTL DEF RestartSpec

----------------------------------------------------------------------------
(* Who may change an org, and what a closed or unreachable org keeps.      *)

\* A message changes one org only, the one whose registered wallet signed it,
\* and revokes no allowance (GetLeaderWallet, GrantAllowance).
LEMMA LeaderFrame ==
    ASSUME TypeOK, NEW o \in Slots, NEW signer \in Addrs, LeaderMsg(signer, o)
    PROVE  /\ HasOrg(o) /\ org[o].wallet # NoAddr
           /\ feegrants \subseteq feegrants'
           /\ \A p \in Slots : p # o => /\ org'[p] = org[p] /\ member'[p] = member[p]
                                        /\ orgConfig'[p] = orgConfig[p]
<1> DEFINE Framed == /\ HasOrg(o) /\ org[o].wallet # NoAddr
                     /\ feegrants \subseteq feegrants'
                     /\ \A p \in Slots : p # o => /\ org'[p] = org[p] /\ member'[p] = member[p]
                                                  /\ orgConfig'[p] = orgConfig[p]
<1>1. ASSUME NEW k \in Keys, NEW caps
      PROVE  /\ AddMember(signer, o, k, caps) => Framed
             /\ SetMemberCapabilities(signer, o, k, caps) => Framed
             /\ RemoveMember(signer, o, k) => Framed
  BY DEF AddMember, SetMemberCapabilities, RemoveMember, IsLeaderWallet, TypeOK
<1>2. ASSUME NEW k \in Keys, NEW a
      PROVE  TransferLeadership(signer, o, k, a) => Framed
  <2> SUFFICES ASSUME TransferLeadership(signer, o, k, a) PROVE Framed
    OBVIOUS
  <2>1. /\ HasOrg(o) /\ org[o].wallet # NoAddr /\ feegrants \subseteq feegrants'
        /\ orgConfig' = orgConfig
    BY DEF TransferLeadership, IsLeaderWallet
  <2>2. \A p \in Slots : p # o => org'[p] = org[p] /\ member'[p] = member[p]
    BY ZenonT(60) DEF TransferLeadership, TypeOK
  <2> QED
    BY <2>1, <2>2
<1>3. ASSUME NEW a
      PROVE  /\ CloseOrg(signer, o) => Framed
             /\ SetServingKey(signer, o, a) => Framed
             /\ SetServingInfo(signer, o, a) => Framed
             /\ SetOrgConfig(signer, o, a) => Framed
             /\ GrantTrialAllowance(signer, o, a) => Framed
  BY DEF CloseOrg, SetServingKey, SetServingInfo, SetOrgConfig, GrantTrialAllowance,
         orgVars, IsLeaderWallet, TypeOK
<1> HIDE DEF Framed
<1>4. Framed
  BY <1>1, <1>2, <1>3 DEF LeaderMsg
<1> QED
  BY <1>4 DEF Framed

\* A registration writes a slot that held no org and revokes no allowance.
LEMMA RegisterFrame ==
    ASSUME TypeOK, NEW signer \in Addrs, NEW k \in Keys,
           NEW w \in Addrs \cup {NoAddr}, NEW s \in Addrs \cup {NoAddr},
           RegisterOrg(signer, k, w, s)
    PROVE  /\ nextSlot \in Slots /\ ~HasOrg(nextSlot)
           /\ org'[nextSlot].wallet = w /\ org'[nextSlot].serving = s
           /\ feegrants' = feegrants \cup OrgGrants(nextSlot, s, "serve")
                                     \cup OrgGrants(nextSlot, w, "leader")
           /\ \A p \in Slots : p # nextSlot => /\ org'[p] = org[p] /\ member'[p] = member[p]
                                               /\ orgConfig'[p] = orgConfig[p]
<1>1. nextSlot \in Slots
  BY OrgConstants, SMTT(30) DEF RegisterOrg, TypeOK, Params, Slots
<1> QED
  BY <1>1 DEF RegisterOrg, TypeOK

\* An org registered without a leader wallet is never changed by any message
\* (GetLeaderWallet fails for it).
THEOREM WalletlessOrgsFrozen == Spec => WalletlessOrgFrozen
<1> DEFINE Frozen == \A o \in Slots : (HasOrg(o) /\ org[o].wallet = NoAddr) =>
                        /\ org'[o] = org[o]
                        /\ member'[o] = member[o]
                        /\ orgConfig'[o] = orgConfig[o]
<1>1. RegistryInv /\ [Next]_vars => Frozen
  <2> SUFFICES ASSUME RegistryInv, [Next]_vars PROVE Frozen
    OBVIOUS
  <2>0. TypeOK
    BY DEF RegistryInv
  <2>1. CASE \E signer \in Addrs, k \in Keys, w, s \in Addrs \cup {NoAddr} : RegisterOrg(signer, k, w, s)
    BY <2>0, <2>1, RegisterFrame
  <2>2. CASE LeaderTx
    BY <2>0, <2>2, LeaderTxMsg, LeaderFrame
  <2>3. CASE (\E p \in Params : UpdateParams(p)) \/ SomeTrialEnds \/ UNCHANGED vars
    BY <2>3 DEF UpdateParams, SomeTrialEnds, TrialEnds, orgVars, vars
  <2> QED
    BY <2>1, <2>2, <2>3 DEF Next, SomeTrialEnds
<1>2. RegistryInv /\ [Next]_vars => [Frozen]_vars
  BY <1>1
<1>3. RegistryInv /\ [Next]_vars => RegistryInv'
  BY NextRegistryInv
<1> QED
  BY <1>2, <1>3, InitRegistryInv, PTL DEF Spec, WalletlessOrgFrozen

\* A closed org stays closed and nobody joins it, leaves it or gains a
\* capability in it; its leadership may still be handed on (CloseOrg,
\* AddMember, RemoveMember, SetMemberCapabilities, TransferLeadership).
THEOREM ClosedRostersFrozen == Spec => ClosedRosterFrozen
<1> DEFINE Kept(o) == /\ org'[o].status = "CLOSED"
                      /\ org'[o].active = org[o].active
                      /\ \A k \in Keys :
                            /\ (member'[o][k].role = "none") <=> (member[o][k].role = "none")
                            /\ member'[o][k].caps = member[o][k].caps
           Frozen == \A o \in Slots : org[o].status = "CLOSED" => Kept(o)
<1>1. ASSUME RegistryInv, NEW o \in Slots, NEW signer \in Addrs, LeaderMsg(signer, o),
             org[o].status = "CLOSED"
      PROVE  Kept(o)
  <2>0. TypeOK /\ CleanSlots /\ UniqueLeader
    BY <1>1 DEF RegistryInv
  <2>1. ASSUME NEW k, NEW caps
        PROVE  /\ ~AddMember(signer, o, k, caps)
               /\ ~SetMemberCapabilities(signer, o, k, caps)
               /\ ~RemoveMember(signer, o, k)
               /\ ~CloseOrg(signer, o)
    BY <1>1 DEF AddMember, SetMemberCapabilities, RemoveMember, CloseOrg, IsActive
  <2>2. ASSUME NEW k \in Keys, NEW a \in Addrs, TransferLeadership(signer, o, k, a)
        PROVE  Kept(o)
    <3>1. org[o].leader \in Keys /\ IsMember(o, k) /\ IsMember(o, org[o].leader)
      BY <2>0, <2>2, ZenonT(60) DEF TransferLeadership, CleanSlots, UniqueLeader, IsMember
    <3>2. org'[o].status = org[o].status /\ org'[o].active = org[o].active
      BY <2>0, <2>2, ZenonT(60) DEF TransferLeadership, TypeOK, StoredOrg
    <3>3. \A j \in Keys : (member'[o][j].role = "none") <=> (member[o][j].role = "none")
      BY <2>0, <2>2, <3>1, ZenonT(60) DEF TransferLeadership, TypeOK, MemberRecord, IsMember
    <3>4. \A j \in Keys : member'[o][j].caps = member[o][j].caps
      <4> DEFINE demoted == [member[o] EXCEPT ![org[o].leader].role = "member"]
                 promoted == [demoted EXCEPT ![k].role = "leader"]
      <4>1. member'[o] = promoted /\ member[o] \in [Keys -> MemberRecord]
        BY <2>0, <2>2 DEF TransferLeadership, TypeOK
      <4>2. demoted \in [Keys -> MemberRecord] /\ \A j \in Keys : demoted[j].caps = member[o][j].caps
        BY <3>1, <4>1, SMTT(30) DEF MemberRecord
      <4>3. \A j \in Keys : promoted[j].caps = demoted[j].caps
        <5> HIDE DEF demoted
        <5> QED
          BY <4>2 DEF MemberRecord
      <4> QED
        BY <4>1, <4>2, <4>3
    <3> QED
      BY <1>1, <3>2, <3>3, <3>4
  <2>3. ASSUME NEW a
        PROVE  /\ SetServingKey(signer, o, a) => Kept(o)
               /\ SetServingInfo(signer, o, a) => Kept(o)
               /\ SetOrgConfig(signer, o, a) => Kept(o)
               /\ GrantTrialAllowance(signer, o, a) => Kept(o)
    <3>1. SetServingKey(signer, o, a) \/ SetServingInfo(signer, o, a)
            => member' = member /\ org'[o].status = org[o].status /\ org'[o].active = org[o].active
      BY <2>0, SMTT(30) DEF SetServingKey, SetServingInfo, TypeOK, StoredOrg
    <3>2. SetOrgConfig(signer, o, a) \/ GrantTrialAllowance(signer, o, a)
            => member' = member /\ org' = org
      BY DEF SetOrgConfig, GrantTrialAllowance, orgVars
    <3> QED
      BY <1>1, <3>1, <3>2
  <2> HIDE DEF Kept
  <2> QED
    BY <1>1, <2>1, <2>2, <2>3 DEF LeaderMsg
<1>2. RegistryInv /\ [Next]_vars => Frozen
  <2> SUFFICES ASSUME RegistryInv, [Next]_vars PROVE Frozen
    OBVIOUS
  <2>0. TypeOK
    BY DEF RegistryInv
  <2>1. ASSUME NEW o \in Slots, org[o].status = "CLOSED", org'[o] = org[o], member'[o] = member[o]
        PROVE  Kept(o)
    BY <2>1
  <2>2. CASE \E signer \in Addrs, k \in Keys, w, s \in Addrs \cup {NoAddr} : RegisterOrg(signer, k, w, s)
    <3>1. \A o \in Slots : org[o].status = "CLOSED" => HasOrg(o)
      BY DEF HasOrg
    <3> HIDE DEF Kept
    <3> QED
      BY <2>0, <2>1, <2>2, <3>1, RegisterFrame
  <2>3. CASE LeaderTx
    <3> PICK o \in Slots, signer \in Addrs : LeaderMsg(signer, o)
      BY <2>3, LeaderTxMsg
    <3>1. \A p \in Slots : p # o => org'[p] = org[p] /\ member'[p] = member[p]
      BY <2>0, LeaderFrame
    <3> HIDE DEF Kept
    <3> QED
      BY <2>1, <3>1, <1>1
  <2>4. CASE (\E p \in Params : UpdateParams(p)) \/ SomeTrialEnds \/ UNCHANGED vars
    BY <2>4 DEF UpdateParams, SomeTrialEnds, TrialEnds, orgVars, vars
  <2> QED
    BY <2>2, <2>3, <2>4 DEF Next, SomeTrialEnds
<1>3. RegistryInv /\ [Next]_vars => [Frozen]_vars
  BY <1>2
<1>4. RegistryInv /\ [Next]_vars => RegistryInv'
  BY NextRegistryInv
<1> QED
  BY <1>3, <1>4, InitRegistryInv, PTL DEF Spec, ClosedRosterFrozen

\* A leader's message leaves the wallet and the serving key of its org as they
\* are, or grants the new one an allowance (grantLeaderFeegrant,
\* grantServingFeegrant).
LEMMA LeaderSponsors ==
    ASSUME TypeOK, NEW o \in Slots, NEW signer \in Addrs, LeaderMsg(signer, o)
    PROVE  /\ \/ org'[o].wallet = org[o].wallet
              \/ OrgGrants(o, org'[o].wallet, "leader") \subseteq feegrants'
           /\ \/ org'[o].serving = org[o].serving
              \/ OrgGrants(o, org'[o].serving, "serve") \subseteq feegrants'
<1> DEFINE Sponsored == /\ \/ org'[o].wallet = org[o].wallet
                           \/ OrgGrants(o, org'[o].wallet, "leader") \subseteq feegrants'
                        /\ \/ org'[o].serving = org[o].serving
                           \/ OrgGrants(o, org'[o].serving, "serve") \subseteq feegrants'
<1>1. ASSUME NEW k, NEW caps
      PROVE  /\ AddMember(signer, o, k, caps) => Sponsored
             /\ SetMemberCapabilities(signer, o, k, caps) => Sponsored
             /\ RemoveMember(signer, o, k) => Sponsored
  BY SMTT(30) DEF AddMember, SetMemberCapabilities, RemoveMember, TypeOK, StoredOrg
<1>2. ASSUME NEW k, NEW a \in Addrs, TransferLeadership(signer, o, k, a)
      PROVE  Sponsored
  <2>1. org'[o].wallet = a /\ org'[o].serving = org[o].serving
    BY <1>2, ZenonT(60) DEF TransferLeadership, TypeOK, StoredOrg
  <2>2. OrgGrants(o, a, "leader") \subseteq feegrants'
    BY <1>2 DEF TransferLeadership
  <2> QED
    BY <2>1, <2>2
<1>3. ASSUME NEW a \in Addrs, SetServingKey(signer, o, a)
      PROVE  Sponsored
  <2>1. org'[o].serving = a /\ org'[o].wallet = org[o].wallet
    BY <1>3 DEF SetServingKey, TypeOK, StoredOrg
  <2>2. OrgGrants(o, a, "serve") \subseteq feegrants'
    BY <1>3 DEF SetServingKey
  <2> QED
    BY <2>1, <2>2
<1>4. ASSUME NEW a
      PROVE  /\ CloseOrg(signer, o) => Sponsored
             /\ SetServingInfo(signer, o, a) => Sponsored
             /\ SetOrgConfig(signer, o, a) => Sponsored
             /\ GrantTrialAllowance(signer, o, a) => Sponsored
  BY DEF CloseOrg, SetServingInfo, SetOrgConfig, GrantTrialAllowance, orgVars, TypeOK, StoredOrg
<1> HIDE DEF Sponsored
<1>5. Sponsored
  BY <1>1, <1>2, <1>3, <1>4 DEF LeaderMsg
<1> QED
  BY <1>5 DEF Sponsored

\* An account has at most one of an org's allowances.
OneScope ==
    \A o \in Slots, a \in Addrs :
        <<o, a, "leader">> \notin feegrants \/ <<o, a, "serve">> \notin feegrants

SponsorInv == AuthoritiesSponsored /\ OneScope

\* A leader's message grants nothing, or an allowance to an account that has none
\* of the granter (GrantAllowance).
LEMMA LeaderGrants ==
    ASSUME NEW o \in Slots, NEW signer \in Addrs, LeaderMsg(signer, o)
    PROVE  \/ feegrants' = feegrants
           \/ \E g, a, c : CanGrant(g, a) /\ feegrants' \subseteq feegrants \cup {<<g, a, c>>}
<1> DEFINE Grants == \/ feegrants' = feegrants
                     \/ \E g, a, c : CanGrant(g, a) /\ feegrants' \subseteq feegrants \cup {<<g, a, c>>}
<1>1. ASSUME NEW k, NEW caps
      PROVE  /\ AddMember(signer, o, k, caps) => Grants
             /\ SetMemberCapabilities(signer, o, k, caps) => Grants
             /\ RemoveMember(signer, o, k) => Grants
  BY DEF AddMember, SetMemberCapabilities, RemoveMember
<1>2. ASSUME NEW k, NEW a, TransferLeadership(signer, o, k, a) PROVE Grants
  <2>1. CanGrant(o, a) /\ feegrants' = feegrants \cup OrgGrants(o, a, "leader")
    BY <1>2 DEF TransferLeadership
  <2>2. OrgGrants(o, a, "leader") \subseteq {<<o, a, "leader">>}
    BY DEF OrgGrants
  <2> QED
    BY <2>1, <2>2
<1>3. ASSUME NEW a, SetServingKey(signer, o, a) PROVE Grants
  <2>1. CanGrant(o, a) /\ feegrants' = feegrants \cup OrgGrants(o, a, "serve")
    BY <1>3 DEF SetServingKey
  <2>2. OrgGrants(o, a, "serve") \subseteq {<<o, a, "serve">>}
    BY DEF OrgGrants
  <2> QED
    BY <2>1, <2>2
<1>4. ASSUME NEW g, GrantTrialAllowance(signer, o, g) PROVE Grants
  <2>1. CanGrant(signer, g) /\ feegrants' = feegrants \cup {<<signer, g, "trial">>}
    BY <1>4 DEF GrantTrialAllowance
  <2> QED
    BY <2>1
<1>5. ASSUME NEW a
      PROVE  /\ CloseOrg(signer, o) => Grants
             /\ SetServingInfo(signer, o, a) => Grants
             /\ SetOrgConfig(signer, o, a) => Grants
  BY DEF CloseOrg, SetServingInfo, SetOrgConfig
<1> HIDE DEF Grants
<1>6. Grants
  BY <1>1, <1>2, <1>3, <1>4, <1>5 DEF LeaderMsg
<1> QED
  BY <1>6 DEF Grants

\* No step gives an account a second allowance of an org.
LEMMA OneScopeStep ==
    ASSUME RegistryInv, OneScope, [Next \/ GenesisRoundTrip]_vars
    PROVE  OneScope'
<1>1. ASSUME feegrants' \subseteq feegrants PROVE OneScope'
  BY <1>1 DEF OneScope
<1>2. ASSUME NEW g, NEW a, NEW c, CanGrant(g, a), feegrants' \subseteq feegrants \cup {<<g, a, c>>}
      PROVE  OneScope'
  <2> SUFFICES ASSUME NEW o \in Slots, NEW b \in Addrs,
                      <<o, b, "leader">> \in feegrants', <<o, b, "serve">> \in feegrants'
               PROVE  FALSE
    BY DEF OneScope
  <2>1. \A d \in Scopes : <<g, a, d>> \notin feegrants
    BY <1>2 DEF CanGrant
  <2>2. CASE o = g /\ b = a
    <3>1. <<o, b, "leader">> = <<g, a, c>> /\ <<o, b, "serve">> = <<g, a, c>>
      BY <1>2, <2>1, <2>2 DEF Scopes
    <3>2. <<o, b, "leader">>[3] = <<o, b, "serve">>[3]
      BY <3>1
    <3> QED
      BY <3>2
  <2>3. CASE ~(o = g /\ b = a)
    <3>1. <<o, b, "leader">> \in feegrants /\ <<o, b, "serve">> \in feegrants
      BY <1>2, <2>3
    <3> QED
      BY <3>1 DEF OneScope
  <2> QED
    BY <2>2, <2>3
<1>3. CASE \E signer \in Addrs, k \in Keys, w, s \in Addrs \cup {NoAddr} : RegisterOrg(signer, k, w, s)
  <2> PICK signer \in Addrs, k \in Keys, w \in Addrs \cup {NoAddr}, s \in Addrs \cup {NoAddr} :
        RegisterOrg(signer, k, w, s)
    BY <1>3
  <2> SUFFICES ASSUME NEW o \in Slots, NEW b \in Addrs,
                      <<o, b, "leader">> \in feegrants', <<o, b, "serve">> \in feegrants'
               PROVE  FALSE
    BY DEF OneScope
  <2>1. /\ feegrants' = feegrants \cup OrgGrants(nextSlot, s, "serve")
                                  \cup OrgGrants(nextSlot, w, "leader")
        /\ s # NoAddr => CanGrant(nextSlot, s)
        /\ w # NoAddr => w # s /\ CanGrant(nextSlot, w)
    BY DEF RegisterOrg
  <2>2. b # NoAddr
    BY OrgConstants
  <2>3. <<o, b, "leader">> \in feegrants \/ (o = nextSlot /\ b = w)
    <3>1. <<o, b, "leader">> \notin OrgGrants(nextSlot, s, "serve")
      BY DEF OrgGrants
    <3>2. <<o, b, "leader">> \in OrgGrants(nextSlot, w, "leader") => o = nextSlot /\ b = w
      BY DEF OrgGrants
    <3> QED
      BY <2>1, <3>1, <3>2
  <2>4. <<o, b, "serve">> \in feegrants \/ (o = nextSlot /\ b = s)
    <3>1. <<o, b, "serve">> \notin OrgGrants(nextSlot, w, "leader")
      BY DEF OrgGrants
    <3>2. <<o, b, "serve">> \in OrgGrants(nextSlot, s, "serve") => o = nextSlot /\ b = s
      BY DEF OrgGrants
    <3> QED
      BY <2>1, <3>1, <3>2
  <2>5. ~(o = nextSlot /\ b = w) \/ <<o, b, "serve">> \notin feegrants
    BY <2>1, <2>2 DEF CanGrant, Scopes
  <2>6. ~(o = nextSlot /\ b = s) \/ <<o, b, "leader">> \notin feegrants
    BY <2>1, <2>2 DEF CanGrant, Scopes
  <2>7. <<o, b, "leader">> \notin feegrants \/ <<o, b, "serve">> \notin feegrants
    BY DEF OneScope
  <2> QED
    BY <2>1, <2>2, <2>3, <2>4, <2>5, <2>6, <2>7, SMTT(30)
<1>4. CASE LeaderTx
  BY <1>1, <1>2, <1>4, LeaderTxMsg, LeaderGrants
<1>5. CASE (\E p \in Params : UpdateParams(p)) \/ SomeTrialEnds \/ GenesisRoundTrip \/ UNCHANGED vars
  <2>1. feegrants' \subseteq feegrants
    BY <1>5 DEF UpdateParams, SomeTrialEnds, TrialEnds, GenesisRoundTrip, vars
  <2> QED
    BY <1>1, <2>1
<1> QED
  BY <1>3, <1>4, <1>5 DEF Next, SomeTrialEnds

\* What keeps both authorities sponsored: a registration or a rotation grants
\* what it writes, or fails, and only trial allowances end.
LEMMA SponsoredStep ==
    ASSUME RegistryInv, AuthoritiesSponsored, [Next \/ GenesisRoundTrip]_vars
    PROVE  AuthoritiesSponsored'
<1>0. TypeOK
  BY DEF RegistryInv
<1>1. ASSUME NEW p \in Slots, HasOrg(p)
      PROVE  /\ OrgGrants(p, org[p].wallet, "leader") \subseteq feegrants
             /\ OrgGrants(p, org[p].serving, "serve") \subseteq feegrants
  BY <1>1 DEF AuthoritiesSponsored
<1>2. SUFFICES ASSUME NEW p \in Slots, org'[p].status # "NONE"
               PROVE  /\ OrgGrants(p, org'[p].wallet, "leader") \subseteq feegrants'
                      /\ OrgGrants(p, org'[p].serving, "serve") \subseteq feegrants'
  BY DEF AuthoritiesSponsored, HasOrg, OrgGrants
<1>3. CASE \E signer \in Addrs, k \in Keys, w, s \in Addrs \cup {NoAddr} : RegisterOrg(signer, k, w, s)
  <2> PICK signer \in Addrs, k \in Keys, w \in Addrs \cup {NoAddr}, s \in Addrs \cup {NoAddr} :
        RegisterOrg(signer, k, w, s)
    BY <1>3
  <2>1. CASE p = nextSlot
    <3>1. /\ org'[p].wallet = w /\ org'[p].serving = s
          /\ feegrants' = feegrants \cup OrgGrants(p, s, "serve") \cup OrgGrants(p, w, "leader")
      BY <1>0, <2>1, RegisterFrame
    <3> QED
      BY <3>1
  <2>2. CASE p # nextSlot
    <3>1. org'[p] = org[p] /\ feegrants \subseteq feegrants'
      BY <1>0, <2>2, RegisterFrame
    <3> QED
      BY <1>1, <1>2, <3>1 DEF HasOrg
  <2> QED
    BY <2>1, <2>2
<1>4. CASE LeaderTx
  <2> PICK o \in Slots, signer \in Addrs : LeaderMsg(signer, o)
    BY <1>4, LeaderTxMsg
  <2>1. CASE p = o
    <3>1. HasOrg(o) /\ feegrants \subseteq feegrants'
      BY <1>0, LeaderFrame
    <3> QED
      BY <1>0, <1>1, <2>1, <3>1, LeaderSponsors
  <2>2. CASE p # o
    <3>1. org'[p] = org[p] /\ feegrants \subseteq feegrants'
      BY <1>0, <2>2, LeaderFrame
    <3> QED
      BY <1>1, <1>2, <3>1 DEF HasOrg
  <2> QED
    BY <2>1, <2>2
<1>5. CASE GenesisRoundTrip
  <2>1. /\ org'[p].status = org[p].status /\ org'[p].wallet = org[p].wallet
        /\ org'[p].serving = org[p].serving /\ feegrants' = feegrants
    BY <1>0, <1>5 DEF GenesisRoundTrip, TypeOK, StoredOrg
  <2> QED
    BY <1>1, <1>2, <2>1 DEF HasOrg
<1>6. CASE SomeTrialEnds
  <2>1. PICK a \in Addrs, g \in TrialGrantees : TrialEnds(a, g)
    BY <1>6 DEF SomeTrialEnds
  <2>2. org' = org /\ feegrants' = feegrants \ {<<a, g, "trial">>}
    BY <2>1 DEF TrialEnds, orgVars
  <2>3. \A b : /\ <<a, g, "trial">> \notin OrgGrants(p, b, "leader")
               /\ <<a, g, "trial">> \notin OrgGrants(p, b, "serve")
    BY DEF OrgGrants
  <2>4. /\ OrgGrants(p, org[p].wallet, "leader") \subseteq feegrants
        /\ OrgGrants(p, org[p].serving, "serve") \subseteq feegrants
    BY <1>1, <1>2, <2>2 DEF HasOrg
  <2> QED
    BY <2>2, <2>3, <2>4
<1>7. CASE (\E q \in Params : UpdateParams(q)) \/ UNCHANGED vars
  <2>1. org' = org /\ feegrants' = feegrants
    BY <1>7 DEF UpdateParams, vars
  <2> QED
    BY <1>1, <1>2, <2>1 DEF HasOrg
<1> QED
  BY <1>3, <1>4, <1>5, <1>6, <1>7 DEF Next, SomeTrialEnds

\* The invariant of both theorems below holds always.
LEMMA SponsorInvHolds == RestartSpec => []SponsorInv
<1>1. Init => SponsorInv
  BY SMTT(30) DEF Init, SponsorInv, OneScope, AuthoritiesSponsored, HasOrg, NoOrg
<1>2. RegistryInv /\ SponsorInv /\ [Next \/ GenesisRoundTrip]_vars => SponsorInv'
  BY SponsoredStep, OneScopeStep DEF SponsorInv
<1> QED
  BY <1>1, <1>2, InitRegistryInv, NextRegistryInv, PTL DEF RestartSpec

\* However often either was rotated, the leader wallet of an org holds the org
\* account's allowance for a leader's messages and its serving key the one for
\* the messages of x/serve: a grant that x/feegrant refuses rolls the rotation
\* back (grantLeaderFeegrant, grantServingFeegrant), across restarts too.
THEOREM AuthoritiesAlwaysSponsored == RestartSpec => []AuthoritiesSponsored
<1>1. SponsorInv => AuthoritiesSponsored
  BY DEF SponsorInv
<1> QED
  BY <1>1, SponsorInvHolds, PTL

\* So no org ever has one account for both: nothing compares them, but the second
\* allowance would be refused (RegisterOrg, TransferLeadership, SetServingKey).
THEOREM AuthoritiesStaySeparate == RestartSpec => []AuthoritiesSeparate
<1>1. ASSUME RegistryInv, SponsorInv, NEW o \in Slots, org[o].wallet # NoAddr
      PROVE  org[o].serving # org[o].wallet
  <2>1. HasOrg(o)
    BY <1>1, SMTT(30) DEF RegistryInv, CleanSlots, NoOrg
  <2>2. org[o].wallet \in Addrs
    BY <1>1 DEF RegistryInv, TypeOK, StoredOrg
  <2>3. /\ OrgGrants(o, org[o].wallet, "leader") \subseteq feegrants
        /\ OrgGrants(o, org[o].serving, "serve") \subseteq feegrants
    BY <1>1, <2>1 DEF SponsorInv, AuthoritiesSponsored
  <2>4. SUFFICES ASSUME org[o].serving = org[o].wallet PROVE FALSE
    OBVIOUS
  <2>5. <<o, org[o].wallet, "leader">> \in feegrants /\ <<o, org[o].wallet, "serve">> \in feegrants
    BY <1>1, <2>3, <2>4 DEF OrgGrants
  <2> QED
    BY <1>1, <2>2, <2>5 DEF SponsorInv, OneScope
<1>2. RegistryInv /\ SponsorInv => AuthoritiesSeparate
  BY <1>1 DEF AuthoritiesSeparate
<1> QED
  BY <1>2, SponsorInvHolds, InitRegistryInv, NextRegistryInv, PTL DEF RestartSpec

=============================================================================
