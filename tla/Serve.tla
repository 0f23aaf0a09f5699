------------------------------- MODULE Serve --------------------------------
(***************************************************************************)
(* x/serve: serve batches, denials and events submitted by an org's        *)
(* serving key, with the bandwidth x/bandwidth charges for a batch and the *)
(* reputation x/reputation records for it.  The epoch of a batch is the    *)
(* submitter's; it is never compared with the running epoch.  IsValidInEpoch*)
(* finds no validity record in a running chain and answers true.           *)
(***************************************************************************)
EXTENDS Bandwidth, Sequences, FiniteSets, FiniteSetsExt, Folds, Functions

CONSTANTS
    Hashes,         \* memory content hashes
    ServeKeys,      \* ed25519 keys of consumers, contributors among them
    NoKey,          \* no key
    NoOrg,          \* no org, the empty name
    EventBodies,    \* signed event bodies about one memory (type, nonce, data)
    Models,         \* model ids a serve may name
    NoModel,        \* the empty one
    Verdicts,       \* whether the signature of an entry verifies
    Turns,          \* turn counts a serve may name
    Versions,       \* edge-policy versions
    SeedVersions,   \* the ones genesis may be seeded with
    BlankVersions,  \* the ones whose text itself decodes, as a record without fields
    NoVersion,      \* no version
    KeyOrder,       \* the order of store keys that end in a name
    PolicyHashes,   \* hashes of policy artifacts
    NoHash,         \* no hash
    ServeParams,    \* values of [batch, perMemory]
    DefaultServeParams,
    ActiveFlags,    \* the active flags x/reputation's genesis may carry
    MaxServes,      \* bounds on the entries of a serve batch,
    MaxDenials,     \* a denial batch
    MaxEvents       \* and an event batch

\* what stands for an org in a key: the iterators take versions for orgs too
Names == Orgs \cup Versions \cup {NoOrg}

ASSUME ServeConstants ==
    /\ IsFiniteSet(Hashes) /\ IsFiniteSet(ServeKeys)
    /\ NoKey \notin ServeKeys
    /\ NoOrg \notin Orgs
    /\ ServeParams \subseteq [batch : Nat, perMemory : Nat]
    /\ DefaultServeParams \in ServeParams
    /\ ActiveFlags \subseteq BOOLEAN
    /\ {MaxServes, MaxDenials, MaxEvents} \subseteq Nat
    /\ NoModel \notin ServeKeys
    /\ Verdicts \subseteq BOOLEAN
    /\ Turns \subseteq Nat
    /\ IsFiniteSet(Orgs) /\ IsFiniteSet(Versions)
    /\ Versions \cap (Orgs \cup {NoOrg}) = {}
    /\ SeedVersions \subseteq Versions /\ BlankVersions \subseteq Versions
    /\ NoVersion \notin Names
    /\ KeyOrder \in [Names -> Nat]
    /\ \A m, n \in Names : KeyOrder[m] = KeyOrder[n] => m = n
    /\ NoHash \notin Hashes \cup PolicyHashes
    /\ ServeKeys \cap Models = {}
    \* the epoch of a batch is compared with nothing: 0 is accepted
    /\ EpochIds \subseteq Nat /\ IsFiniteSet(EpochIds)

VARIABLES
    servingKey,     \* x/org: HubServingAddress
    contributor,    \* x/memory: contributor of the approved memory, or NoKey
    params,         \* MaxServesPerBatch, MaxServesPerMemoryPerEpoch
    kv,             \* the serve half of the store, a field for each prefix
    deny,           \* the denial half: receipts, counts, statistics of no org
    events,         \* event/{org}/{epoch}/{fingerprint}: signed ones, blank ones
    policy,         \* policy_anchor/{version} and policy_anchor_latest
    active,         \* x/reputation: the active flag
    reputation      \* x/reputation: stats/{contributor} and its org set

environment == <<servingKey, contributor, active>>
vars == <<bandwidthVars, environment, params, kv, deny, events, policy, reputation>>

\* the serve fingerprint hashes memory, serve key and epoch, not the org
Fingerprints == Hashes \X ServeKeys \X EpochIds

NoFingerprint == <<>>

ServeReceipt ==
    [org : Orgs \cup {NoOrg}, contributor : ServeKeys \cup {NoKey},
     model : Models \cup {NoModel}, turns : Turns \cup {0}]

NoReceipt == [org |-> NoOrg, contributor |-> NoKey, model |-> NoModel, turns |-> 0]

ServeEntry ==
    [hash : Hashes, key : ServeKeys, contributor : ServeKeys, model : Models,
     turns : Turns, signed : Verdicts]

DenialEntry == [hash : Hashes, key : ServeKeys, fingerprint : Fingerprints, signed : Verdicts]

\* the denial fingerprint hashes all five of its parts
DenialReceipt ==
    Orgs \X Hashes \X EpochIds \X (ServeKeys \cup Models \cup {NoModel}) \X (Fingerprints \cup {NoFingerprint})

\* what other records decode to: a name, and at most the hash of a policy
StrayDenial ==
    Names \X (PolicyHashes \cup {NoHash}) \X {0} \X {NoModel} \X {NoFingerprint}

\* org, memory and epoch of a denial count
DenialKeys == (Orgs \X Hashes \X EpochIds) \cup (Names \X (PolicyHashes \cup {NoHash}) \X {0})

\* x/serve has no epoch source: a message stores epoch 0 and its block height,
\* which is positive and stands here as 1
PolicyAnchor == [hash : PolicyHashes \cup {NoHash}, epoch : Nat, height : Nat]

BlankAnchor == [hash |-> NoHash, epoch |-> 0, height |-> 0]

Batches(Entry, max) == UNION {[1 .. n -> Entry] : n \in 1 .. max}

ServeTally == [count : Nat, self : Nat, turns : Nat, orgs : SUBSET Orgs]

NoServes == [count |-> 0, self |-> 0, turns |-> 0, orgs |-> {}]

\* a bug: the self counter counts down on the serves of others
AddServeCountsDown(tally, o, self, turns) ==
    [count |-> tally.count + 1,
     self |-> tally.self - IF self THEN 0 ELSE 1,
     turns |-> tally.turns + turns,
     orgs |-> tally.orgs \cup {o}]

AddServe(tally, o, self, turns) ==
    [count |-> tally.count + 1,
     self |-> tally.self + IF self THEN 1 ELSE 0,
     turns |-> tally.turns + turns,
     orgs |-> tally.orgs \cup {o}]

\* the loop of a message handler over its batch: step on the entries in order
ForEach(step(_, _), start, batch) ==
    MapThenFoldSet(LAMBDA x, s : step(s, x), start, LAMBDA i : batch[i],
                   LAMBDA S : Max(S), DOMAIN batch)

----------------------------------------------------------------------------
(* Serve batches.                                                          *)

Init ==
    /\ BandwidthInit
    /\ servingKey \in [Orgs -> Signers \cup {NoKey}]
    /\ contributor = [o \in Orgs |-> [h \in Hashes |-> NoKey]]
    /\ params = DefaultServeParams
    /\ kv = [receipt |-> [f \in Fingerprints |-> NoReceipt],
             memCount |-> [m \in Orgs \X Hashes \X EpochIds |-> 0],
             memFirst |-> {},
             keyFirst |-> {},
             stats |-> [s \in Orgs \X EpochIds |->
                           [memories |-> 0, keys |-> 0, total |-> 0, self |-> 0,
                            models |-> [m \in Models |-> 0], denials |-> 0]],
             contributor |-> [c \in ServeKeys \X EpochIds |-> NoServes]]
    /\ deny = [receipts |-> {}, count |-> [m \in DenialKeys |-> 0],
               stray |-> [n \in Names \ Orgs |-> 0]]
    /\ events = [signed |-> {}, blank |-> {}]
    /\ \/ policy = [anchor |-> [n \in {} |-> BlankAnchor], latest |-> NoVersion]
       \/ \E v \in SeedVersions, h \in PolicyHashes :
             policy = [anchor |-> [n \in {v} |-> [hash |-> h, epoch |-> 0, height |-> 0]],
                       latest |-> v]
    /\ active \in ActiveFlags
    /\ reputation = [k \in ServeKeys |-> NoServes]

\* a bug: every serve counts its memory as a new one
AnyMemory(store, o, e, h) == TRUE

NewMemory(store, o, e, h) == <<o, h, e>> \notin store.memFirst

\* no model is counted for a serve that names none
updateEpochStats(store, o, e, x) ==
    LET one(b) == IF b THEN 1 ELSE 0
        old == store.stats[<<o, e>>]
        new == [memories |-> old.memories + one(NewMemory(store, o, e, x.hash)),
                keys |-> old.keys + one(<<o, x.key, e>> \notin store.keyFirst),
                total |-> old.total + 1,
                self |-> old.self + one(x.key = x.contributor),
                models |-> [old.models EXCEPT ![x.model] = @ + one(x.model # NoModel)],
                denials |-> old.denials]
    IN  [store EXCEPT !.keyFirst = @ \cup {<<o, x.key, e>>},
                      !.memFirst = @ \cup {<<o, x.hash, e>>},
                      !.stats[<<o, e>>] = new]

\* a bug: the serves are tallied for the serve key
ServesOfServeKey(store, o, e, x) ==
    [store EXCEPT !.contributor[<<x.key, e>>] = AddServe(@, o, x.key = x.contributor, x.turns)]

\* keyed by the contributor the entry names, not by the memory's
updateContributorServes(store, o, e, x) ==
    [store EXCEPT !.contributor[<<x.contributor, e>>] =
                      AddServe(@, o, x.key = x.contributor, x.turns)]

\* a bug: a fingerprint seen before is accepted again
AcceptsReplay(store, o, e, x) ==
    /\ x.signed
    /\ contributor[o][x.hash] # NoKey
    /\ store.memCount[<<o, x.hash, e>>] < params.perMemory

Accepts(store, o, e, x) ==
    /\ x.signed
    /\ store.receipt[<<x.hash, x.key, e>>] = NoReceipt
    /\ contributor[o][x.hash] # NoKey
    /\ store.memCount[<<o, x.hash, e>>] < params.perMemory

\* a bug: the entry's contributor is credited, as the payload names it
CreditsPayload(tallies, o, x) ==
    IF active THEN [tallies EXCEPT ![x.contributor] = AddServe(@, o, x.key = x.contributor, 0)]
    ELSE tallies

\* the memory's stored contributor is credited; the error of an inactive
\* x/reputation is logged and dropped
RecordServe(tallies, o, x) ==
    IF active
    THEN [tallies EXCEPT ![contributor[o][x.hash]] =
                             AddServe(@, o, x.key = x.contributor, 0)]
    ELSE tallies

ProcessEntry(s, o, e, x) ==
    IF ~Accepts(s.kv, o, e, x) THEN s
    ELSE LET received == [s.kv EXCEPT !.receipt[<<x.hash, x.key, e>>] =
                                         [org |-> o, contributor |-> x.contributor,
                                          model |-> x.model, turns |-> x.turns],
                                      !.memCount[<<o, x.hash, e>>] = @ + 1]
             counted == updateEpochStats(received, o, e, x)
         IN  [kv |-> updateContributorServes(counted, o, e, x),
              reputation |-> RecordServe(s.reputation, o, x)]

SubmitServeBatch(signer, o, e, serves) ==
    /\ servingKey[o] # NoKey
    /\ signer = servingKey[o]
    /\ Len(serves) <= params.batch
    /\ ConsumeServeBandwidth(o, e, Len(serves))
    /\ LET done == ForEach(LAMBDA s, x : ProcessEntry(s, o, e, x),
                           [kv |-> kv, reputation |-> reputation], serves)
       IN  kv' = done.kv /\ reputation' = done.reputation
    /\ UNCHANGED <<override, capParam, environment, params, deny, events, policy>>

----------------------------------------------------------------------------
(* Denials, events and the parameters.                                     *)

\* a bug: the originating receipt is not looked up
DeniesUnserved(d, o, e, x) ==
    /\ x.signed
    /\ <<o, x.hash, e, x.key, x.fingerprint>> \notin d.receipts
    /\ contributor[o][x.hash] # NoKey

Denies(d, o, e, x) ==
    /\ x.signed
    /\ <<o, x.hash, e, x.key, x.fingerprint>> \notin d.receipts
    /\ kv.receipt[x.fingerprint] # NoReceipt
    /\ x.hash = x.fingerprint[1]
    /\ x.key = x.fingerprint[2]
    /\ contributor[o][x.hash] # NoKey

ProcessDenial(d, o, e, x) ==
    IF ~Denies(d, o, e, x) THEN d
    ELSE [receipts |-> d.receipts \cup {<<o, x.hash, e, x.key, x.fingerprint>>},
          count |-> [d.count EXCEPT ![<<o, x.hash, e>>] = @ + 1],
          stats |-> [d.stats EXCEPT ![<<o, e>>].denials = @ + 1]]

SubmitDenialBatch(signer, o, e, entries) ==
    /\ servingKey[o] # NoKey
    /\ signer = servingKey[o]
    /\ Len(entries) <= params.batch
    /\ LET done == ForEach(LAMBDA d, x : ProcessDenial(d, o, e, x),
                           [receipts |-> deny.receipts, count |-> deny.count,
                            stats |-> kv.stats], entries)
       IN  /\ deny' = [deny EXCEPT !.receipts = done.receipts, !.count = done.count]
           /\ kv' = [kv EXCEPT !.stats = done.stats]
    /\ UNCHANGED <<bandwidthVars, environment, params, events, policy, reputation>>

\* an event body seen before is a duplicate and leaves the log as it is
SubmitEventBatch(signer, o, e, batch) ==
    /\ servingKey[o] # NoKey
    /\ signer = servingKey[o]
    /\ Len(batch) <= params.batch
    /\ events' = [events EXCEPT !.signed = @ \cup {<<o, e, batch[i]>> :
                     i \in {j \in DOMAIN batch : /\ batch[j].signed
                                                 /\ contributor[o][batch[j].hash] # NoKey}}]
    /\ UNCHANGED <<bandwidthVars, environment, params, kv, deny, policy, reputation>>

UpdateParams(p) ==
    /\ params' = p
    /\ UNCHANGED <<bandwidthVars, environment, kv, deny, events, policy, reputation>>

\* x/org: SetServingKey
RotateServingKey(o, signer) ==
    /\ servingKey' = [servingKey EXCEPT ![o] = signer]
    /\ UNCHANGED <<bandwidthVars, contributor, active, params, kv, deny, events, policy, reputation>>

\* x/memory: ApproveMemory
MemoryApproved(o, h, k) ==
    /\ contributor[o][h] = NoKey
    /\ contributor' = [contributor EXCEPT ![o][h] = k]
    /\ UNCHANGED <<bandwidthVars, servingKey, active, params, kv, deny, events, policy, reputation>>

BandwidthStep ==
    /\ BandwidthNext
    /\ UNCHANGED <<environment, params, kv, deny, events, policy, reputation>>

SetPolicyAnchor(v, h) ==
    policy' = [anchor |-> [n \in DOMAIN policy.anchor \cup {v} |->
                              IF n = v THEN [hash |-> h, epoch |-> 0, height |-> 1]
                              ELSE policy.anchor[n]],
               latest |-> v]

\* a bug: an anchored version is anchored again
AnchorAgain(v, h) ==
    /\ SetPolicyAnchor(v, h)
    /\ UNCHANGED <<bandwidthVars, environment, params, kv, deny, events, reputation>>

\* by the authority; an anchored version with the same hash is accepted and
\* changes nothing, one with another hash is refused
AnchorPolicyVersion(v, h) ==
    /\ v \notin DOMAIN policy.anchor
    /\ SetPolicyAnchor(v, h)
    /\ UNCHANGED <<bandwidthVars, environment, params, kv, deny, events, reputation>>

----------------------------------------------------------------------------
(* Export and import.  The exporting iterators have no end, so each list   *)
(* also meets the records of later prefixes and keeps those that decode.   *)
(* A field left out on the wire is zero or empty.  The records the list of *)
(* contributors meets are stored under the names of orgs and versions,     *)
(* which no serve key is, and are left out.                                *)

\* a stored receipt decodes as a denial when the two fields on whose wire type
\* the messages differ, is_self_serve and turn_count, are zero and left out
DecodesAsDenial(f) ==
    /\ kv.receipt[f] # NoReceipt
    /\ f[2] # kv.receipt[f].contributor
    /\ kv.receipt[f].turns = 0

Echoes == {f \in Fingerprints : DecodesAsDenial(f)}

\* it names no serve, and its serve key is the receipt's model id
AsDenial(f) == <<kv.receipt[f].org, f[1], f[3], kv.receipt[f].model, NoFingerprint>>

\* an anchor without epoch and height has but the two fields a denial has too
Bare == {n \in DOMAIN policy.anchor : policy.anchor[n].epoch = 0 /\ policy.anchor[n].height = 0}

Stray(n, h) == <<n, h, 0, NoModel, NoFingerprint>>

\* the value of the pointer is the bare text of a version; the documented kind
\* decodes as nothing, some texts, and the empty one, as a record without fields
PointerBlank == {n \in {NoOrg} : policy.latest \in BlankVersions \cup {NoOrg}}

\* the list of denials, each with the record it was read from
ExportedDenials ==
    {<<"denial", d, d>> : d \in deny.receipts}
        \cup {<<"receipt", f, AsDenial(f)>> : f \in Echoes}
        \cup {<<"anchor", n, Stray(n, policy.anchor[n].hash)>> : n \in Bare}
        \cup {<<"event", n, Stray(n, NoHash)>> : n \in events.blank}
        \cup {<<"pointer", n, Stray(n, NoHash)>> : n \in PointerBlank}

\* IncrementDenialCount and updateEpochDenialStats on each of them
ImportedDenials ==
    [receipts |-> {x[3] : x \in ExportedDenials},
     count |-> [m \in DenialKeys |->
                   Cardinality({x \in ExportedDenials : <<x[3][1], x[3][2], x[3][3]>> = m})],
     stray |-> [n \in Names \ Orgs |->
                   IF deny.stray[n] # 0 THEN deny.stray[n]
                   ELSE Cardinality({x \in ExportedDenials : x[3][1] = n})]]

\* a bug: the imported denials are added to the statistics
ImportCountsDenials(stats) ==
    [s \in DOMAIN stats |->
        [stats[s] EXCEPT !.denials = @ + Cardinality({f \in Echoes :
                                             kv.receipt[f].org = s[1] /\ f[3] = s[2]})]]

\* the exported statistics overwrite what importing the denials counted; an
\* org with a denial, an anchor or a blank event to its name has statistics
ImportedStats(stats) == stats

\* an anchor without fields 2 to 4 decodes as an event, which has no body
ImportedBlankEvents ==
    events.blank \cup {n \in Bare : policy.anchor[n].hash = NoHash} \cup PointerBlank

\* statistics of epoch 0 decode as an anchor: total_serves and unique_memories
\* have the numbers of its epoch and height, and the hash is left out
StatsAnchors ==
    [n \in {o \in Orgs : /\ 0 \in EpochIds
                         /\ kv.stats[<<o, 0>>].total + kv.stats[<<o, 0>>].denials > 0}
           \cup {m \in Names \ Orgs : deny.stray[m] > 0} |->
        IF n \in Orgs
        THEN [hash |-> NoHash, epoch |-> kv.stats[<<n, 0>>].total,
              height |-> kv.stats[<<n, 0>>].memories]
        ELSE BlankAnchor]

LastKey(N) == CHOOSE n \in N : \A m \in N : KeyOrder[m] <= KeyOrder[n]

\* in the order of the keys, anchors, pointer, statistics: each is stored, over
\* an earlier one of its name, and the latest points to it
ImportedPolicy ==
    LET counted == DOMAIN StatsAnchors
        all == DOMAIN policy.anchor \cup PointerBlank \cup counted
    IN  [anchor |-> [n \in all |-> IF n \in counted THEN StatsAnchors[n]
                                   ELSE IF n \in PointerBlank THEN BlankAnchor
                                   ELSE policy.anchor[n]],
         latest |-> IF counted # {} THEN LastKey(counted)
                    ELSE IF PointerBlank # {} THEN NoOrg
                    ELSE IF all # {} THEN LastKey(all)
                    ELSE NoVersion]

\* Signed events do not survive JSON: the oneof of a StoredEvent is an
\* interface, which Unmarshal refuses, and import panics.  Per-memory counts and
\* first markers are not restored; x/memory and x/bandwidth have no genesis.
GenesisRoundTrip ==
    /\ events.signed = {}
    /\ BandwidthRestart
    /\ contributor' = [o \in Orgs |-> [h \in Hashes |-> NoKey]]
    /\ params' = DefaultServeParams
    /\ kv' = [kv EXCEPT !.memCount = [m \in DOMAIN @ |-> 0],
                        !.memFirst = {},
                        !.keyFirst = {},
                        !.stats = ImportedStats(@)]
    /\ deny' = ImportedDenials
    /\ events' = [events EXCEPT !.blank = ImportedBlankEvents]
    /\ policy' = ImportedPolicy
    /\ UNCHANGED <<servingKey, active, reputation>>

EventEntry == [hash : Hashes, body : EventBodies, signed : Verdicts]

Next ==
    \/ BandwidthStep
    \/ \E p \in ServeParams : UpdateParams(p)
    \/ \E o \in Orgs, signer \in Signers : RotateServingKey(o, signer)
    \/ \E o \in Orgs, h \in Hashes, k \in ServeKeys : MemoryApproved(o, h, k)
    \/ \E v \in Versions, h \in PolicyHashes : AnchorPolicyVersion(v, h)
    \/ \E signer \in Signers, o \in Orgs, e \in EpochIds :
          \/ \E b \in Batches(ServeEntry, MaxServes) : SubmitServeBatch(signer, o, e, b)
          \/ \E b \in Batches(DenialEntry, MaxDenials) : SubmitDenialBatch(signer, o, e, b)
          \/ \E b \in Batches(EventEntry, MaxEvents) : SubmitEventBatch(signer, o, e, b)

Spec == Init /\ [][Next]_vars

\* with exports and imports
RestartSpec == Init /\ [][Next \/ GenesisRoundTrip]_vars

----------------------------------------------------------------------------
(* Properties.                                                             *)

\* The fields of the stores of x/serve, x/bandwidth and x/reputation.
TypeOK ==
    /\ BandwidthTypeOK
    /\ servingKey \in [Orgs -> Signers \cup {NoKey}]
    /\ contributor \in [Orgs -> [Hashes -> ServeKeys \cup {NoKey}]]
    /\ params \in ServeParams
    /\ kv.receipt \in [Fingerprints -> ServeReceipt]
    /\ kv.memCount \in [Orgs \X Hashes \X EpochIds -> Nat]
    /\ kv.stats \in [Orgs \X EpochIds ->
                        [memories : Nat, keys : Nat, total : Nat, self : Nat,
                         models : [Models -> Nat], denials : Nat]]
    /\ kv.contributor \in [ServeKeys \X EpochIds -> ServeTally]
    /\ deny.receipts \subseteq DenialReceipt \cup StrayDenial
    /\ deny.count \in [DenialKeys -> Nat] /\ deny.stray \in [Names \ Orgs -> Nat]
    /\ events.blank \subseteq Names
    /\ DOMAIN policy.anchor \subseteq Names
    /\ policy.anchor \in [DOMAIN policy.anchor -> PolicyAnchor]
    /\ policy.latest \in Names \cup {NoVersion}
    /\ reputation \in [ServeKeys -> ServeTally]

Receipts(P(_)) == {f \in Fingerprints : kv.receipt[f] # NoReceipt /\ P(f)}

OfOrg(o, e) == Receipts(LAMBDA f : kv.receipt[f].org = o /\ f[3] = e)

Self(F) == {f \in F : f[2] = kv.receipt[f].contributor}

\* The statistics and the per-memory counts that ProcessServeBatch and
\* SubmitDenialBatch update entry by entry agree with the receipts stored:
\* after any batches, of any orgs, with entries accepted and rejected among
\* them, totals, self serves, unique memories and unique keys are those of the
\* receipts of the (org, epoch), and the denials those of its denial receipts.
StatsMatchReceipts ==
    \A o \in Orgs, e \in EpochIds :
        LET served == OfOrg(o, e)
            denied == {d \in deny.receipts : d[1] = o /\ d[3] = e}
        IN  /\ kv.stats[<<o, e>>] =
                  [memories |-> Cardinality({f[1] : f \in served}),
                   keys |-> Cardinality({f[2] : f \in served}),
                   total |-> Cardinality(served),
                   self |-> Cardinality(Self(served)),
                   models |-> [m \in Models |-> Cardinality({f \in served :
                                  kv.receipt[f].model = m /\ m # NoModel})],
                   denials |-> Cardinality(denied)]
            /\ \A h \in Hashes :
                  /\ kv.memCount[<<o, h, e>>] = Cardinality({f \in served : f[1] = h})
                  /\ deny.count[<<o, h, e>>] = Cardinality({d \in denied : d[2] = h})

\* A receipt is paid for: the receipts of an (org, epoch) never exceed the
\* bandwidth consumed for it, which never exceeds the cap it was created with,
\* whatever overrides and parameter changes come in between
\* (ConsumeServeBandwidth charges a batch before its entries are judged).
ReceiptsWithinBandwidth ==
    \A o \in Orgs, e \in EpochIds :
        /\ Cardinality(OfOrg(o, e)) <= bandwidth[<<o, e>>].used
        /\ bandwidth[<<o, e>>].used <= bandwidth[<<o, e>>].cap

\* The summaries of updateContributorServes are those of the receipts that
\* name the contributor, over all orgs of the epoch.
ContributorServesMatch ==
    \A k \in ServeKeys, e \in EpochIds :
        LET named == Receipts(LAMBDA f : kv.receipt[f].contributor = k /\ f[3] = e)
        IN  kv.contributor[<<k, e>>] =
                [count |-> Cardinality(named),
                 self |-> Cardinality(Self(named)),
                 turns |-> SumFunctionOnSet([f \in named |-> kv.receipt[f].turns], named),
                 orgs |-> {kv.receipt[f].org : f \in named}]

\* Reputation goes to whom the memory record names: while x/reputation is active
\* the serves recorded for a key are exactly the receipts of memories whose
\* approved record names it, whatever contributor the entries named (RecordServe).
\* Which of them count as self serves is decided by the entry's contributor.
ReputationFollowsMemory ==
    \A k \in ServeKeys :
        LET own == Receipts(LAMBDA f : contributor[kv.receipt[f].org][f[1]] = k)
        IN  /\ active => /\ reputation[k].count = Cardinality(own)
                         /\ reputation[k].self = Cardinality(Self(own))
                         /\ reputation[k].orgs = {kv.receipt[f].org : f \in own}
            /\ ~active => reputation[k] = NoServes

\* Exports and imports included, a denial with a consumer's key stands on a
\* serve, the stored receipt its fingerprint names, of the same memory and the
\* same key (SubmitDenialBatch): whatever records InitGenesis takes for denials,
\* none has a serve key.  The denial counts of a memory are exact unless one of
\* its receipts was stored without turns and may have been taken for a denial.
DenialsStandOnServes ==
    /\ \A d \in deny.receipts : d[4] \in ServeKeys =>
          /\ d[5] \in Fingerprints
          /\ kv.receipt[d[5]] # NoReceipt
          /\ d[2] = d[5][1]
          /\ d[4] = d[5][2]
    /\ \A m \in Orgs \X Hashes \X EpochIds :
          (\A f \in Echoes : <<kv.receipt[f].org, f[1], f[3]>> # m) =>
              deny.count[m] = Cardinality({d \in deny.receipts : <<d[1], d[2], d[3]>> = m})

\* What the statistics still say after exports and imports: totals, self serves
\* and denials are those of the receipts and of the denials with a serve; the
\* unique counters never fall below the distinct memories and keys, and the
\* per-memory count never exceeds the receipts (InitGenesis restores neither
\* the counts nor the first-serve markers).
StatsSurviveImport ==
    \A o \in Orgs, e \in EpochIds :
        LET served == OfOrg(o, e)
            stats == kv.stats[<<o, e>>]
        IN  /\ stats.total = Cardinality(served)
            /\ stats.self = Cardinality(Self(served))
            /\ stats.denials = Cardinality({d \in deny.receipts :
                                   d[1] = o /\ d[3] = e /\ d[5] # NoFingerprint})
            /\ stats.memories \in Cardinality({f[1] : f \in served}) .. stats.total
            /\ stats.keys \in Cardinality({f[2] : f \in served}) .. stats.total
            /\ \A h \in Hashes : kv.memCount[<<o, h, e>>] <= Cardinality({f \in served : f[1] = h})

\* An anchor made by a message is final, across imports too; one seeded at
\* genesis may lose its hash in an import, which takes it for the statistics of
\* an org, and never has another (SetPolicyAnchor, InitGenesis).  From the first
\* anchor on the latest one points to a stored record.
AnchorsFinal ==
    [][/\ \A v \in Versions \cap DOMAIN policy.anchor :
             /\ v \in DOMAIN policy'.anchor
             /\ \/ policy'.anchor[v] = policy.anchor[v]
                \/ policy.anchor[v].height = 0 /\ policy'.anchor[v].hash = NoHash
       /\ policy.latest # NoVersion => policy'.latest # NoVersion
       /\ policy'.latest # NoVersion => policy'.latest \in DOMAIN policy'.anchor]_vars

\* docs/WHITEPAPER.md: of the genesis format, "Export iterates all prefixes
\* faithfully": a chain can be started from what a running one exports.
ExportCanBeImported == ENABLED GenesisRoundTrip

\* A stored receipt is never replaced, so a replayed entry cannot move a serve
\* to another org or contributor, and a batch that serves a memory leaves it
\* within the per-memory cap in force (ProcessServeBatch).
ReceiptsFinal ==
    [][/\ \A f \in Fingerprints : kv.receipt[f] # NoReceipt => kv'.receipt[f] = kv.receipt[f]
       /\ \A m \in DOMAIN kv.memCount :
             kv'.memCount[m] # kv.memCount[m] => kv'.memCount[m] <= params.perMemory]_vars

\* The cap of an (org, epoch) is the one in force at its first batch: no later
\* override or parameter change reopens or shrinks it (GetOrInitBandwidthState).
CapFixedAtFirstUse ==
    [][\A s \in DOMAIN bandwidth :
          bandwidth[s].stored => /\ bandwidth'[s].cap = bandwidth[s].cap
                                 /\ bandwidth'[s].used >= bandwidth[s].used]_vars
=============================================================================
