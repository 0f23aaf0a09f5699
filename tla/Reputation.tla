----------------------------- MODULE Reputation -----------------------------
(***************************************************************************)
(* x/reputation: the statistics of a developer, fed by attestations        *)
(* (MsgUpdateReputation) and by the serves x/serve records, and the        *)
(* profiles the authority's messages count in.  A handler that panics is   *)
(* rolled back with its transaction, so a panic is a guard here.           *)
(***************************************************************************)
EXTENDS Integers, FiniteSets, FiniteSetsExt, Functions

CONSTANTS
    Developers,     \* developer ids: byte strings
    Contributors,   \* those that are the contributor of a memory
    JSONText,       \* the text an id becomes in an exported genesis file
    Orgs,
    EpochIds,       \* epochs a serve may name
    CIDs,           \* memory CIDs
    Tags,           \* domain tags other than ""
    Provenances,
    NoProvenance,   \* ""
    Grades,         \* difficulties and qualities a message may carry
    MaxTagged,      \* bound: how often a message repeats a tag
    Weights,        \* values of [other, self]: XP per serve
    DefaultWeights,
    ActiveFlags,    \* the active flags a genesis may carry
    ServeCounts,    \* serve counts of MsgIncrementServe
    MaxAttested,    \* bounds on the attestations counted in all records,
    MaxServed,      \* on the serves
    MaxCounted      \* and on what the profiles count

MaxGrade == 10

ASSUME ReputationConstants ==
    /\ \A S \in {Developers, Orgs, CIDs, Tags, Provenances, Weights} : IsFiniteSet(S)
    /\ NoProvenance \notin Provenances
    /\ Grades \subseteq Nat /\ MaxTagged \in Nat
    /\ Weights \subseteq [other : Nat, self : Nat]
    /\ DefaultWeights \in Weights
    /\ EpochIds \subseteq Nat
    /\ ServeCounts \subseteq Nat
    /\ ActiveFlags \subseteq BOOLEAN
    /\ JSONText \in [Developers -> Developers]
    /\ \A d \in Developers : JSONText[JSONText[d]] = JSONText[d]
    \* the contributor of a memory is a hex string: its id is its text alone
    /\ \A c \in Contributors : {d \in Developers : JSONText[d] = c} = {c}

VARIABLES
    active,     \* active/
    params,     \* the XP weights; Active and the two maxima are never read
    stats,      \* stats/{developer}
    memories,   \* memory/{developer}/{cid}
    orgSet,     \* orgset/{developer}
    profile     \* profile/{contributor}/{org}

vars == <<active, params, stats, memories, orgSet, profile>>

Zero(S) == [x \in S |-> 0]

StoredReputationStats ==
    [stored : BOOLEAN, memoryCount : Nat, bucket : [0 .. MaxGrade -> Nat],
     tags : [Tags -> Nat], provenance : [Provenances -> Nat], xp : Nat,
     serves : Nat, selfServes : Nat, breadth : Nat, firstSeen : Nat, serveXP : Nat]

NoStats ==
    [stored |-> FALSE, memoryCount |-> 0, bucket |-> Zero(0 .. MaxGrade),
     tags |-> Zero(Tags), provenance |-> Zero(Provenances), xp |-> 0,
     serves |-> 0, selfServes |-> 0, breadth |-> 0, firstSeen |-> 0, serveXP |-> 0]

AttestedMemory ==
    [cid : CIDs, difficulty : Grades, quality : Grades,
     tags : [Tags -> 0 .. MaxTagged], provenance : Provenances \cup {NoProvenance}]

StoredContributorProfile == [approved : Nat, received : Nat, upheld : Nat]

NoProfile == [approved |-> 0, received |-> 0, upheld |-> 0]

----------------------------------------------------------------------------
(* Attestations and serves.                                                *)

Init ==
    /\ active \in ActiveFlags
    /\ params = DefaultWeights
    /\ stats = [d \in Developers |-> NoStats]
    /\ memories = [d \in Developers |-> {}]
    /\ orgSet = [d \in Developers |-> {}]
    /\ profile = [p \in Developers \X Orgs |-> NoProfile]

\* a bug: the grades are not validated, and only the bucket checks its index
AnyGrades(m) == TRUE

ValidateBasic(m) == m.difficulty <= MaxGrade /\ m.quality <= MaxGrade

\* Unmarshal makes a map when it meets the first entry of one, so the maps of
\* a stored record are nil while they are empty, and writing an entry panics;
\* those of NewReputationStats are not
NilMapWritten(s, m) ==
    /\ s.stored
    /\ \/ s.tags = Zero(Tags) /\ m.tags # Zero(Tags)
       \/ s.provenance = Zero(Provenances) /\ m.provenance # NoProvenance

AddMemory(s, m) ==
    [s EXCEPT !.stored = TRUE,
              !.memoryCount = @ + 1,
              !.bucket = [g \in DOMAIN @ |-> @[g] + IF g = m.difficulty THEN 1 ELSE 0],
              !.tags = [t \in Tags |-> @[t] + m.tags[t]],
              !.provenance = [p \in Provenances |-> @[p] + IF p = m.provenance THEN 1 ELSE 0],
              !.xp = @ + m.difficulty * m.quality]

\* any signer may attest for any developer; a CID seen before counts again
UpdateReputation(d, m) ==
    /\ ValidateBasic(m)
    /\ active
    /\ ~NilMapWritten(stats[d], m)
    /\ stats' = [stats EXCEPT ![d] = AddMemory(@, m)]
    /\ memories' = [memories EXCEPT ![d] = @ \cup {m.cid}]
    /\ UNCHANGED <<active, params, orgSet, profile>>

\* a bug: the self counter counts down on the serves of others
SelfServesDown(d, o, e, self) ==
    /\ active
    /\ stats' = [stats EXCEPT ![d].stored = TRUE,
                              ![d].serves = @ + 1,
                              ![d].selfServes = @ - IF self THEN 0 ELSE 1]
    /\ UNCHANGED <<active, params, memories, orgSet, profile>>

\* a bug: the org set is not looked up before the breadth grows
AnyOrg(d, o) == TRUE

NewOrg(d, o) == o \notin orgSet[d]

\* a serve in epoch e counted in the record s
AddServe(s, e, self, isNew) ==
    [s EXCEPT !.stored = TRUE,
              !.serves = @ + 1,
              !.selfServes = @ + IF self THEN 1 ELSE 0,
              !.serveXP = @ + IF self THEN params.self ELSE params.other,
              !.firstSeen = IF @ = 0 THEN e ELSE @,
              !.breadth = @ + IF isNew THEN 1 ELSE 0]

\* called by x/serve for the contributor of the memory served
RecordServe(d, o, e, self) ==
    /\ active
    /\ stats' = [stats EXCEPT ![d] = AddServe(@, e, self, NewOrg(d, o))]
    /\ orgSet' = [orgSet EXCEPT ![d] = @ \cup {o}]
    /\ UNCHANGED <<active, params, memories, profile>>

----------------------------------------------------------------------------
(* The authority's messages and genesis.                                   *)

UpdateParams(w) ==
    /\ params' = w
    /\ UNCHANGED <<active, stats, memories, orgSet, profile>>

\* the profile messages ask neither for the active flag nor for the memory
IncrementContribution(c, o) ==
    /\ profile' = [profile EXCEPT ![<<c, o>>].approved = @ + 1]
    /\ UNCHANGED <<active, params, stats, memories, orgSet>>

IncrementServe(c, o, n) ==
    /\ profile' = [profile EXCEPT ![<<c, o>>].received = @ + n]
    /\ UNCHANGED <<active, params, stats, memories, orgSet>>

RecordBan(c, o) ==
    /\ profile' = [profile EXCEPT ![<<c, o>>].upheld = @ + 1]
    /\ UNCHANGED <<active, params, stats, memories, orgSet>>

\* a bug: only records with attestations are exported
ExportedIfAttested(d) == {x \in Developers : stats[x].memoryCount > 0 /\ JSONText[x] = d}

\* the stored records an import writes to the id d, one over the other
ExportedAs(d) == {x \in Developers : stats[x].stored /\ JSONText[x] = d}

\* Export and import through JSON, which replaces the bytes of an id that are
\* not UTF-8 (the records come out of a Go map, in any order).  The attested
\* memories and the profiles are not exported, the parameters are reset.
GenesisRoundTrip ==
    /\ params' = DefaultWeights
    /\ \E source \in [Developers -> Developers] :
          /\ \A d \in Developers : ExportedAs(d) # {} => source[d] \in ExportedAs(d)
          /\ stats' = [d \in Developers |->
                          IF ExportedAs(d) = {} THEN NoStats ELSE stats[source[d]]]
    /\ memories' = [d \in Developers |-> {}]
    /\ profile' = [p \in Developers \X Orgs |-> NoProfile]
    /\ UNCHANGED <<active, orgSet>>

Attested == SumFunction([d \in Developers |-> stats[d].memoryCount])

Served == SumFunction([d \in Developers |-> stats[d].serves])

Counted ==
    SumFunction([p \in Developers \X Orgs |->
                    profile[p].approved + profile[p].received + profile[p].upheld])

Next ==
    \/ /\ Attested < MaxAttested
       /\ \E d \in Developers, m \in AttestedMemory : UpdateReputation(d, m)
    \/ /\ Served < MaxServed
       /\ \E c \in Contributors, o \in Orgs, e \in EpochIds, self \in BOOLEAN :
             RecordServe(c, o, e, self)
    \/ \E w \in Weights : UpdateParams(w)
    \/ /\ Counted < MaxCounted
       /\ \E c \in Contributors, o \in Orgs :
             \/ IncrementContribution(c, o)
             \/ RecordBan(c, o)
             \/ \E n \in ServeCounts : IncrementServe(c, o, n)
    \/ GenesisRoundTrip

Spec == Init /\ [][Next]_vars

----------------------------------------------------------------------------
(* Properties.                                                             *)

\* The fields of the store of x/reputation.
TypeOK ==
    /\ active \in ActiveFlags
    /\ params \in Weights
    /\ stats \in [Developers -> StoredReputationStats]
    /\ memories \in [Developers -> SUBSET CIDs]
    /\ orgSet \in [Developers -> SUBSET Orgs]
    /\ profile \in [Developers \X Orgs -> StoredContributorProfile]

\* The parts of a record agree after attestations, resubmissions of a CID,
\* serves and imports in any order: the histogram adds up to MemoryCount, which
\* GetAverageDifficulty divides by, every XP point is backed by a difficulty in
\* it, and no stored memory is missing from the count (AddMemory).
StatsAddUp ==
    \A d \in Developers :
        LET s == stats[d]
            graded == [g \in 0 .. MaxGrade |-> g * s.bucket[g]]
        IN  /\ SumFunctionOnSet(s.bucket, 0 .. MaxGrade) = s.memoryCount
            /\ SumFunctionOnSet(s.provenance, Provenances) <= s.memoryCount
            /\ s.xp <= MaxGrade * SumFunctionOnSet(graded, 0 .. MaxGrade)
            /\ Cardinality(memories[d]) <= s.memoryCount

\* OrgBreadth, kept in one record, is the size of the org set, kept in another
\* and exported on its own; a developer served has at least a serve in each of
\* those orgs, and a serve XP between the lowest and the highest weights
\* (RecordServe, InitGenesisState).
BreadthIsOrgs ==
    \A d \in Developers :
        LET s == stats[d]
            weights == {w.other : w \in Weights} \cup {w.self : w \in Weights}
        IN  /\ s.breadth = Cardinality(orgSet[d])
            /\ s.breadth <= s.serves
            /\ s.selfServes <= s.serves
            /\ s.serveXP \in s.serves * Min(weights) .. s.serves * Max(weights)

\* What a developer has earned is never lost or lowered, and the epoch it was
\* first seen in never changes, across exports and imports as well, when its
\* id is text that no other id becomes (RecordServe, AddMemory and genesis).
StandingKept ==
    [][\A d \in Developers :
          {x \in Developers : JSONText[x] = d} = {d} =>
              LET s == stats[d]
                  t == stats'[d]
              IN  /\ t.memoryCount >= s.memoryCount
                  /\ t.xp >= s.xp
                  /\ t.serveXP >= s.serveXP
                  /\ \A tag \in Tags : t.tags[tag] >= s.tags[tag]
                  /\ s.firstSeen # 0 => t.firstSeen = s.firstSeen
                  /\ s.stored => t.stored]_vars

\* docs/ARCHITECTURE.md: "Domain expertise: Tags and difficulty buckets
\* accumulate".  While the module is active an attestation with valid grades is
\* recorded, whatever the developer's record holds (UpdateReputation).
AttestationsAccumulate ==
    active => \A d \in Developers, m \in AttestedMemory :
                  ValidateBasic(m) => ENABLED UpdateReputation(d, m)
=============================================================================
