# A TLA+ model of wevibe-chain

wevibe-chain is a Cosmos SDK application chain. Organizations (orgs) register on
it, their leaders commit and approve memories (content hashes), hubs report how
often memories are served, and contributors are rewarded from an emission
schedule. This directory models the state machine of its custom modules in TLA+,
checks it with TLC on small instances and proves with TLAPS, for every instance,
all of the safety properties those runs check.

## How the code runs

Every state change is a transaction handler, an epoch hook or a genesis import.

- **Transaction handlers** run one after another in a block. A handler that
  returns an error is rolled back, so it is a stuttering step of the model; a
  handler that succeeds is one action with all of its writes.
- **Epoch hooks** run when `x/epochs` ends an epoch. They swallow errors, so
  what a failing hook wrote before the error stays. That is modelled where a hook
  can fail half-way (`AfterEpochEnd` of `Emissions`).
- **Export and import** restart a chain from its own genesis file. What a module
  does not export is lost (`GenesisRoundTrip`).

There is no concurrency inside a block; the interleavings that matter are those
of signers, governance, hooks and imports, and every order of them is explored.

## Inventory

| Part | Source | Modelled by |
|---|---|---|
| org registry, members, fees, fee allowances | `x/org/keeper` | `Org`; proofs `OrgProofs` |
| commitments, approvals, reports, Merkle roots | `x/memory/keeper` | `Memory`; proofs `MemoryProofs` |
| emission schedule, contributor rewards | `x/emissions/keeper` | `Emissions`, abstractly `EmissionLedger`; proofs `EmissionsProofs` |
| passkey aliases | `x/identity/keeper` | `Identity` |
| epoch hooks as registered by the application | `app/app.go`, `x/*/keeper/epoch_hooks.go` | `EpochPipeline`; proofs `EpochPipelineProofs` |
| serve, denial and event batches, policy anchors, genesis | `x/serve/keeper`, `x/serve/module` | `Serve`; proofs `ServeProofs`, `ServeCountProofs` |
| serve bandwidth | `x/bandwidth/keeper` | `Bandwidth`; proofs with those of `Serve` |
| reputation statistics, org sets, contributor profiles, genesis | `x/reputation/keeper`, `x/reputation/module` | `Reputation`; proofs `ReputationProofs` |
| leader and moderator profiles | `x/reputation/keeper` | inside `Memory`, which drives them |
| bootstrap credits, asymmetric gate | `x/emissions/keeper` | no: no caller |
| memory validity, relationships | `x/memory/keeper/validity.go`, `relationships.go` | no: never written in a running chain |
| attestation | `x/attestation` | no: every submission is refused |
| daemon, queries, codecs, generated code | `cmd`, `app`, `x/*/types` | no: no consensus state of their own |

`PROJECT.json` repeats this list with the reasons, lists the hazards of the code
at their lines, and maps every definition to the lines it models.

## Modules

**Org.** State: the stored org, member records, configuration, slot registry,
parameters, and the parts of `x/bank` and `x/feegrant` the handlers touch. One
action per message. Amounts are `uint64`; `SlotPrice` keeps the conversion to
`int64` and the fallback to the base price, with the word size as the constant
`Word`, so a small word makes the overflow happen. Signers are accounts, leaders
are public keys, and an org may have no wallet. An allowance is a granter, a grantee
and what it pays for: the messages of `x/serve`, those of a leader, or a trial.
`x/feegrant` refuses a second one between the same two accounts, whatever it pays
for, and the message that asked for it fails (`CanGrant`); so a serving key that was
replaced cannot be set again, nor a former wallet. Allowances of an org account have
no limit and are never revoked; a trial ends by expiry, use or revocation
(`TrialEnds`). `Spec` has no import,
`RestartSpec` has: an import resets `TotalActiveMembers` and part of the
configuration.

**Identity, Emissions.** `MintBeforeSave` is what `MintDailyEmission` has written
before it saves the pool; the authority's message requires the save to succeed,
the hook does not. A pool whose shares do not add up to 100 makes the save fail;
such a pool is one of the genesis inputs. Approval counts are an input here and
computed in `EpochPipeline`. The history variable `forgotten` records what an
import drops, so the accounting properties stay equalities across imports.

**EmissionLedger.** What `x/emissions` promises, with no pools, schedule,
threshold or records: epochs are released in order out of a fixed reserve, the
winners of an epoch get equal shares backed by coins, a key is bound to one wallet
for ever and its whole balance is paid to that wallet. Two concessions to the code
are actions of their own: `UnsavedRelease` (the hook swallowed the error of the
save) and `Forget` (an import drops the balances). `Ledger` in `Emissions` is the
refinement mapping: the reserve is the sum of the two pools and the rollover, the
vault the module account, the owner of a key what `ResolveIdentity` answers.

**Memory.** Orgs are numbered in store-key order because two iterators have no
end key: the pending count of an org runs into later keys, and the Merkle leaves
into later orgs. What `x/org` answers (leader, wallet, contributors) changes at
any time (`OrgStep`). Signature and hash checks of `ApproveMemory` precede every
write; an approval failing one is a stuttering step. A report's list of approving
moderators is given by how often it names each, because a moderator listed twice is
charged twice. The field `approvedIn` of a
memory is the running epoch, which the code does not store; only properties read
it. An import loses the module's state, because the module does not implement the
SDK's genesis interface.

**EpochPipeline.** Instances of `Memory` and `Emissions` sharing the epoch, with
the hooks in the order `app.go` registers them: emissions asks for the approvals
of the ending epoch, then memory records that the epoch ended. `Spec` is fair (see
below); `HookSpec` leaves the authority's mints out.

**Bandwidth, Serve.** A batch is a sequence of entries folded over the store as
the code's loop does, after the bandwidth of the whole batch is charged. A
fingerprint is the tuple the code hashes (collision-free), so it leaves out the
org exactly as the code does. Entries carry a `signed` flag for the outcome of
signature verification and the contributor the submitter claims. Rotation of the
serving key and approval of memories are environment steps. No check refuses epoch 0.
Genesis may be seeded with a policy anchor, which then has epoch and height 0
(`scripts/init-chain.sh:225`).

`RestartSpec` adds the export and import. Per-memory counts and first-serve markers are
not restored, and an event cannot be read back at all, so the import is enabled only
while there is none. The exporting iterators have no end, so each list also keeps the
records of later prefixes that happen to decode:
- as a denial: a receipt of another's serve without turns (`Echoes`), an anchor without
  epoch and height (`Bare`), a record without fields. Importing one counts a denial and
  starts statistics, of epoch 0, for the name it carries;
- as an event: an anchor that has only its name (`ImportedBlankEvents`);
- as an anchor: statistics of epoch 0, whose total and unique memories take the place
  of epoch and height and which have no hash (`StatsAnchors`). Each imported anchor
  replaces the one of its name and moves the latest pointer, so the statistics a seeded
  anchor caused at one import take away its hash at the next.

The pointer's own value is the text of a version, and decodes, if at all, as a record
without fields; `BlankVersions` are the versions for which it does. Some of these
records also decode as summaries of a contributor whose name is an org's or a
version's; nothing reads them under such a name and they are left out.

**Reputation.** A developer's statistics are written by attestations and by
serves; `stored` says that the record was written, because a record read back has
nil maps where it has no entries (`NilMapWritten`). Ids are byte strings and the
genesis file is JSON text: the constant `JSONText` is what becomes of an id, and
ids that become the same text overwrite each other on import. The active flag is
set at genesis and never afterwards. `Serve` keeps its own, smaller view of the
same statistics, for the properties that relate them to receipts.

The modules whose names start with `MC` only supply constants for TLC.
Operators commented "a bug" are deliberately wrong variants of a definition; each
property of a passing run is violated when one of them is put in place.

## Runs

Passing runs:

| Run | Question | Bounds |
|---|---|---|
| `org_registry` | Do slots, fees and the member counter stay right with imports at any point? | 2 orgs, 2 keys, 2 accounts, a 7-bit word, an odd price and one whose `int64` is negative |
| `org_roster` | Does any order of joins, removals, transfers, rotations and closing keep one leader, an exact count, sponsored and separate authorities, a frozen closed org and a frozen walletless org? | 1 org, 3 keys, 4 accounts of which one may get a trial |
| `emissions_rewards` | Is every uvibe accounted for, each reward backed, paid once and to its owner, and each epoch emitted once? | 3 epochs, 2 passkeys, 2 wallets, 2 parameter sets, valid and refused pools |
| `memory_counts` | Do counters in three modules agree with the memories and reports, is the cap respected, are memories final and what becomes of a resubmission, and which epoch is stamped? | 1 org, 2 hashes, 2 leaders, 1 reporter, a moderator listed up to twice, 2 epoch ends |
| `pipeline_rollover` | What does the wiring do with the contributor budget, is the validator emission flat and the pool empty at the end, is every epoch settled? | schedule of 4 epochs, 5 epochs, pools with every remainder and one that cannot be saved, 1 hash |
| `serve_batches` | Do statistics, summaries and reputation agree with the receipts, are receipts paid for and final, and the cap fixed at first use? | 2 orgs holding one memory, 2 serve keys, serve batches of 2, denials, 2 caps, 2 parameter sets |
| `serve_restart` | What do receipts, denials, statistics and anchors still say after imports at any point? | 1 org, epoch 0, 2 serve keys, serves with and without turns, 2 policy versions, one of them seeded, 2 hashes, 1 event |
| `reputation` | Do the parts of a record agree, and does a developer keep what they earned? | a contributor and two ids that JSON makes one, 2 orgs, 2 weights, valid and invalid grades, 2 attestations, 2 serves |

`emissions_rewards` also checks that `Emissions` implements `EmissionLedger`
(`ImplementsLedger`).

The bounds are the smallest at which the interesting case occurs: two orgs for
interference through shared keys, three keys for a transfer followed by a removal
and a re-addition, two entries for a duplicate inside a batch, one epoch more than
the schedule for its end, an import between two serves of the same memory, four
accounts for two rotations of each authority. Deadlock is not checked because the bounded counters
make every instance stop.

Runs that are expected to be violated; each states what a document says:

| Run | Document | What the code does |
|---|---|---|
| `pipeline_rewards` | `README.md:81`, reward over approval-qualified contributors | a memory is stamped with the last ended epoch, and that epoch has already been emitted, so nobody qualifies and the budget rolls over |
| the same | `docs/PDP.md:26`, Merkle roots over the epoch's approved memories; `docs/WHITEPAPER.md:440` | every commitment carries epoch 0 and roots select by the ending epoch, so no root covers a memory |
| `memory_reports` | `x/memory/keeper/keeper.go:174`, the contributor's upheld report count | a report raises the contributor's approved memories |
| the same | `x/memory/keeper/keeper.go:186`, the committing leader's upheld report count | the profile of the signing wallet is charged, not that of the leader who committed |
| `reputation_attest` | `docs/ARCHITECTURE.md:475`, tags and difficulty buckets accumulate | an attestation with a tag or a provenance panics when the stored record has none, for instance after a serve |
| `serve_import` | `docs/WHITEPAPER.md:732`, export iterates all prefixes faithfully | once an event is stored, the import of the module's own export panics |

`ApprovalsSettled` and `ReportsCharged` each ask for one of two documented effects at
least; the counterexamples have neither.

Further differences between text and code that the model follows and no run of
its own shows:

- `TransferLeadership` looks neither at the org's status
  (`x/org/docs/TOPOLOGY.md:22` says it does) nor at whether the new leader leads
  another org (which `RegisterOrg` refuses).
- `docs/MODULES.md:405` calls `max_pending_per_org` the maximum of pending
  commitments per org; the count includes later orgs, every report and a store
  marker (`IteratedPending`), so an org may be refused below it.
- `docs/PDP.md:97` says counter stores are populated when attestations are loaded;
  they start at zero (`StatsSurviveImport` states what remains), and so an import
  reopens the per-memory cap.
- `docs/PDP.md:100` says each denial is linked to its serve; one that an import made
  out of a receipt or an anchor is not, and is told apart by having no serve key
  (`DenialsStandOnServes`).
- `README.md:68` says the anchor seeded at genesis records its policy hash, and
  `TestPolicyAnchor_StoreImmutabilityAndLatest` (`x/serve/keeper/keeper_test.go:536`)
  that a hash is immutable; two imports leave a seeded anchor without one
  (`AnchorsFinal` states what stays).
- `docs/API.md:1084` speaks of the latest anchored policy; after an import it is the
  greatest version, or an org with statistics of epoch 0.
- `docs/ARCHITECTURE.md:472` says governance toggles reputation by `Params.active`;
  only the flag set at genesis is read. The parameters' maxima of difficulty and
  quality are not read either.
- `docs/PDP.md:72` says the memory module's collections are exported; the
  application never calls its genesis functions. `ApprovedFinal` excepts imports.

## Fairness and liveness

Weak fairness of `EpochEnd` is all that is assumed (`EpochPipeline`): `x/epochs`
compares the block time with the end of the epoch in every BeginBlock, so as long
as blocks are made an epoch that is over ends. Nothing obliges a signer to submit
a message, and no message is assumed to be sent. Under it:

- `EveryEpochSettles`: each epoch, or a later one, is recorded by `x/memory` and,
  unless the pool cannot be saved, emitted.
- `SchedulePaysOut`: the validator pool is emptied, unless the authority minted an
  epoch ahead of its time. The exception is real: a mint for a later epoch makes
  the hook pass over the epochs in between.

The epochs of the instance are bounded (`MaxEpoch`, one more than the schedule); a
behaviour that reaches the bound has settled all of them.

## Proofs

Every invariant and every action property of a passing run is also a theorem, for
all values of the constants that satisfy the named assumptions (`OrgConstants`,
`EmissionsConstants`, `MemoryConstants`, `PipelineConstants`, `BandwidthConstants`,
`ServeConstants`, `ReputationConstants`). Those say what kind of values a constant
has, that the sets that are counted or summed over are finite, and that the values
standing for "none" are none of the others. TLC evaluates them in the runs of their modules. Each
theorem follows from an inductive invariant with one step per action; `Spec` has no
import, `RestartSpec` has. The `USE` line of a proof module names the provers of its
leaves, Zenon and then SMT; a leaf that needs arithmetic or records names SMT itself.

**SumTheorems** has what all of them use: a sum over a finite set is that of its
parts, changes by the change of one term, and is zero when all terms are; a finite
set of integers has a least and a greatest element. The prover cannot instantiate
an induction principle over an operator, so `SubsetInduction` is stated for a set
of good sets and follows from the well-foundedness of the strict subset ordering.

**OrgProofs.**
- `RegistryCorrect` (`RestartSpec`): types, contiguous slots, one leader per org.
  `UniqueLeader` is not inductive: `RegisterOrg` writes a member record into a
  slot, so the slot must hold no leftovers, and `TransferLeadership` demotes the
  recorded leader, so the record must name a real key. `CleanSlots` says both.
- `FeesAlwaysConserved`: the sum over the accounts, by `SumTheorems`; overflowing
  prices included.
- `MemberCountCorrect` (`Spec`; an import resets the counter) and
  `MemberCountStaysBounded` (`RestartSpec`): each step changes the finite set of
  members by at most one element and the counter with it.
- `AuthoritiesAlwaysSponsored` and `AuthoritiesStaySeparate` (`RestartSpec`): an org
  account has at most one allowance per grantee (`OneScope`), so when the wallet holds
  a leader's and the serving key one for `x/serve`, they are two accounts.
- The action properties `ClosedRostersFrozen` and
  `WalletlessOrgsFrozen`.

**EmissionsProofs.** `LedgerInv` adds to the properties that no daily record is ever
overwritten (`RecordsFresh`) and that a passkey without a wallet was never paid
(`UnboundUnpaid`).
- `RewardsCorrect`: types, `SupplyConserved`, `RewardsBacked`, `ClaimsPaidToOwner`;
  `ScheduleCorrect`: each epoch is emitted once.
- `LedgerImplemented`: `Emissions` implements `EmissionLedger` under the refinement
  mapping, step by step.
- `ScheduleFlat`: with unchanged parameters each epoch releases the average of the
  validator pool or one more. `FlatInv` bounds what is left by the average, and by
  one more, for each remaining epoch; the step is nonlinear integer arithmetic.

**MemoryProofs.** `MemoryInv` adds that there are finitely many reports. `CountersCorrect`,
`StampsLag`, and the action properties `ApprovedIsFinal` and `SubmissionsWithinCap`.

**EpochPipelineProofs.** `PipelineImplementsModules`: every step of the composition is
one of `Emissions` and one of `Memory`, or invisible to them, so the invariants of
both hold in it. From those, `PipelineScheduleFlat`, and `BudgetAlwaysRollsOver`: a
memory is stamped with an epoch that has ended (`StampsPast`), the pool is not
behind that epoch (`ModulesAgree`), so no contributor of an emission ever qualifies.

**ReputationProofs.** `StatisticsCorrect`: what an import writes under an id is a record
stored under some id with the same text, so each record must be sound on its own
(`SoundRecord`) and only contributors may have an org set (`SoundDeveloper`).
`StandingAlwaysKept`: the action property, imports included.

**ServeProofs, ServeCountProofs.** A batch is a fold over its entries. `ServeBatchKeeps`
and `DenialBatchKeeps` say that what one accepted entry keeps, the batch keeps:
a batch is a run of states, one per entry, and the claim follows by induction on the
run. `EntryFields` and `DenialFields` state once what an entry writes. `TypeInv` is
the type invariant with sound receipts: a stored receipt names an org, a key and a
model. All counters are then compared with sets of receipts `Matching(k, Q)`, the
stored receipts of `k` that belong to `Q`; an accepted entry adds its receipt to the
sets it belongs to and leaves the others alone (`MatchingGrows`). `StatsMatch`,
`StatsSurvive` and `DenialsStand` are in `ServeCountProofs`, the rest in `ServeProofs`.
- `Typed`, and the action properties `ReceiptsKept`, `AnchorsKept` (`RestartSpec`)
  and `CapFixed` (`Spec`; the bandwidth state is not exported). `AnchorsKept` needs
  `AnchorInv`: only a version whose anchor has height 0, as a seeded one has, is ever
  taken for a denial or an event and gets statistics of its own.
- `StatsMatch` (`Spec`): the statistics and per-memory counts are exactly those of
  the receipts and denials. `StatsInv` needs the first-serve markers to be exact:
  they decide when a unique counter moves.
- `StatsSurvive` and `DenialsStand` (`RestartSpec`): after imports the markers are
  gone, so the invariant `RestartInv` has bounds for the unique counters, equalities
  for the others, and for each denial with a serve key the serve it stands on; the
  others carry a model id or no key at all.
- `ReceiptsPaid` (`Spec`): a batch is charged before its entries are judged and
  stores at most one receipt per entry, so the receipts of an (org, epoch) are at
  most what was consumed (`PaidFor`).
- `SummariesMatch` (`RestartSpec`): count, self serves, turns and orgs of a
  contributor's summary are those of the receipts naming it. `serve_batches` checks
  it without imports; the theorem covers imports too.
- `ReputationByMemory` (`Spec`): reputation is that of the receipts by the owner of
  the memory. The owner is a variable: an approval gives an owner to a memory that
  had none, and `ReputationInv` says that such a memory has no receipt, so the
  approval moves no credit. After an import this fails, because `x/memory` loses its
  records.

Only model-checked, because the prover does not do liveness or `ENABLED`:
`EveryEpochSettles` and `SchedulePaysOut`. The four properties that the code
violates (`ApprovalsSettled`, `ReportsCharged`, `AttestationsAccumulate`,
`ExportCanBeImported`) have counterexamples and no theorem; `BudgetAlwaysRollsOver`
proves that no contributor is ever rewarded.

## Not modelled

- Bootstrap credits and the asymmetric gate of `x/emissions`, validity and
  relationships of `x/memory`, memory bandwidth, contributor aggregates and
  memberships of `x/reputation`: nothing in the application calls the code that
  would change this state, so it is never there.
- `x/attestation`: every submission is refused; its parameters are read by nothing.
- Queries, the daemon, command line and codecs: they change no consensus state.
- Generated protobuf code, about four fifths of the repository's lines. Two of its
  decoders are modelled where a property depends on them: `NilMapWritten` and
  `DecodesAsDenial`.

## Plan

The parts listed as not modelled become worth a module when the application calls
them: validity records (`IsValidInEpoch` is asked by `x/serve` but nothing writes
them), the bootstrap credits and the asymmetric gate of `x/emissions`. The theorems
about `Serve` without imports should be restated once `x/memory` and `x/bandwidth`
are exported.
