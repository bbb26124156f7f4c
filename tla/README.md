# buzzr in TLA+

buzzr mirrors the Spaces and agents of Herdr, a terminal multiplexer for agents,
into the channels of a Buzz relay, routes mentions to the agents' panes and
publishes their replies. This directory holds the models of it, the runs of TLC
that check them and the proofs about them.

## The system

| component | state it keeps | operations |
|---|---|---|
| State store (`state.rs`) | `state.json`, `state.lock`, `.buzzr-state` | lock, load, save by replacing the file |
| Topology (`topology.rs`) | none | Herdr snapshot and configuration to Spaces, panes, identities |
| Channel reconciliation (`sync.rs`) | `channels`, `managed_resources.channel_memberships` | adopt, create, recover, unarchive, archive channels; add and remove members |
| Profiles (`sync.rs`, `agent_profiles.rs`, `avatars.rs`) | `identity_profiles`, `agent_profiles`, `avatar_uploads` | choose avatars, publish profiles and agent declarations, refresh |
| Routing (`service.rs`) | `processed`, `last_seen`, `reply_contexts`, the outbox | poll, prompt, answer reply requests |
| Reply client (`service.rs`, `queue_reply`) | its request and result file | queue a request, wait 30 s |
| Daemon (`service.rs`, `run`) | `daemon.lock`, `daemon.pid` | loop of passes until a signal or a stop request |
| Life cycle (`lifecycle.rs`) | `stop.request`, configuration | stop, deactivate |
| Deprovisioning (`lifecycle.rs`) | none of its own: `managed_resources`, the local files | plan from provenance, undo step by step, delete the local data |
| Provisioning (`provisioning.rs`) | dotenv file, configuration, write-ahead intents | generate identities, local relay membership |
| Configuration (`config.rs`) | `config.toml` | read, edit, replace |
| Publishing (`clients/nostr.rs`) | one connection | EVENT, AUTH, OK |
| Command clients (`clients/*.rs`) | none | wrappers of `buzz`, `herdr`, `docker` |
| Command line (`cli.rs`) | none | parsing, rendering, bootstrap |

The daemon's pass runs, in this order: load the configuration, take a snapshot,
provision, reconcile, answer the outbox, poll. Every step that changes
`state.json` runs under `state.lock`, but what it decides on, the topology and the
configuration, is read before. `buzzr reconcile`, `provision` and `deprovision` run
the same code in other processes. `buzzr reply` meets the daemon in the outbox
directory, `buzzr stop` in `stop.request` and the flock on `daemon.lock`, and
`config.toml` is edited by all of them with no lock at all.

What is hard: external calls that take effect although their answer is lost; a
process killed between a call and the record of it; stale topology; people who
change channels, names and roles meanwhile; cursors over messages that arrive out
of order; stop requests that several processes write and remove; lost updates of
the configuration; a cleanup that stops half way and must find its way when it is
repeated; frames of a relay that overtake each other; a cache of publications that is
older, or seems newer, than what the relay has. `PROJECT.json` lists these hazards with the line where each bites
and the properties that would catch it.

## Modules

### Reconcile (`MCReconcile`, `ReconcileProofs`, `TrackingProofs`)

`reconcile_unlocked` (sync.rs 673-1284) step by step: one action per decision or
external call of the Space loop. State and code:

| variable | code |
|---|---|
| `herdr`, `snap[p]` | the Herdr workspaces; the topology process p built before it took the lock |
| `chName`, `chMark`, `role`, `arch` | the relay: channel names, the creation marker in a description, roles of members, archived or not and by whom |
| `diskChannels`, `diskMembers` | `state.json`: `channels`, `managed_resources.channel_memberships` |
| `channels`, `members` | the pass's copy of them |
| `listed`, `roles` | `channels_by_id` with the names, `current_roles` |
| `pc`, `todo`, `space`, `ch`, `target` | where the pass is |
| `made`, `granted`, `accepted` | history: what buzzr created and added; for which keys an add_member of its own was accepted, until buzzr removes them or a finished pass misses them |
| `missed` | history: the keys this pass found neither in the Space nor in its channel |

Each external call that changes the relay has two outcomes when it takes effect: its
answer arrives and the pass goes on (`Ack`), or it is lost, or the process is killed
at that moment, and the pass is over (`Lost`). A call without effect is `Abort`, which
may come between any two steps. People create channels of the same name, change
roles and archive or restore channels at any time. The write-ahead records `creating` and
`adding` are checkpoints before the call, `created` and `added` after it. `AtStart` is what is open
in Herdr when buzzr runs for the first time.

Abstracted: names and markers are opaque (the code compares lower-cased names for
discovery and exact names for pending intents; the names of the model are in lower
case); the bridge credential is always there (the two early returns at 697-714 change
nothing); whether a listing returns archived channels is left open, for each of them and each time;
profiles, published at the end of a pass, are not part of the module.

### Routing (`MCRouting`, `RoutingProofs`)

The rest of a pass (service.rs 492-545): outbox and polling on one copy of the state
that is saved once, at the end. `SendReply` and `Dispatch` act on the relay and the
panes at once, their marks only on the copy; `Fail` is an error or a crash at any
point and forgets the copy. `sent` and `prompted` are the history of these effects. The
reply clients are processes of their own (`QueueReply`, `ReadResult`, `GiveUp`), the time
is in seconds, authors date their messages up to `MaxSkew` late, and `Query` returns the
newest `Limit` messages at or after the cursor. The order of the panes in a poll and of
messages of the same second is left open. One channel: cursors are per channel, and
`processed` is shared by all, which several panes in one channel already show.

### Daemon (`DaemonProofs`)

`run`, `run_loop` (service.rs 548-593), `stop_daemon`, `deactivate` and the beginning of
`apply_deprovision` (lifecycle.rs), every access to `daemon.lock`, `daemon.pid`, `stop.request`
and `config.toml` one action. A configuration is whether the automatic writers are on and
which identities it has; both edits of it are a read and a replace. `found` is history:
the run of the daemon a stopper found holding the lock; so is `overtaken`: a daemon took the lock
after a cleanup had stopped the others and before it had disabled the writers again. `TimeOut` is the last round of
the waiting loop: the request is written once more and left there. It comes only while the
lock's holder is in a pass, the only thing a daemon does that can last 30 seconds. What a process that has ended
had read is set back to `Fresh` (`Forget`), so that no state differs in what nobody uses.

### Provision (`MCProvision`, `ProvisionProofs`)

`provision_local_internal` (provisioning.rs 557-708), as the daemon's pass and as `buzzr bootstrap`
run it, from the load of the configuration to the last ownership. `Slots` are the names of agents and
the bridge; a key pair is one value, and `pub` and `secret` are its two halves where each is stored.

| variable | code |
|---|---|
| `panes`, `snap[p]` | the agents in Herdr; those of the snapshot of run p |
| `pub`, `secret` | public keys in `config.toml`, private keys in `secrets.env` |
| `intents`, `claimed`, `recMembers`, `recOwners` | `managed_resources` in `state.json`: `identity_intents`, `identities`, `relay_members`, `ownerships` |
| `member`, `owner` | the relay's members and `agent_owner_pubkey`, as its administrator sets them |
| `cpub`, `csec`, `gen`, `made`, `text` | what a run loaded, generated, creates, and has read of the file it is about to replace |
| `pc`, `stage`, `todo`, `target` | where the run is: at the start, the bridge or the agents; which key it registers |
| `minted`, `added`, `bound` | history: keys buzzr generated, what it gave them on the relay |

`Abort` ends a run between any two steps, by an error or the death of the process; a command of the
administrator may take effect and its answer be lost (`Answered`). Between runs people import
identities of theirs, with the private key under a variable of their own, or set a private key for the
bridge, whose public key the run then completes; at any time they add and remove members of the relay
and give away what is theirs. `EditsOverlap` lets them edit the configuration during a run as well.

Abstracted: several panes of one label are one agent; aliases and display names; `human_pubkey` is
configured and is none of the identities; a parse error of a file is an `Abort`; `state.json` is locked
for each transaction, which is one action (StateStore has its steps).

### Ledger, Deprovision (`MCDeprovision`, `DeprovisionProofs`)

`Ledger` is the promise of the write-ahead records: what buzzr brings into being outside of its own files is on
record before it exists and until it is gone. `Provision` and `Deprovision` implement it (`LedgerKept`), and
`Reconcile` of memberships in channels (MembershipsKeepLedger, proved only), each with its own reading of what is recorded and granted: in Provision the resources are configured identities,
memberships of the relay and ownerships, in Deprovision also channels and memberships in them.

`Deprovision` is `build_deprovision_plan` and `apply_deprovision` (lifecycle.rs 219-465, 568-861), from any
state.json that reconciliation and provisioning may leave, however incomplete.

| variable | code |
|---|---|
| `mapping`, `joined` | `channels`, `managed_resources.channel_memberships` |
| `claimed`, `retired`, `intents`, `recMembers`, `recOwners` | `identities`, those with `archived`, `identity_intents`, `relay_members`, `ownerships` |
| `files`, `configured` | the files `delete_local_data` removes; the identities of which both halves are configured |
| `archived`, `role`, `gone`, `owned`, `member` | the relay: archived channels, members of channels, archived identities, ownerships, members |
| `pc`, `plan`, `target`, `del`, `cfg` | a cleanup: its place, the actions left, the current one, `delete_local`, the reloaded configuration |
| `granted`, `ours`, `undone`, `cut`, `disturbed` | history: what buzzr made that is in effect, all it ever made by the record, what it undid, whom it removed from the relay, cleanups during which something else happened |

A step of the plan is looked up on the relay where the code does (`Look`), carried out (`Call`, `CallLost`) and
noted in a transaction (`Note`); a cleanup dies or fails between any two of them (`Abort`, `Refuse`) and is
started again. The last pass of the daemon, which ends before the plan is made, may still configure, record and
register an identity (`PassConfigures`, `PassRecords`, `PassRegisters`); the steps that stop it are those of Daemon.
People change roles, memberships, ownerships and archived channels, and take identities out of the configuration.

Abstracted: the order of the plan among channels and among members is left open (the code sorts them); the
`Refusable` calls are those a relay may refuse, of a signer that is no member of it or on an archived channel,
without the model saying that it does; the owner is always the same human; compose file and Docker work or the
command fails; avatars on disk go with the marker.

### Transactions, StateStore (`StoreProofs`)

`Transactions` says what users of state.json rely on: whole updates, each made to what all earlier ones left,
and damaged documents left to people; until the local data are deleted. `StateStore` (state.rs 44-206) shows how:
the lock file is opened, and made, before it is locked (`path`, `holder`, `fd`: a lock belongs to an inode, not to
the name), the document loaded, changed and saved once or more (a reconciliation saves at every checkpoint), each
save through the marker, a temporary file and a rename. `Crash` kills a process between any two steps and takes its
lock with it. A document is the set of updates it contains; `copy` and `temp` are those of a process.
`DeleteState`, `DeleteLock`, `DeleteMarker` are `delete_local_data`, which takes no lock. The refinement maps a
document to itself, so that a lost or torn update is a step the abstract module does not have.

Abstracted: versions, missing sections and file modes are part of intact or damaged, an error of the file system
is a crash, and people touch the file while nobody has it loaded.

### Publish, Profiles (`MCProfiles`, `ProfilesProofs`)

`Publish` is one connection of `publish_async` (clients/nostr.rs 183-315) and the relay at its other end.
`flight` is a set of frames, received in any order; the relay challenges when it likes, demands authentication or
not, and answers each frame once. Both EVENTs have one id, so the client cannot tell the answers apart, which is
what `initial_rejection_seen` is for. `Misbehave` is whatever a relay or a network may do wrong, `TimeOut` comes when
nobody has anything left to say.

`Profiles` puts that connection into the passes that publish (sync.rs 155-671, 1263-1284, 1299-1356,
agent_profiles.rs, avatars.rs 497-534): `Start` loads state and settings and reserves the avatars on record, every
subject is skipped or published (`Skip`, `Upload`, `Begin`, `Settle`), and `Save` writes all that was published at once.

| variable | code |
|---|---|
| `settings`, `view` | the configuration, the private keys, who lives in which Space, mapped channels; as the pass loaded them |
| `cache`, `copy`, `uploads`, `ups` | `identity_profiles`, `agent_profiles`, `avatar_uploads`, on disk and in the pass |
| `relay` | the event it has of each subject |
| `fresh`, `elapsed` | what was published recently, by the clock at the start of the pass (`now`) |
| `queue`, `event`, `conn` | the subjects ahead, the event under way, its connection |
| `kept`, `reserved` | `preserved_avatars`, `reserved_avatar_ids` |
| `uncertain` | history: subjects of which an answer or a save was lost since they were last published |

Abstracted: a date is its age, up to `Refresh`, or a date the clock has not come to; a tick is coarse, so that a subject
is not published twice in one second, where the relay would choose by the id of the event. A clock is set back to before all that was
published. A replaced public key is another identity. A relay that has a later event of the subject may accept an older one without
keeping it. One pack of complete avatars, which is there or not; packs of layers give every key its own avatar.

## Runs

Passing runs; the time is on two cores.

| run | properties | instance | time |
|---|---|---|---|
| reconcile_channels | TypeOK, CreatedProvenance, ArchivesOnlyCreated, CreationTracked | 2 processes, 2 Spaces, any of 2 names, 2 channels and 1 of people, previews, 1 fault, 3 changes | 80 s |
| reconcile_members | MembershipTracked, RemovesOnlyAdded, MirroredOrBlocked | 1 Space that is open at the start, 2 agents (1 with a key at hand), the human owner, 1 fault, 2 changes | 150 s |
| routing_polls | RepeatsNeedFaults | 2 agents, 2 messages, 3 seconds, 2 faults | 45 s |
| routing_replies | TypeOK, ProcessedAnswerable, RepliesAnswerMentions, SentOncePerFault, RequestsAnswered, RoutedOrPassed | 1 pane that may be busy, 2 messages of the owner and of another agent, 2 seconds, messages dated up to 1 s late, 2 reply processes, 1 fault | 140 s |
| daemon | SingleDaemon, StopEndsDaemon, CleanupQuiesced, StopCompletes, QueuedStopHonoured | 2 daemons that start once each, 2 cleanups, 1 crash, signals, timeouts | 130 s |
| provision | TypeOK, ClaimsOnlyGenerated, KeyAtHand, AgentsIdentified, LedgerKept | 1 agent and the bridge, 1 run at a time, 4 keys to generate and 1 of people, 2 faults, 2 changes | 60 s |
| deprovision | TypeOK, OnlyOurs, SecretsLast, FailsOnlyBlocked, LedgerKept | the bridge, 1 agent of buzzr's, 1 of people, 2 Spaces on 1 or 2 channels, 1 fault, 1 change, any number of restarts | 110 s |
| store | MarkedWhenSaved, Serialized, FailClosed | 2 processes with 2 updates each, 2 lock files, 2 crashes, 2 changes by people | 25 s |
| profiles | TypeOK, RecordShown, HandshakeSucceeds, OldAvatarsKept, Converges | the bridge and 1 identity, 2 avatars of which both like the same best, 1 Space, 1 fault, 1 change | 100 s |

Why the bounds are enough: one fault is needed for each anomaly the write-ahead
records guard against, two show a fault during recovery from the first; two Spaces
meet in one name and one channel; a channel people make is needed to tell
buzzr's from theirs; two messages of one second and of different seconds occur, and
two agents share `processed`. In routing_replies the look back is 0, so that two seconds are enough for the cursor
to pass a message in each of the three ways there are: its pane is busy, or its prompt fails, while a newer message
is settled, and it is dated before the cursor. A look back of 1 second is in routing_polls. The bridge and the agent are created one after the other with two faults,
which need four keys at most, and the two changes suffice to announce a key, die and import another. Two daemons, which start once each, race for the lock as two starts of
one would, and two stoppers for the stop request. Both stoppers are cleanups, as these take every step of `buzzr stop` and
`buzzr deactivate`, and each `stop_daemon` of theirs is the whole of `stop_daemon`. The environment's changes are as many as it takes to open, close and
reopen a Space (3), or for an agent to leave and people to remove its membership (2). A cleanup
meets each of its steps with its effect there already after one fault, and what an older failure left is among the
initial states of MCDeprovision: a created channel that is adopted by another Space or already archived, an announced
agent or a claimed one, a membership still `adding`, an agent that never joined the relay, a missing key. Overlapping cleanups are
proved about only. Two processes race for the lock with
two inodes, one made after the other was unlinked, and a second update shows that saves under one lock add up. Two subjects'
profiles compete for an avatar, and with one fault or one change each kind of loss, and each wrong date, occurs.

In routing_polls `Cap` and `Limit` do not cut anything off; what happens when they do is
listed as a hazard.

Runs that end in a violation, each of one sentence of the documents:

| run | statement | what happens |
|---|---|---|
| reconcile_adopted | adopted channels are always preserved (config.example.toml 26) | the Space the channel was created for closes and the channel is archived under the Space that adopted it |
| reconcile_roles | manual role changes are kept (config.example.toml 30) | people change the role of a departed agent after the pass has read the members, and the agent is removed with its new role |
| provision_retry | the daemon provisions the identities of new live agents (README.md 105) | a run configures the identity and fails to add it to the relay; the daemon, which sees no agent without identity, never tries again |

The models show further behaviours that a reader of the documents would not expect. They
follow from the actions named, and the properties above are stated so that they allow them:

* An archive whose answer is lost (`Archive`, `Lost`) leaves a mapping that is not marked archived; when the
  Space reappears its channel stays archived (sync.rs 1254).
* A preview that recovers an interrupted creation updates the channel on the relay (`Update`, sync.rs 961).
* Two Spaces of one name share a channel by adoption, and with `remove_departed_agents` each pass removes the
  bots of the one while it reconciles the other (`Departed`, sync.rs 1140).
* A create that failed without effect blocks its Space until people act (`Blocked`, sync.rs 891), and the intent
  of a Space renamed meanwhile is given up together with its channel (`IntentRenamed`, sync.rs 796). The same Space is
  blocked when the create took effect and people archived the channel, if the relay does not list it any more:
  `list_channels` asks for no archived channels (clients/buzz.rs), so the recovery never sees it.
* A bot that people add between the query of the members and an accepted add_member counts as added by buzzr, and is removed
  when it departs (`AddMember`, sync.rs 1132); so does one that people remove and add again while no pass that
  misses it comes to its end (`Gone`, sync.rs 1161). RemovesOnlyAdded claims nothing of these, and nothing of a role changed after the query.
* A reply token publishes once more after each pass that dies before it saved (SentOncePerFault).
* `processed` is shared: of two mentioned agents the second gets nothing (`SkipEvent`, service.rs 454), and two panes
  of one identity share a cursor (`Since`, service.rs 439).
* Two overlapping provisioning runs, a bootstrap beside a pass, break KeyAtHand and LedgerKept (2 elements in `Provisioners` show it): both generate a key for the same agent, the later announcement and private key
  replace the earlier ones while the earlier public key stays configured (config.rs 672, provisioning.rs 120).
* With `EditsOverlap`, ClaimsOnlyGenerated fails: `append_identities` skips an identity people wrote meanwhile, and
  `record_generated_identities` claims the key it finds there (provisioning.rs 440).
* One identity that belongs to another owner ends every run before the identities after it are dealt with
  (`AssignRefused`, provisioning.rs 701).
* A daemon started between the stop and the second deactivation may run a writing pass during the cleanup
  (lifecycle.rs 719); CleanupQuiesced leaves out what follows (`overtaken`).
* A stopper that found no lock file, or a free lock, removes stop.request after it has let go of the lock (`TidyStop`,
  lifecycle.rs 55-66, 88-91). By then a daemon may have started and another stopper may have given up and left its
  request, which is lost, and the daemon goes on; QueuedStopHonoured excepts a stopper that is about to do so.
* An agent's message whose prompt was lost is settled by that agent's own poll (`SettleEvent`, service.rs
  457-460) and never answered; ProcessedAnswerable is about people's messages.
* `buzzr deactivate` beside a provisioning pass may be undone: the pass writes the settings it read before
  back (`ReadConfig`, `WriteConfig`, config.rs 620); a cleanup disables the writers a second time for that reason.
* A message for a busy agent stays unprocessed, but a newer one moves the cursor past it (`SkipEvent`, `EndEvents`, service.rs 474),
  which is why RoutedOrPassed promises no more than that nothing waits for ever at the cursor.
* A channel created for a Space is archived by cleanup although another Space adopted it, and the records of the
  members of that channel go with it (`ToArchive`, `Note`, lifecycle.rs 773-779).
* A role that people change between the query of the members and `remove_member` is removed with its new value
  (`Call`, lifecycle.rs 790-809), one changed before it ends the cleanup.
* An announced identity that never joined the relay has its archive signed by its own key, which the relay may
  refuse; each later cleanup meets the same refusal (`Refusable`, lifecycle.rs 820-827).
* With `--delete-local-data` unresolved memberships (`adding`) and identities announced and not configured are
  forgotten with the record, and a deletion that fails after the secrets are gone cannot be repeated, as the
  configuration no longer loads (`Loadable`, `Delete`, lifecycle.rs 670-676).
* The deletion of state.lock takes no lock: a process that waits on the old inode and one that makes a new file are
  inside at the same time (`DeleteLock`, lifecycle.rs 677), and a save that was under way makes state.json anew.
* A process killed between the creation of the marker and its content leaves an empty one, and every later save
  refuses it (`EnsureMarker`, `WriteMarker`, state.rs 59-79). It never does so to a document that was saved
  (MarkedWhenSaved): the marker is complete before the first save.
* A relay that answers the first EVENT with two rejections makes the publication fail after it authenticated (`Rejected`,
  nostr.rs 243-248): the second counts as the answer to the repeated EVENT.
* After a lost save, a profile that is changed back to what the record says is taken for published: the relay shows the other
  one until the next refresh, 24 hours later (`Unchanged`, `uncertain`, sync.rs 448-463).
* An identity that returns after its avatar was given to another one may make the other one change its avatar: both have it
  on record, and the first in order keeps it (`Keep`, sync.rs 366-378).

## Fairness

reconcile_members: each process reconciles again and again (the daemon's loop), a pass
goes on, and the listing and the member query, which may fail each time, do not fail
for ever (strong fairness); which archived channels a listing returns is left open each time, so they may be hidden for ever. Routing: the daemon passes again and again, a poll becomes due
in infinitely many passes. Daemon: processes that are not killed go on, and a pass ends,
because each external call has a timeout. Provision: the
daemon passes while an agent has no identity, and a run goes on, for the same reason. Profiles: the
daemon passes again and again, a pass goes on (uploads and publications have timeouts), a relay that
misbehaves only finitely often answers, and time goes by, at least up to the age of a refresh. Nothing is assumed of people, Herdr, faults, signals or
the start of commands, and faults are finite in number.

## Proofs

`ReconcileProofs`, `TrackingProofs`, `RoutingProofs`, `DaemonProofs`, `ProvisionProofs`, `DeprovisionProofs`,
`StoreProofs` and `ProfilesProofs` hold for all values of the constants under the named
assumptions of the modules: that the kinds of keys are disjoint, that the bridge is no agent,
that `None` is none of the values, that bounds are natural numbers, and in Profiles that `Order` lists
the identities, that each of them prefers all avatars in some order, and that there is one (`load_pack` and the
composer refuse an empty pack, avatars.rs 206, 516) and a text.

* TypeCorrect: TypeOK with PassOK, what a pass knows at each place, is inductive.
* CreatedProvenanceHolds: CreatedProvenance alone is not inductive, as a recovery takes a
  channel by its marker. ProvenanceInv adds MarkersOK: a marker on disk or in the copy is of one Space,
  and a channel that carries it was made for that Space.
* ArchivesOnlyCreatedHolds follows from it, as the archive step takes channels of
  created mappings only.
* MembershipTrackedHolds: MembershipInv adds that the copy and the file agree on who was
  granted a membership, that granted keys are members, and that a key missing from
  `current_roles` was granted nothing, so that IntendAdd never covers a record.
* MembershipsKeepLedger: every step of reconciliation is a step of the ledger or a stutter, with the records of memberships,
  resolved or not, as what is recorded. Grants come from AddMember alone (GrantsByAddOnly), and while it is called the file
  is the working copy (AddSaved), so that its answer changes nothing of who is on record; MembershipInv does the rest.
* CreationTrackedHolds: TrackInv says that the working copy follows the file (`Follows`): where the loop has yet
  to come the two are equal, elsewhere the copy leads to the same channel or has met another name. A marker is
  on one channel at most, and when create_channel is called on none, so that no older channel waits for it.
* OnlyRenamesOrphan: where every Space keeps one name, each channel buzzr created is tracked in every state. NamesKept says
  that Herdr, what a pass observed and the record call a Space by a name of it, and that what is on record of a Space stays there, so that the
  one exception of CreationTracked, a rename during a pending creation, cannot come. With two names it is false, which
  TLC shows within seconds.
* RemovesOnlyAddedHolds: BotsInv says that a record `added` as a bot, in the copy or the file, is of a key
  for which an add_member of buzzr's was accepted and that was not removed since; that the copy has no such record of a key
  the pass has missed, so that the end of the pass may forget them; and that a pass about to remove a member has a record of it.
* RoutingTypeCorrect: TypeOK with PollInv: time starts late enough for the first look back, and a poll has a time.
* RepliesAnswerMentionsHolds, SentOncePerFaultHolds, ProcessedAnswerableHolds, for all panes, messages, requests and
  faults. Every step of Routing is one of six effects on the relay, the panes and the two copies of the state (EffectStep):
  nothing, a fault, a move, a reply, a settled message, a prompt. ReplyInv: contexts and sent tokens are those of
  prompts for allowed mentions. SentInv: a token with a context in use was sent no more often than faults occurred.
  AnswerInv: what is processed, in the copy or on disk, can be answered from the same copy.
* RepeatsNeedFaultsHolds, for finitely many messages, at most `Cap`: RepeatInv says that, of each message, there are no
  more prompts than faults while it is unprocessed in the state the next pass will use. With more than `Cap`
  messages it is false, as a processed id may be forgotten.
* DaemonTypeCorrect: TypeOK of Daemon is inductive.
* SingleDaemonHolds: LockInv says that the flock is held by exactly the daemon whose
  place is inside the locked part, and by a stopper at its probe.
* StopEndsDaemonHolds: FoundInv says that a run a stopper found was really running, so that a
  later start is another run.
* CleanupQuiescedHolds: QuietInv says that, unless overtaken, no daemon has the lock while a cleanup tidies up and
  disables the writers again, and that afterwards they are off in the configuration and in what any pass loaded of it.
* ProvisionTypeCorrect: TypeOK with TargetOK, that a command is given for a key.
* ClaimsOnlyGeneratedHolds, for any number of overlapping runs, if people edit between runs
  only (`EditsOverlap = FALSE`): ClaimsInv adds that announcements are of generated keys and every other key is
  generated or people's (ValuesOK), and that a run knows where people brought a key and neither creates nor
  writes there (BroughtOK), as what it later claims is whatever the configuration has in the created slots.
* KeyAtHandHolds, NothingForgottenHolds, GrantsRecordedHolds, for one run at a time (`Provisioners = {p}`) under the same
  assumption: SoloInv says that the loaded configuration is the one in the files until they are replaced (LoadedOK),
  that a created slot is empty, announced and has its private key before its public one (CreatingOK), that the
  relay is given claimed keys or people's only (RegisteringOK), and that half a bridge key is announced (RestOK).
  Both assumptions are needed: the list of further behaviours above shows what happens without them.

* LedgerKeptHolds, under the same assumptions, from NothingForgotten, GrantsRecorded and SoloInv: each step of a run, of
  people and of Herdr is a Write, a Grant, a Revoke or a stutter of the ledger.
* DeprovisionTypeCorrect, OnlyOursHolds, SecretsLastHolds, CleanupKeepsLedger, for any number of cleanups at a time, from one
  inductive invariant, CleanupInv. OursOK says that all the record may turn out to prove is buzzr's, and StepOK the same of
  the steps of a plan, which may be older than the record: another cleanup has struck off what it names, but nobody
  has put anything else there. GrantsOK says that what is granted can be concluded from the record, CoverOK that
  each plan has a step for it, and that it is undone by the time it is noted; so the record can be
  struck off, and with an empty plan nothing is granted and the files can go. FilesOK keeps it so.
* FailsOnlyBlockedHolds, by RetryInv relative to CleanupInv: whoever works undisturbed works alone (SoloOK) and has the files it
  was started with (FilesKept); announced identities are resolved before the plan, so that nobody's plan lacks what the
  record asks for (ResolvedOK, OrderOK). A key is therefore removed from the relay only after all it has to sign is
  done and noted, also if the answer is lost: neither the record nor a later plan asks it to sign again (CutOK, CutPlan).
* MarkedWhenSavedHolds, by MarkerInv: a process that writes the document has found a valid marker or made one, and nobody
  replaces a marker that is there.
* StoreTypeCorrect, SerializedHolds, FailClosedHolds, for any number of processes and lock files, from StoreInv. Before the deletion
  all who have the lock file open have the same inode open, and whoever is inside holds the lock on it (LockInv), so that its
  copy is the document and what it is about to save adds one update to it (CopyInv). While a document is damaged nobody is
  inside with a copy (DamageInv), as people touch it while nobody is; and the lock file is removed only after the document (DeletionInv).

* HandshakeSucceedsHolds: ConnInv says what a connection looks like on which nothing has failed (`Sound`): each frame sent
  was answered once, and its answer is under way or dealt with; a rejection demands authentication, and the EVENT is
  repeated only after it. The two EVENTs have one id, but their answers cannot then be mistaken for each other.
* RecordShownHolds: RecordInv leaves out the subject whose event the relay has just stored, of which it says that the relay
  shows that event, so that the record is right again when it is noted; and a pass does not forget what was on record, so
  that what is saved is never less than what there was.
* OldAvatarsKeptHolds: OwnerInv says that who alone has an avatar on record when the pass begins has it reserved while he
  is ahead in the queue (`SoleOwnerKeeps`: those before him reserve other avatars), publishes no other, and so has no other on
  the pass's copy; what is reserved is on record, so that no newcomer is taken for the owner.
* ProfilesTypeCorrect and the above reason about queues, choices and reservations of any length, which are recursive functions.
  `Induction` (over sets of numbers, from the well-foundedness of Nat) and `Iteration` (a function defined by recursion
  on its argument satisfies its equation) are proved first, in a form without operator parameters; ChoosingEquation,
  KeepingEquation and the facts about BestOf and SelectAvatar follow.

Only model-checked: liveness under fairness (MirroredOrBlocked, RequestsAnswered, RoutedOrPassed, StopCompletes,
QueuedStopHonoured, AgentsIdentified, Converges), which is out of the prover's reach and stays with TLC. Every other property
of a passing run is proved. TypeOK of Daemon and of StateStore is proved and not run. OldAvatarsKeptHolds also covers what
the run profiles does not reach: two identities with one avatar on record and a pack with fewer avatars than identities.

## Not modelled

* Topology: globs, slugs and the mapping of panes to identities are pure functions of the snapshot; their result
  is an input of Reconcile, Routing, Provision and Profiles.
* Avatars: drawing, composing layers and reading packs are pure functions of files; the selection is in Profiles.
* Configuration: parsing and validation. Their errors are failures of the step that loads the configuration.
* Command clients: building argument lists and decoding answers; their calls, failures and timeouts are actions of the modules.
* Command line: parsing and rendering. Paths and install scripts have no interaction.
