------------------------------ MODULE Profiles ------------------------------
(***************************************************************************)
(* Profiles and agent declarations (src/src/sync.rs 155-671, 1299-1356,    *)
(* src/src/agent_profiles.rs): each pass publishes, one after the other,   *)
(* those that changed or were published long ago, and saves what it        *)
(* published at its end.                                                   *)
(***************************************************************************)
EXTENDS Publish, Integers, Sequences, FiniteSets

CONSTANTS
  Order,       \* the identities, as their names sort
  Bridge,      \* the bridge, which has a profile and no declaration
  Texts,       \* what people configure of an identity: name, description, access
  Spaces,      \* Herdr's Spaces; each has a channel or none
  Assets,      \* the avatars of the pack
  Prefers,     \* of each of the above: the avatars, best one first
  None,
  Refresh,     \* how long a publication is good (24 hours)
  MaxFaults, MaxChanges   \* bounds

Identities == {Order[n] : n \in 1..Len(Order)}
Names == Identities \cup {Bridge}

ASSUME ProfilesAssumption ==
  /\ Order \in Seq(Identities) /\ Cardinality(Identities) = Len(Order)
  /\ Bridge \notin Identities /\ None \notin Assets \cup Names
  /\ Prefers \in [Names -> Seq(Assets)]
  /\ \A i \in Names : {Prefers[i][n] : n \in 1..Len(Prefers[i])} = Assets
  /\ Assets # {} /\ Texts # {}
  /\ Refresh \in Nat \ {0} /\ MaxFaults \in Nat /\ MaxChanges \in Nat

Profile(i) == <<"profile", i>>
Agent(i) == <<"agent", i>>
Subjects == {Profile(i) : i \in Names} \cup {Agent(i) : i \in Identities}

ProfileContents == [text : Texts, avatar : Assets \cup {None}]
AgentContents == [text : Texts, channels : SUBSET Spaces, online : BOOLEAN]
Contents == ProfileContents \cup AgentContents

\* Age of a publication: -1 is a date the clock has not come to, Refresh is any age
\* at which it is repeated, None is no date.
Ages == -1..Refresh
Entries == [content : Contents, age : Ages \cup {None}]
Records == [Subjects -> Entries \cup {None}]
Events == [content : Contents, ahead : BOOLEAN]
Modes == {"preview", "apply", "refresh", "reupload"}

VARIABLES
  \* people and Herdr: who is configured and how, whose private key is at hand, whether
  \* avatars are enabled, who lives where, which Spaces have a channel
  settings,
  relay,      \* the event it keeps for each subject, and whether that is dated ahead of time
  cache,      \* state.json: identity_profiles, agent_profiles
  uploads,    \* state.json: avatar_uploads
  mode,       \* the pass under way: None, or preview, apply, refresh
  view, copy, ups,   \* what it loaded, and its copy of the record
  fresh,      \* what was published recently when it began
  elapsed,    \* how long ago that is
  queue,      \* subjects it has not dealt with
  kept, reserved,    \* avatars it keeps for their owners; those in use
  event,      \* what it publishes now
  uncertain,  \* history: subjects whose record need not show what the relay has
  faults, changes

pass == <<mode, view, copy, ups, fresh, elapsed, queue, kept, reserved, event>>
vars == <<conn, settings, relay, cache, uploads, pass, uncertain, faults, changes>>

Settings ==
  [configured : SUBSET Names, text : [Names -> Texts], keyed : SUBSET Names,
   avatars : BOOLEAN, lives : [Identities -> SUBSET Spaces], mapped : SUBSET Spaces]

\* None is a value of its own.
ASSUME NoneAssumption ==
  None \notin Contents \cup Entries \cup Records \cup Events \cup Modes \cup Settings \cup Ages

----------------------------------------------------------------------------
(* Avatars.                                                                *)

BestOf(i, candidates) ==
  LET best == CHOOSE n \in 1..Len(Prefers[i]) :
                /\ Prefers[i][n] \in candidates
                /\ \A k \in 1..(n - 1) : Prefers[i][k] \notin candidates
  IN Prefers[i][best]

\* The best of the avatars nobody has, or of all if each is somebody's.
SelectAvatar(i, taken) == BestOf(i, IF Assets \subseteq taken THEN Assets ELSE Assets \ taken)

\* The first n elements of a sequence, without those that are not in the set.
Choosing(seq, set) ==
  LET chosen[n \in 0..Len(seq)] ==
        IF n = 0 THEN <<>>
        ELSE IF seq[n] \in set THEN Append(chosen[n - 1], seq[n]) ELSE chosen[n - 1]
  IN chosen

Chosen(seq, set) == Choosing(seq, set)[Len(seq)]

ProfileOrder(v) == Chosen(<<Bridge>> \o Order, v.configured)

\* Who has an avatar on record keeps it, unless somebody before has it too and there are
\* others left.
Keeps(i, record, taken) ==
  /\ record[Profile(i)] # None /\ record[Profile(i)].content.avatar \in Assets
  /\ \/ record[Profile(i)].content.avatar \notin taken
     \/ Cardinality(taken) >= Cardinality(Assets)

\* What the first n names keep.
Keeping(names, record) ==
  LET keep[n \in 0..Len(names)] ==
        IF n = 0 THEN {}
        ELSE IF Keeps(names[n], record, {k[2] : k \in keep[n - 1]})
             THEN keep[n - 1] \cup {<<names[n], record[Profile(names[n])].content.avatar>>}
             ELSE keep[n - 1]
  IN keep

KeepNothing(v, record) == {}  \* a mutant of Keep: newcomers choose with the others

Keep(v, record) ==
  IF v.avatars THEN Keeping(ProfileOrder(v), record)[Len(ProfileOrder(v))] ELSE {}

----------------------------------------------------------------------------
(* A pass.                                                                 *)

Running == mode # None
Turn == queue[1]
Who == Turn[2]

\* Channels of all the Spaces an identity lives in; one that lives nowhere is declared too.
Declaration(v, i) ==
  [text |-> v.text[i], channels |-> v.lives[i] \cap v.mapped, online |-> v.lives[i] # {}]

Avatar ==
  IF ~view.avatars THEN None
  ELSE IF \E k \in kept : k[1] = Who THEN (CHOOSE k \in kept : k[1] = Who)[2]
  ELSE SelectAvatar(Who, reserved)

Content ==
  IF Turn[1] = "profile" THEN [text |-> view.text[Who], avatar |-> Avatar]
  ELSE Declaration(view, Who)

FreshAlways(record) == {s \in Subjects : record[s] # None}  \* a mutant of Fresh

Fresh(record) == {s \in Subjects : record[s] # None /\ record[s].age \in 0..(Refresh - 1)}

Undated(record) ==
  [s \in Subjects |-> IF s[1] = "profile" /\ record[s] # None
                      THEN [record[s] EXCEPT !.age = None] ELSE record[s]]

AllSubjects(v) ==
  LET profiles == ProfileOrder(v)
      agents == Chosen(Order, v.configured)
  IN <<[n \in 1..Len(profiles) |-> Profile(profiles[n])],
       [n \in 1..Len(agents) |-> Agent(agents[n])]>>

\* reconcile, for show or for real, and refresh_profiles, which forgets the dates of the
\* profiles and perhaps the uploads.  Without the pack of avatars no profile is published.
Start(m, packed) ==
  /\ ~Running
  /\ mode' = m /\ view' = settings
  /\ copy' = IF m \in {"refresh", "reupload"} THEN Undated(cache) ELSE cache
  /\ ups' = IF m = "reupload" THEN {} ELSE uploads
  /\ fresh' = Fresh(copy') /\ elapsed' = 0
  /\ kept' = Keep(settings, cache) /\ reserved' = {k[2] : k \in kept'}
  /\ queue' = LET all == AllSubjects(settings)
              IN IF packed THEN all[1] \o all[2] ELSE all[2]
  /\ UNCHANGED <<conn, settings, relay, cache, uploads, event, uncertain>>

Unchanged == copy[Turn] # None /\ copy[Turn].content = Content

Due == Running /\ queue # <<>> /\ event = None /\ ~(Unchanged /\ Turn \in fresh)

Leave ==
  /\ queue' = Tail(queue)
  /\ reserved' = IF Turn[1] = "profile" THEN reserved \cup ({Avatar} \ {None}) ELSE reserved
  /\ UNCHANGED <<mode, view, fresh, elapsed, kept>>

\* Up to date, a preview, or no private key at hand.
Skip ==
  /\ Running /\ queue # <<>> /\ event = None
  /\ ~Due \/ mode = "preview" \/ Who \notin view.keyed
  /\ Leave
  /\ UNCHANGED <<conn, settings, relay, cache, uploads, copy, ups, event, uncertain, faults,
                 changes>>

Publishing == Due /\ mode # "preview" /\ Who \in view.keyed

UploadedFile == Avatar \in ups  \* a mutant of Uploaded: without an avatar one is uploaded

Uploaded == Turn[1] = "agent" \/ Avatar \in ups \cup {None}

Upload ==
  /\ Publishing /\ ~Uploaded
  /\ ups' = ups \cup {Avatar}
  /\ UNCHANGED <<conn, settings, relay, cache, uploads, mode, view, copy, fresh, elapsed, queue,
                 kept, reserved, event, uncertain, faults, changes>>

Fault == faults < MaxFaults /\ faults' = faults + 1

\* The upload or the connection fails: a warning, and on to the next.
Unreachable ==
  /\ Publishing /\ Fault
  /\ Leave
  /\ UNCHANGED <<conn, settings, relay, cache, uploads, copy, ups, event, uncertain, changes>>

Begin ==
  /\ Publishing /\ Uploaded
  /\ Connect /\ event' = Content
  /\ UNCHANGED <<settings, relay, cache, uploads, mode, view, copy, ups, fresh, elapsed, queue,
                 kept, reserved, uncertain, faults, changes>>

NotedAlways(ok) ==  \* a mutant of Noted: a failed publication is recorded as well
  [copy EXCEPT ![Turn] = [content |-> event, age |-> elapsed]]

\* What was accepted is on record, with its content and the time the pass began.
Noted(ok) == IF ok THEN [copy EXCEPT ![Turn] = [content |-> event, age |-> elapsed]] ELSE copy

RelayWith(stored) ==
  IF stored THEN [relay EXCEPT ![Turn] = [content |-> event, ahead |-> FALSE]] ELSE relay

\* A relay keeps the event with the latest date, and may acknowledge an older one as well.
Stores(s) == IF relay[s] = None THEN TRUE ELSE ~relay[s].ahead

\* It may come to store the event when the client has given up.
Belated ==
  /\ event # None /\ conn.outcome # "accepted" /\ ~conn.stored /\ Stores(Turn)
  /\ Admits \/ (conn.auth /\ 0 \notin conn.handled)
  /\ \E n \in 1..conn.sent : n \notin conn.handled

\* The publication ends: in a record, or in a warning.
Settle(late) ==
  /\ event # None /\ conn.outcome \in {"accepted", "failed"}
  /\ IF late THEN Belated ELSE TRUE
  /\ relay' = RelayWith(late)
  /\ copy' = Noted(conn.outcome = "accepted")
  /\ uncertain' = IF conn.outcome = "accepted" /\ conn.stored THEN uncertain \ {Turn}
                  ELSE IF conn.outcome = "accepted" \/ conn.stored \/ late
                       THEN uncertain \cup {Turn}
                       ELSE uncertain
  /\ conn' = NoConn /\ event' = None
  /\ Leave
  /\ UNCHANGED <<settings, cache, uploads, ups, faults, changes>>

Forget ==
  /\ mode' = None /\ view' = None /\ copy' = None /\ ups' = {} /\ fresh' = {} /\ elapsed' = 0
  /\ queue' = <<>> /\ kept' = {} /\ reserved' = {} /\ event' = None

Save ==
  /\ Running /\ queue = <<>>
  /\ cache' = copy /\ uploads' = ups
  /\ Forget
  /\ UNCHANGED <<conn, settings, relay, uncertain, faults, changes>>

\* The process dies, or cannot save: what it published is not on record.
Crash(late) ==
  /\ Running /\ Fault
  /\ IF late THEN Belated ELSE TRUE
  /\ relay' = RelayWith(late)
  /\ uncertain' = uncertain \cup {s \in Subjects : copy[s] # None /\ cache[s] # copy[s]}
                            \cup (IF conn.stored \/ late THEN {Turn} ELSE {})
  /\ conn' = NoConn
  /\ Forget
  /\ UNCHANGED <<settings, cache, uploads, changes>>

----------------------------------------------------------------------------
(* The connection.                                                         *)

RelayAccepts ==
  \E n \in 1..2 :
    /\ Accept(n, Stores(Turn))
    /\ relay' = RelayWith(Stores(Turn))

Exchange ==
  /\ event # None
  /\ \/ RelayAccepts
     \/ (Receive \/ Challenge \/ Authenticate \/ TimeOut) /\ UNCHANGED relay
     \/ (\E n \in 1..2 : DemandAuth(n)) /\ UNCHANGED relay
  /\ UNCHANGED <<settings, cache, uploads, pass, uncertain, faults, changes>>

Fails ==
  /\ event # None /\ Misbehave /\ Fault
  /\ UNCHANGED <<settings, relay, cache, uploads, pass, uncertain, changes>>

----------------------------------------------------------------------------
(* Time, people and the relay's storage; external.                         *)

Older(a) == IF a = None \/ a = Refresh THEN a ELSE a + 1

Aged(record, F(_)) ==
  IF record = None THEN None
  ELSE [s \in Subjects |-> IF record[s] = None THEN None
                           ELSE [record[s] EXCEPT !.age = F(@)]]

Tick ==
  /\ cache' = Aged(cache, Older) /\ copy' = Aged(copy, Older)
  /\ elapsed' = IF Running THEN Older(elapsed) ELSE elapsed
  /\ relay' = [s \in Subjects |-> IF relay[s] = None THEN None
                                  ELSE [relay[s] EXCEPT !.ahead = FALSE]]
  /\ UNCHANGED <<conn, settings, uploads, mode, view, ups, fresh, queue, kept, reserved, event,
                 uncertain, faults, changes>>

Change == changes < MaxChanges /\ changes' = changes + 1

Ahead(a) == IF a = None THEN a ELSE -1

\* The clock is set back, before all that was published.
SetClockBack ==
  /\ Change
  /\ cache' = Aged(cache, Ahead) /\ copy' = Aged(copy, Ahead)
  /\ elapsed' = IF Running THEN -1 ELSE elapsed
  /\ relay' = [s \in Subjects |-> IF relay[s] = None THEN None
                                  ELSE [relay[s] EXCEPT !.ahead = TRUE]]
  /\ UNCHANGED <<conn, settings, uploads, mode, view, ups, fresh, queue, kept, reserved, event,
                 uncertain, faults>>

\* The relay's storage is restored without its profiles.
Restore ==
  /\ Change /\ event = None
  /\ relay' = [s \in Subjects |-> None] /\ uncertain' = Subjects
  /\ UNCHANGED <<conn, settings, cache, uploads, pass, faults>>

Set(new) ==
  /\ Change /\ settings' = new
  /\ UNCHANGED <<conn, relay, cache, uploads, pass, uncertain, faults>>

Flip(set, e) == IF e \in set THEN set \ {e} ELSE set \cup {e}

Configure == \E i \in Names : Set([settings EXCEPT !.configured = Flip(@, i)])
Describe == \E i \in Names, t \in Texts : Set([settings EXCEPT !.text[i] = t])
LoseKey == \E i \in Names : Set([settings EXCEPT !.keyed = Flip(@, i)])
SwitchAvatars == Set([settings EXCEPT !.avatars = ~@])
Move == \E i \in Identities, w \in Spaces : Set([settings EXCEPT !.lives[i] = Flip(@, w)])
Map == \E w \in Spaces : Set([settings EXCEPT !.mapped = Flip(@, w)])

----------------------------------------------------------------------------
Init ==
  /\ conn = NoConn
  /\ settings \in [configured : SUBSET Names, text : {[i \in Names |-> CHOOSE t \in Texts : TRUE]},
                   keyed : {Names}, avatars : {TRUE},
                   lives : {[i \in Identities |-> {}]}, mapped : {{}}]
  /\ relay = [s \in Subjects |-> None] /\ cache = [s \in Subjects |-> None] /\ uploads = {}
  /\ mode = None /\ view = None /\ copy = None /\ ups = {} /\ fresh = {} /\ elapsed = 0
  /\ queue = <<>> /\ kept = {} /\ reserved = {} /\ event = None
  /\ uncertain = {} /\ faults = 0 /\ changes = 0

Pass == Skip \/ Upload \/ Begin \/ (\E late \in BOOLEAN : Settle(late)) \/ Save \/ Exchange
Reconcile == Start("apply", TRUE) /\ UNCHANGED <<faults, changes>>
Unpacked == \E m \in {"apply", "refresh"} : Start(m, FALSE) /\ Fault /\ UNCHANGED changes
Command == \E m \in {"preview", "refresh", "reupload"} :
             Start(m, TRUE) /\ Change /\ UNCHANGED faults
People == SetClockBack \/ Restore \/ Configure \/ Describe \/ LoseKey \/ SwitchAvatars
            \/ Move \/ Map

Next == Pass \/ Reconcile \/ Unpacked \/ Command \/ Unreachable \/ Fails \/ Tick \/ People
          \/ (\E late \in BOOLEAN : Crash(late))

\* The daemon passes again and again, its calls end, and time goes by.
Fairness == WF_vars(Pass) /\ WF_vars(Reconcile) /\ WF_vars(Tick)
Spec == Init /\ [][Next]_vars /\ Fairness

----------------------------------------------------------------------------
(* Properties.                                                             *)

\* Every variable has its type.
TypeOK ==
  /\ conn \in Connections /\ settings \in Settings
  /\ relay \in [Subjects -> Events \cup {None}] /\ cache \in Records /\ uploads \subseteq Assets
  /\ mode \in Modes \cup {None} /\ view \in Settings \cup {None} /\ copy \in Records \cup {None}
  /\ ups \subseteq Assets /\ fresh \subseteq Subjects /\ elapsed \in Ages
  /\ queue \in Seq(Subjects) /\ kept \subseteq Names \X Assets /\ reserved \subseteq Assets
  /\ event \in Contents \cup {None} /\ uncertain \subseteq Subjects
  /\ faults \in 0..MaxFaults /\ changes \in 0..MaxChanges

Latest(s) == IF Running THEN copy[s] ELSE cache[s]

\* What the record says was published is what the relay shows, and what it says was never
\* published the relay does not have; except after a lost answer or save, and until the next
\* publication (sync.rs 545-562, 651-667).
RecordShown ==
  \A s \in Subjects \ uncertain :
    ~(event # None /\ s = Turn) =>
      IF Latest(s) = None THEN relay[s] = None
      ELSE relay[s] # None /\ relay[s].content = Latest(s).content

Active == settings.configured \cap settings.keyed
AvatarOf(i) == relay[Profile(i)].content.avatar

HasAvatar(i, x) == cache[Profile(i)] # None /\ cache[Profile(i)].content.avatar = x

\* Whose avatar is nobody else's keeps it, whoever comes (sync.rs 356-357: "a newly-added
\* identity that sorts earlier cannot steal an old avatar").
OldAvatarsKept ==
  [][\A i \in Names, x \in Assets :
       HasAvatar(i, x) /\ (\A j \in Names \ {i} : ~HasAvatar(j, x)) =>
         HasAvatar(i, x)' \/ cache'[Profile(i)].content.avatar = None]_vars

\* At last the relay shows all profiles and declarations as configured, whatever was lost,
\* restored or dated wrong before, and no two active identities the same avatar while there
\* are enough for all (sync.rs 341, agent_profiles.rs 12-14: "makes recovery deterministic").
Converges ==
  <>[]/\ \A i \in Active :
           /\ relay[Profile(i)] # None
           /\ relay[Profile(i)].content.text = settings.text[i]
           /\ settings.avatars <=> AvatarOf(i) \in Assets
      /\ \A i \in Active \cap Identities :
           relay[Agent(i)] # None /\ relay[Agent(i)].content = Declaration(settings, i)
      /\ settings.avatars /\ Cardinality(settings.configured) <= Cardinality(Assets) =>
           \A i, j \in Active : i # j => AvatarOf(i) # AvatarOf(j)
=============================================================================
