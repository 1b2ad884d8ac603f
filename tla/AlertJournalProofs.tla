-------------------------- MODULE AlertJournalProofs --------------------------
(***************************************************************************)
(* NoSilentHole for every number of regions, length of time and staleness, *)
(* unless the files may be unreadable and the clock may be set back as     *)
(* well.  EpisodesTellTheTruth and CompleteIsWatched for a clock that is   *)
(* never set back.                                                         *)
(*                                                                         *)
(* Whatever is in memory, on disk or on its way there claims only what was *)
(* seen, also after a load has put the heartbeat's stamp on it.  That a    *)
(* stamp never gets ahead of the content rests on the order of writes: a   *)
(* heartbeat is written only while the content on disk is the journal's.   *)
(* What it tells of the time it claims is what was seen: the same argument *)
(* with the units that were seen as they are told in the place of those    *)
(* that were seen.                                                         *)
(***************************************************************************)
EXTENDS JournalWindow, WellFoundedInduction, TLAPS

\* The units that an entry claims to know, as AlertJournal!Claimed does it.
Claim(e) ==
    {u \in Unit : /\ e.since # None /\ e.since <= u
                  /\ u < e.confirmed
                  /\ u \notin Holes(e)
                  /\ e.open = None \/ u < e.open}

\* What was seen of a region.
Seen(r) == alertSeen[r] \cup quietSeen[r]

\* What the entry claims is in S; the same after a load with stamp b.
Sound(S, e) == Claim(e) \subseteq S
FreshSound(S, e, b) == Sound(S, Freshened(e, b))

\* A gap opens at a confirmation.
Shape(e) ==
    /\ e.confirmed = None <=> e.since = None
    /\ e.open # None => e.confirmed # None /\ e.open <= e.confirmed

\* Equal but for the stamp, and for what the journal tells.
Same(e, f) ==
    /\ e.since = f.since /\ e.open = f.open /\ e.gaps = f.gaps
    /\ e.confirmed = None <=> f.confirmed = None

\* A stamp that is newer than the entry's own lies behind a gap.
KnownTo(e, b) ==
    /\ e.confirmed = None => b = None
    /\ \A u \in Unit : e.confirmed <= u /\ u < b => u \in Holes(e)

\* A run that is over leaves nothing in memory.
Running ==
    ~up => /\ age = None /\ selected = {} /\ flush.kind = "none"
           /\ \A r \in Region : journal[r] = Blank

Shapes ==
    \A r \in Region : /\ Shape(journal[r]) /\ Shape(disk[r])
                      /\ flush.kind = "journal" => Shape(flush.content[r])

\* Memory, disk and the write under way, with the heartbeat that a load would find.
Sounds ==
    \A r \in Region :
        /\ FreshSound(Seen(r), journal[r], beat[r])
        /\ FreshSound(Seen(r), disk[r], beat[r])
        /\ flush.kind = "journal" => FreshSound(Seen(r), flush.content[r], beat[r])
        /\ flush.kind = "beat" => FreshSound(Seen(r), disk[r], flush.content[r].confirmed)

Knowns ==
    \A r \in Region :
        /\ flush.kind = "beat" =>
              /\ KnownTo(journal[r], flush.content[r].confirmed)
              /\ disk[r].confirmed = None => flush.content[r].confirmed = None
        /\ ~Damage /\ up => KnownTo(journal[r], beat[r])
        /\ ~Damage /\ disk[r].confirmed = None => beat[r] = None
        /\ ~Damage /\ flush.kind = "journal" /\ flush.content[r].confirmed = None
               => beat[r] = None

\* What counts as written is on disk, but for newer stamps.
Synced ==
    \A r \in Region :
        /\ up /\ ~pending => Same(disk[r], journal[r])
        /\ flush.kind = "journal" /\ flush.latest => Same(flush.content[r], journal[r])

\* No heartbeat without a journal.
Unwritten ==
    ~written => /\ up => pending
                /\ flush.kind # "beat"
                /\ \A r \in Region : beat[r] = None /\ disk[r] = Blank

\* On a feed that is not stale the last confirmation is the last push.
Fresh ==
    age # None /\ age <= StaleAfter =>
        /\ (now - skew) - age \in Time
        /\ \A r \in selected : journal[r].confirmed = (now - skew) - age

Frame == Shapes /\ Running /\ Fresh

JInv == Shapes /\ Sounds /\ Knowns /\ Synced /\ Unwritten /\ Running /\ Fresh

IInv == TypeOK /\ JInv

\* A clock that is never set back makes no stamps in the future.
Past ==
    \A r \in Region : /\ beat[r] <= now /\ journal[r].confirmed <= now
                      /\ disk[r].confirmed <= now
                      /\ flush.kind # "none" => flush.content[r].confirmed <= now

\* The units of which an entry tells an alert, as AlertTold does.
Tale(e) == e.alerts \cup {u \in Unit : e.started # None /\ e.started <= u}

\* The units in which r was seen as e tells them.
Backed(r, e) ==
    {u \in Unit : IF u \in Tale(e) THEN u \in alertSeen[r] ELSE u \in quietSeen[r]}

\* Sounds, for what is told: of what they claim, memory, disk and the write under way
\* tell what was seen.
Truths ==
    \A r \in Region :
        /\ FreshSound(Backed(r, journal[r]), journal[r], beat[r])
        /\ FreshSound(Backed(r, disk[r]), disk[r], beat[r])
        /\ flush.kind = "journal" =>
              FreshSound(Backed(r, flush.content[r]), flush.content[r], beat[r])
        /\ flush.kind = "beat" =>
              FreshSound(Backed(r, disk[r]), disk[r], flush.content[r].confirmed)

\* Nothing is told of the time after the last confirmation but that an alert goes on.
Bounded(e) ==
    /\ e.started # None => e.started <= e.confirmed
    /\ \A u \in e.alerts : u < e.confirmed

Bounds ==
    \A r \in Region : /\ Bounded(journal[r]) /\ Bounded(disk[r])
                      /\ flush.kind = "journal" => Bounded(flush.content[r])

\* The episode that is open is the state that the hub last accepted.
Tracks ==
    age # None => \A r \in selected : journal[r].started # None <=> r \in shown

\* Two entries tell the same.
SameTale(e, f) == e.started = f.started /\ e.alerts = f.alerts

\* Synced, for what is told.
SyncedTales ==
    \A r \in Region :
        /\ up /\ ~pending => SameTale(disk[r], journal[r])
        /\ flush.kind = "journal" /\ flush.latest => SameTale(flush.content[r], journal[r])

TInv == Truths /\ Bounds /\ Tracks /\ SyncedTales

-----------------------------------------------------------------------------
(* Lemmas about entries.                                                   *)

LEMMA MarkGapType == ASSUME NEW e \in Entry PROVE MarkGap(e) \in Entry
BY DEF MarkGap, GapOpens, Entry

\* mark_gap takes back the claim of what comes after the last confirmation.
LEMMA MarkGapKeeps ==
    ASSUME NEW e \in Entry, Shape(e)
    PROVE  LET f == MarkGap(e)
           IN  /\ Shape(f) /\ Claim(f) \subseteq Claim(e) /\ Holes(f) = Holes(e)
               /\ f.confirmed = e.confirmed /\ f.since = e.since /\ f.gaps = e.gaps
               /\ e.open # None => f.open = e.open
               /\ f.open # None => e.open # None \/ f.open = e.confirmed
               /\ e.confirmed # None => f.open # None
<1>1. CASE GapOpens(e)
  <2> DEFINE f == [e EXCEPT !.open = e.confirmed]
  <2>1. MarkGap(e) = f
    BY <1>1 DEF MarkGap
  <2>2. /\ f.confirmed = e.confirmed /\ f.since = e.since /\ f.gaps = e.gaps
        /\ f.open = e.confirmed /\ e.open = None /\ e.confirmed # None
    BY <1>1 DEF Entry, GapOpens
  <2>3. e.confirmed \in Time
    BY <2>2 DEF Entry
  <2> HIDE DEF f
  <2>4. Shape(f)
    BY <2>2, <2>3 DEF Shape, Time
  <2>5. Holes(f) = Holes(e)
    BY <2>2 DEF Holes
  <2>6. Claim(f) \subseteq Claim(e)
    BY <2>2, <2>5 DEF Claim
  <2> QED
    BY <2>1, <2>2, <2>4, <2>5, <2>6
<1>2. CASE ~GapOpens(e)
  BY <1>2 DEF MarkGap, GapOpens
<1> QED
  BY <1>1, <1>2

\* What the journal tells does not touch what it claims.
LEMMA TellKeeps ==
    ASSUME NEW e \in Entry, NEW active \in BOOLEAN, NEW at \in Time
    PROVE  LET f == Tell(e, active, at)
           IN  /\ f \in Entry
               /\ f.confirmed = e.confirmed /\ f.since = e.since
               /\ f.open = e.open /\ f.gaps = e.gaps
<1> DEFINE start == IF e.started # None /\ at < e.started THEN at ELSE e.started
<1>1. start \in Time \cup {None}
  BY DEF Entry
<1>2. CASE active
  <2>1. Tell(e, active, at) = [e EXCEPT !.started = IF start = None THEN at ELSE start]
    BY <1>2 DEF Tell
  <2> HIDE DEF start
  <2> QED
    BY <1>1, <2>1 DEF Entry
<1>3. CASE ~active /\ start # None
  <2>1. Tell(e, active, at) = [e EXCEPT !.started = None, !.alerts = @ \cup Between(start, at)]
    BY <1>3 DEF Tell
  <2> HIDE DEF start
  <2>2. Between(start, at) \subseteq Unit
    BY <1>1, <1>3, JournalAssumption DEF Between, Unit, Time
  <2> QED
    BY <2>1, <2>2 DEF Entry
<1>4. CASE ~active /\ start = None
  BY <1>4 DEF Tell
<1> QED
  BY <1>2, <1>3, <1>4

\* Claims depend on the stamps and the gaps alone.
LEMMA ClaimOf ==
    ASSUME NEW e, NEW f, f.confirmed = e.confirmed, f.since = e.since, f.open = e.open,
           f.gaps = e.gaps
    PROVE  Claim(f) = Claim(e) /\ Holes(f) = Holes(e) /\ (Shape(e) => Shape(f))
BY DEF Claim, Holes, Shape

\* What confirm() makes of an entry.
LEMMA ConfirmFields ==
    ASSUME NEW e \in Entry, NEW restored \in BOOLEAN, NEW at \in Time, Shape(e)
    PROVE  LET f == Confirm(e, restored, at)
               opened == Opened(e, restored)
           IN  /\ f \in Entry /\ Shape(f)
               /\ f.confirmed = at /\ f.open = None
               /\ f.since = IF e.since = None THEN at ELSE e.since
               /\ f.started = e.started /\ f.alerts = e.alerts
               /\ \A u \in Unit : u \in Holes(f) <=>
                     \/ u \in Holes(e)
                     \/ opened # None /\ opened <= u /\ u < at
                     \/ at <= u /\ u < e.confirmed
               /\ ~(opened # None \/ at < e.confirmed) => f.gaps = e.gaps
<1> DEFINE opened == Opened(e, restored)
           hole   == IF opened # None /\ opened < at THEN {[lo |-> opened, hi |-> at]} ELSE {}
           undone == IF at < e.confirmed THEN {[lo |-> at, hi |-> e.confirmed]} ELSE {}
           f == Confirm(e, restored, at)
<1>1. f = [e EXCEPT !.open = None, !.gaps = @ \cup hole \cup undone,
                    !.since = IF @ = None THEN at ELSE @, !.confirmed = at]
  BY DEF Confirm
<1>2. opened \in Time \cup {None}
  BY DEF Opened, Entry
<1> HIDE DEF opened, f
<1>3. hole \cup undone \subseteq Gap
  <2>1. hole \subseteq Gap
    BY <1>2 DEF Gap
  <2>2. at < e.confirmed => e.confirmed \in Time
    BY DEF Entry, Time, None
  <2>3. undone \subseteq Gap
    BY <2>2 DEF Gap
  <2> QED
    BY <2>1, <2>3
<1>4. f.gaps = e.gaps \cup hole \cup undone
  BY <1>1 DEF Entry
<1>5. /\ f.confirmed = at /\ f.open = None
      /\ f.since = IF e.since = None THEN at ELSE e.since
      /\ f.started = e.started /\ f.alerts = e.alerts
  BY <1>1 DEF Entry
<1>6. f \in Entry
  <2> HIDE DEF hole, undone
  <2> QED
    BY <1>1, <1>3 DEF Entry
<1>7. Shape(f)
  BY <1>5 DEF Shape, Time, None
<1>8. \A u \in Unit : u \in Holes(f) <=>
                     \/ u \in Holes(e)
                     \/ opened # None /\ opened <= u /\ u < at
                     \/ at <= u /\ u < e.confirmed
  <2> TAKE u \in Unit
  <2>1. u \in Int /\ at \in Int /\ e.confirmed \in Int /\ opened \in Int
    BY <1>2, JournalAssumption DEF Unit, Time, Entry, None
  <2>2. (\E g \in hole : g.lo <= u /\ u < g.hi) <=> opened # None /\ opened <= u /\ u < at
    <3>1. CASE opened # None /\ opened < at
      <4>1. hole = {[lo |-> opened, hi |-> at]}
        BY <3>1
      <4> HIDE DEF hole
      <4> QED
        BY <3>1, <4>1
    <3>2. CASE ~(opened # None /\ opened < at)
      <4>1. hole = {}
        BY <3>2
      <4> QED
        BY <2>1, <3>2, <4>1
    <3> QED
      BY <3>1, <3>2
  <2>3. (\E g \in undone : g.lo <= u /\ u < g.hi) <=> at <= u /\ u < e.confirmed
    <3>1. CASE at < e.confirmed
      <4>1. undone = {[lo |-> at, hi |-> e.confirmed]}
        BY <3>1
      <4> HIDE DEF undone
      <4> QED
        BY <3>1, <4>1
    <3>2. CASE ~(at < e.confirmed)
      <4>1. undone = {}
        BY <3>2
      <4> QED
        BY <2>1, <3>2, <4>1
    <3> QED
      BY <3>1, <3>2
  <2> HIDE DEF hole, undone
  <2>4. u \in Holes(f) <=> \/ u \in Holes(e)
                           \/ \E g \in hole : g.lo <= u /\ u < g.hi
                           \/ \E g \in undone : g.lo <= u /\ u < g.hi
    BY <1>4 DEF Holes
  <2> QED
    BY <2>2, <2>3, <2>4
<1>9. ~(opened # None \/ at < e.confirmed) => f.gaps = e.gaps
  BY <1>4
<1> QED
  BY <1>5, <1>6, <1>7, <1>8, <1>9 DEF opened, f

LEMMA IntFields ==
    ASSUME NEW e \in Entry
    PROVE  e.confirmed \in Int /\ e.since \in Int /\ e.open \in Int /\ e.confirmed >= None
BY JournalAssumption DEF Entry, Time, None

LEMMA FreshenedFields ==
    ASSUME NEW e \in Entry, NEW b \in Time \cup {None}
    PROVE  LET f == Freshened(e, b)
           IN  /\ f \in Entry
               /\ f.since = e.since /\ f.open = e.open /\ f.gaps = e.gaps
               /\ f.confirmed = IF e.confirmed # None /\ b > e.confirmed THEN b ELSE e.confirmed
               /\ Shape(e) => Shape(f)
               /\ Holes(f) = Holes(e)
               /\ Same(e, f)
<1> DEFINE f == Freshened(e, b)
<1>1. CASE e.confirmed # None /\ b > e.confirmed
  <2>1. f = [e EXCEPT !.confirmed = b]
    BY <1>1 DEF Freshened
  <2>2. e.confirmed \in Time
    BY <1>1 DEF Entry
  <2>3. b \in Time
    BY <1>1, <2>2, JournalAssumption DEF Time, None
  <2> HIDE DEF f
  <2>4. /\ f \in Entry /\ f.since = e.since /\ f.open = e.open /\ f.gaps = e.gaps
        /\ f.confirmed = b
    BY <2>1, <2>3 DEF Entry
  <2>5. Shape(e) => Shape(f)
    BY <1>1, <2>3, <2>4, IntFields DEF Shape, Time, None
  <2>6. Holes(f) = Holes(e)
    BY <2>4 DEF Holes
  <2>7. Same(e, f)
    BY <1>1, <2>3, <2>4 DEF Same, Time, None
  <2> QED
    BY <1>1, <2>4, <2>5, <2>6, <2>7 DEF f
<1>2. CASE ~(e.confirmed # None /\ b > e.confirmed)
  BY <1>2 DEF Freshened, Same
<1> QED
  BY <1>1, <1>2

\* A load that is sound with a newer stamp is sound without it.
LEMMA FreshIsMore ==
    ASSUME NEW S, NEW e \in Entry, NEW b \in Time \cup {None}, FreshSound(S, e, b)
    PROVE  Sound(S, e)
<1> DEFINE f == Freshened(e, b)
<1>1. /\ f.since = e.since /\ f.open = e.open /\ Holes(f) = Holes(e)
      /\ e.confirmed <= f.confirmed
  BY FreshenedFields, IntFields
<1>2. e.confirmed \in Int /\ f.confirmed \in Int
  BY FreshenedFields, IntFields
<1> HIDE DEF f
<1>3. Claim(e) \subseteq Claim(f)
  BY <1>1, <1>2, JournalAssumption DEF Claim, Unit
<1> QED
  BY <1>3 DEF FreshSound, Sound, f

\* A stamp that the entry knows of adds nothing to its claim.
LEMMA KnownIsFresh ==
    ASSUME NEW S, NEW e \in Entry, NEW b \in Time \cup {None}, Sound(S, e), KnownTo(e, b)
    PROVE  FreshSound(S, e, b)
<1> DEFINE f == Freshened(e, b)
<1>1. /\ f.since = e.since /\ f.open = e.open /\ Holes(f) = Holes(e)
      /\ f.confirmed = e.confirmed \/ f.confirmed = b
  BY FreshenedFields
<1>2. e.confirmed \in Int /\ b \in Int
  BY IntFields, JournalAssumption DEF Time, None
<1> HIDE DEF f
<1>3. Claim(f) \subseteq Claim(e)
  BY <1>1, <1>2, JournalAssumption DEF Claim, KnownTo, Unit
<1> QED
  BY <1>3 DEF FreshSound, Sound, f

\* An old stamp adds nothing either.
LEMMA OldIsFresh ==
    ASSUME NEW S, NEW e \in Entry, NEW b \in Time \cup {None}, Sound(S, e), b <= e.confirmed
    PROVE  FreshSound(S, e, b)
<1>1. e.confirmed \in Int /\ b \in Int
  BY IntFields, JournalAssumption DEF Time, None
<1> QED
  BY <1>1 DEF FreshSound, Freshened

\* Two entries with the same content, freshened with the stamp of one.
LEMMA SameIsFresh ==
    ASSUME NEW S, NEW e \in Entry, NEW f \in Entry, Sound(S, e), Sound(S, f), Same(e, f)
    PROVE  FreshSound(S, e, f.confirmed)
<1> DEFINE g == Freshened(e, f.confirmed)
<1>1. f.confirmed \in Time \cup {None}
  BY DEF Entry
<1>2. /\ g.since = e.since /\ g.open = e.open /\ Holes(g) = Holes(e)
      /\ g.confirmed = e.confirmed \/ g.confirmed = f.confirmed
  BY <1>1, FreshenedFields
<1>3. Holes(f) = Holes(e)
  BY DEF Same, Holes
<1> HIDE DEF g
<1>4. Claim(g) \subseteq Claim(e) \/ Claim(g) \subseteq Claim(f)
  BY <1>2, <1>3 DEF Claim, Same
<1> QED
  BY <1>4 DEF FreshSound, Sound, g

\* A confirmation, early or late, leaves no newer stamp unexplained.
LEMMA ConfirmKnows ==
    ASSUME NEW e \in Entry, NEW restored \in BOOLEAN, NEW at \in Time, Shape(e),
           NEW b \in Time \cup {None}, KnownTo(e, b)
    PROVE  KnownTo(Confirm(e, restored, at), b)
<1> DEFINE f == Confirm(e, restored, at)
<1>1. f.confirmed = at
  BY ConfirmFields
<1>2. \A u \in Unit : u \in Holes(e) \/ (at <= u /\ u < e.confirmed) => u \in Holes(f)
  BY ConfirmFields
<1>3. e.confirmed \in Int /\ at \in Int /\ b \in Int /\ at # None
  BY IntFields, JournalAssumption DEF Time, None
<1> HIDE DEF f
<1>4. KnownTo(f, b)
  BY <1>1, <1>2, <1>3, JournalAssumption DEF KnownTo, Unit
<1> QED
  BY <1>4 DEF f

-----------------------------------------------------------------------------
(* Types.                                                                  *)

LEMMA BlankEntry == Blank \in Entry /\ Shape(Blank) /\ Claim(Blank) = {}
BY DEF Blank, Entry, Shape, Claim

LEMMA StampEntry ==
    ASSUME NEW e \in Entry PROVE Stamp(e) \in Entry /\ Stamp(e).confirmed = e.confirmed
BY DEF Stamp, Blank, Entry

\* Of a map, the journal keeps for each selected region what confirm() makes of the
\* entry in which a gap may have been opened, and what handle_event tells.
LEMMA SnapshotRegion ==
    ASSUME TypeOK, Shapes, Snapshot, NEW r \in Region
    PROVE  LET m == IF Interrupted THEN MarkGap(journal[r]) ELSE journal[r]
               c == Confirm(m, r \in resync, now)
           IN  /\ journal'[r] \in Entry
               /\ r \notin selected => journal'[r] = journal[r]
               /\ r \in selected =>
                     /\ journal'[r].confirmed = c.confirmed /\ journal'[r].since = c.since
                     /\ journal'[r].open = c.open /\ journal'[r].gaps = c.gaps
                     /\ ConfirmChanges(m, r \in resync, now) => pending' /\ ~flush'.latest
<1> DEFINE m == IF Interrupted THEN MarkGap(journal[r]) ELSE journal[r]
           c == Confirm(m, r \in resync, now)
<1>1. PICK active \in SUBSET selected, touched \in SUBSET selected :
        LET marked    == [q \in Region |->
                           IF q \in selected /\ Interrupted
                           THEN MarkGap(journal[q]) ELSE journal[q]]
            confirmed == [q \in Region |->
                           IF q \in selected
                           THEN Confirm(marked[q], q \in resync, now) ELSE marked[q]]
            told      == [q \in Region |->
                           IF q \in Told(touched)
                           THEN Tell(confirmed[q], q \in active, now)
                           ELSE confirmed[q]]
        IN  /\ journal' = told
            /\ Touch(\/ \E q \in selected :
                          ConfirmChanges(marked[q], q \in resync, now)
                     \/ \E q \in Told(touched) : TellChanges(journal[q], q \in active),
                     TRUE)
  BY DEF Snapshot
<1>2. journal[r] \in Entry /\ Shape(journal[r]) /\ now \in Time /\ flush \in [kind : {"none", "journal", "beat"}, content : [Region -> Entry], latest : BOOLEAN, latestBeat : BOOLEAN]
  BY DEF TypeOK, Shapes
<1>3. m \in Entry /\ Shape(m)
  BY <1>2, MarkGapType, MarkGapKeeps
<1>4. c \in Entry
  <2>1. (r \in resync) \in BOOLEAN
    OBVIOUS
  <2> HIDE DEF m
  <2> QED
    BY <1>2, <1>3, <2>1, ConfirmFields
<1>5. Told(touched) \subseteq selected
  BY DEF Told
<1>6. CASE r \notin selected
  BY <1>1, <1>2, <1>5, <1>6
<1>7. CASE r \in selected
  <2>1. journal'[r] = IF r \in Told(touched) THEN Tell(c, r \in active, now) ELSE c
    BY <1>1, <1>7
  <2>2. /\ journal'[r] \in Entry
        /\ journal'[r].confirmed = c.confirmed /\ journal'[r].since = c.since
        /\ journal'[r].open = c.open /\ journal'[r].gaps = c.gaps
    <3>1. (r \in active) \in BOOLEAN
      OBVIOUS
    <3> HIDE DEF c
    <3>2. LET f == Tell(c, r \in active, now)
          IN  /\ f \in Entry /\ f.confirmed = c.confirmed /\ f.since = c.since
              /\ f.open = c.open /\ f.gaps = c.gaps
      BY <1>2, <1>4, <3>1, TellKeeps
    <3> QED
      BY <1>4, <2>1, <3>2
  <2>3. ConfirmChanges(m, r \in resync, now) => pending' /\ ~flush'.latest
    BY <1>1, <1>2, <1>7 DEF Touch
  <2> QED
    BY <1>7, <2>2, <2>3 DEF m, c
<1> QED
  BY <1>6, <1>7 DEF m, c

\* The same of a look at a silent feed.
LEMMA CheckStaleRegion ==
    ASSUME TypeOK, CheckStale, NEW r \in Region
    PROVE  LET m == IF r \in selected THEN MarkGap(journal[r]) ELSE journal[r]
           IN  /\ journal'[r] \in Entry
               /\ journal'[r].confirmed = m.confirmed /\ journal'[r].since = m.since
               /\ journal'[r].open = m.open /\ journal'[r].gaps = m.gaps
               /\ r \in selected /\ GapOpens(journal[r]) => pending' /\ ~flush'.latest
<1> DEFINE m == IF r \in selected THEN MarkGap(journal[r]) ELSE journal[r]
<1>1. m \in Entry /\ now \in Time /\ (r \in shown) \in BOOLEAN
  BY MarkGapType DEF TypeOK
<1>2. journal'[r] = m \/ journal'[r] = Tell(m, r \in shown, now)
  BY DEF CheckStale
<1>3. r \in selected /\ GapOpens(journal[r]) => pending' /\ ~flush'.latest
  BY DEF CheckStale, Touch, TypeOK
<1> HIDE DEF m
<1>4. LET f == Tell(m, r \in shown, now)
      IN  /\ f \in Entry /\ f.confirmed = m.confirmed /\ f.since = m.since
          /\ f.open = m.open /\ f.gaps = m.gaps
  BY <1>1, TellKeeps
<1>5. /\ journal'[r] \in Entry
      /\ journal'[r].confirmed = m.confirmed /\ journal'[r].since = m.since
      /\ journal'[r].open = m.open /\ journal'[r].gaps = m.gaps
  BY <1>1, <1>2, <1>4
<1> QED
  BY <1>3, <1>5 DEF m

\* What a load makes of a region.
LEMMA StartRegion ==
    ASSUME TypeOK, Start, NEW r \in Region
    PROVE  /\ journal'[r] \in Entry
           /\ \/ /\ ~pending' /\ written
                 /\ \/ journal'[r] = Freshened(disk[r], beat[r])
                    \/ Damage /\ journal'[r] = disk[r]
              \/ pending' /\ (Damage \/ ~written) /\ journal'[r] = Blank
<1>1. PICK readable \in {written, written /\ ~Damage}, beatReadable \in {TRUE, ~Damage} :
         LET stored == IF readable THEN disk ELSE [q \in Region |-> Blank]
         IN  /\ journal' = [q \in Region |->
                             IF beatReadable THEN Freshened(stored[q], beat[q])
                             ELSE stored[q]]
             /\ pending' = ~readable
  BY DEF Start
<1>2. disk[r] \in Entry /\ beat[r] \in Time \cup {None} /\ written \in BOOLEAN /\ Damage \in BOOLEAN
  BY JournalAssumption DEF TypeOK, Stamps
<1>3. Freshened(Blank, beat[r]) = Blank
  BY DEF Freshened, Blank
<1>4. Freshened(disk[r], beat[r]) \in Entry
  BY <1>2, FreshenedFields
<1>5. CASE readable
  BY <1>1, <1>2, <1>4, <1>5
<1>6. CASE ~readable
  BY <1>1, <1>2, <1>3, <1>6, BlankEntry
<1> QED
  BY <1>5, <1>6

\* One file is replaced, with what was being written.
LEMMA ReplacedTypes ==
    ASSUME TypeOK, Replaced
    PROVE  disk' \in [Region -> Entry] /\ written' \in BOOLEAN /\ beat' \in Stamps
<1>1. \A r \in Region : flush.content[r] \in Entry
  BY DEF TypeOK
<1>2. \A r \in Region : flush.content[r].confirmed \in Time \cup {None}
  BY <1>1 DEF Entry
<1> QED
  BY <1>1, <1>2 DEF Replaced, TypeOK, Stamps

LEMMA TypeInit == Init => TypeOK
<1> SUFFICES ASSUME Init PROVE TypeOK
  OBVIOUS
<1>1. 0 \in Time /\ 0 \in 0 .. MaxJumps /\ 0 \in Int
  BY JournalAssumption DEF Time
<1>2. journal \in [Region -> Entry] /\ disk \in [Region -> Entry]
  BY BlankEntry DEF Init
<1>3. flush \in [kind : {"none", "journal", "beat"}, content : [Region -> Entry],
                latest : BOOLEAN, latestBeat : BOOLEAN]
  BY BlankEntry DEF Init, NoFlush
<1>4. beat \in Stamps
  BY DEF Init, Stamps
<1> QED
  BY <1>1, <1>2, <1>3, <1>4 DEF Init, TypeOK

LEMMA WitnessTypes ==
    ASSUME TypeOK, Fresh, Witness
    PROVE  alertSeen' \in [Region -> SUBSET Unit] /\ quietSeen' \in [Region -> SUBSET Unit]
<1> DEFINE watched(r) == IF r \in selected /\ ~IsStale /\ ~ClockJump
                         THEN Between(now - age, now) ELSE {}
<1>1. \A r \in Region : watched(r) \subseteq Unit
  <2>1. CASE ~IsStale /\ ~ClockJump
    <3>1. age \in Nat /\ skew = 0 /\ now - age \in Time /\ now \in Time
      BY <2>1, JournalAssumption DEF IsStale, ClockJump, Fresh, TypeOK, None, Time
    <3> QED
      BY <2>1, <3>1, JournalAssumption DEF Between, Unit, Time
  <2> QED
    BY <2>1
<1>2. /\ alertSeen' = [r \in Region |->
              IF r \in shown THEN alertSeen[r] \cup watched(r) ELSE alertSeen[r]]
      /\ quietSeen' = [r \in Region |->
              IF r \notin shown THEN quietSeen[r] \cup watched(r) ELSE quietSeen[r]]
  BY DEF Witness
<1> HIDE DEF watched
<1> QED
  BY <1>1, <1>2 DEF TypeOK

LEMMA StartTypes == TypeOK /\ Start => TypeOK'
<1> SUFFICES ASSUME TypeOK, Start PROVE TypeOK'
  OBVIOUS
<1>1. \A r \in Region : journal'[r] \in Entry
  BY StartRegion
<1>2. journal' \in [Region -> Entry]
  BY <1>1 DEF Start
<1>3. resync' \in SUBSET Region /\ pending' \in BOOLEAN /\ selected' \in SUBSET Region
  BY DEF Start, TypeOK
<1>4. /\ up' = TRUE
        /\ UNCHANGED <<clocks, age, skew, shown, announced, beatPending, flush, files, history>>
  BY DEF Start
<1>5. /\ now' \in Time /\ jumps' \in 0 .. MaxJumps /\ up' \in BOOLEAN
        /\ age' \in {None} \cup 0 .. StaleAfter + 1 /\ skew' \in Int
        /\ shown' \in SUBSET Region /\ announced' \in BOOLEAN /\ beatPending' \in BOOLEAN
  BY <1>4 DEF TypeOK, clocks, files, history
<1>6. /\ flush' \in [kind : {"none", "journal", "beat"}, content : [Region -> Entry],
                       latest : BOOLEAN, latestBeat : BOOLEAN]
        /\ disk' \in [Region -> Entry] /\ written' \in BOOLEAN /\ beat' \in Stamps
        /\ alertSeen' \in [Region -> SUBSET Unit] /\ quietSeen' \in [Region -> SUBSET Unit]
  BY <1>4 DEF TypeOK, clocks, files, history
<1> QED
  BY <1>2, <1>3, <1>5, <1>6 DEF TypeOK

LEMMA TypeStep == TypeOK /\ Shapes /\ Fresh /\ [Next]_vars => TypeOK'
<1> SUFFICES ASSUME TypeOK, Shapes, Fresh, [Next]_vars PROVE TypeOK'
  OBVIOUS
<1> USE JournalAssumption DEF clocks, feed, memory, files, history
<1>1. CASE Tick
  BY <1>1 DEF Tick, Aged, TypeOK, Time, None
<1>2. CASE SetClock
  <2>1. now' \in Time /\ jumps' \in 0 .. MaxJumps /\ skew' \in Int
    BY <1>2 DEF SetClock, TypeOK, Time
  <2> QED
    BY <1>2, <2>1 DEF SetClock, TypeOK
<1>3. CASE Snapshot
  <2>1. \A r \in Region : journal'[r] \in Entry
    BY <1>3, SnapshotRegion
  <2>2. journal' \in [Region -> Entry]
    BY <1>3, <2>1 DEF Snapshot
  <2>3. /\ pending' \in BOOLEAN /\ beatPending' \in BOOLEAN
        /\ flush' \in [kind : {"none", "journal", "beat"}, content : [Region -> Entry],
                       latest : BOOLEAN, latestBeat : BOOLEAN]
    BY <1>3 DEF Snapshot, Touch, TypeOK
  <2>4. shown' \in SUBSET Region /\ resync' \in SUBSET Region
    BY <1>3 DEF Snapshot, TypeOK
  <2>5. alertSeen' \in [Region -> SUBSET Unit] /\ quietSeen' \in [Region -> SUBSET Unit]
    BY <1>3, WitnessTypes DEF Snapshot
  <2>6. age' \in {None} \cup 0 .. StaleAfter + 1 /\ skew' \in Int /\ announced' \in BOOLEAN
    <3>1. age' = 0 /\ skew' = 0 /\ announced' = FALSE
      BY <1>3 DEF Snapshot
    <3>2. 0 \in 0 .. StaleAfter + 1
      OBVIOUS
    <3>3. age' \in {None} \cup 0 .. StaleAfter + 1
      BY <3>1, <3>2
    <3>4. skew' \in Int
      BY <3>1
    <3>5. announced' \in BOOLEAN
      BY <3>1, Zenon
    <3> QED
      BY <3>3, <3>4, <3>5
  <2>7. UNCHANGED <<clocks, up, selected, files>>
    BY <1>3 DEF Snapshot
  <2> QED
    BY <2>2, <2>3, <2>4, <2>5, <2>6, <2>7 DEF TypeOK
<1>4. CASE CheckStale
  <2>1. \A r \in Region : journal'[r] \in Entry
    BY <1>4, CheckStaleRegion
  <2>2. journal' \in [Region -> Entry]
    BY <1>4, <2>1 DEF CheckStale
  <2>3. /\ pending' \in BOOLEAN /\ beatPending' \in BOOLEAN
        /\ flush' \in [kind : {"none", "journal", "beat"}, content : [Region -> Entry],
                       latest : BOOLEAN, latestBeat : BOOLEAN]
    BY <1>4 DEF CheckStale, Touch, TypeOK
  <2>4. announced' \in BOOLEAN
    BY <1>4 DEF CheckStale, TypeOK
  <2> QED
    BY <1>4, <2>2, <2>3, <2>4 DEF CheckStale, TypeOK
<1>5. CASE FlushBegin
  <2>1. [r \in Region |-> Stamp(journal[r])] \in [Region -> Entry]
    BY StampEntry DEF TypeOK
  <2>2. flush' \in [kind : {"none", "journal", "beat"}, content : [Region -> Entry],
                   latest : BOOLEAN, latestBeat : BOOLEAN]
    BY <1>5, <2>1 DEF FlushBegin, TypeOK
  <2> QED
    BY <1>5, <2>2 DEF FlushBegin, TypeOK
<1>6. NoFlush \in [kind : {"none", "journal", "beat"}, content : [Region -> Entry],
                  latest : BOOLEAN, latestBeat : BOOLEAN]
  BY BlankEntry DEF NoFlush
<1>7. CASE FlushOk
  <2>1. disk' \in [Region -> Entry] /\ written' \in BOOLEAN /\ beat' \in Stamps
    BY <1>7, ReplacedTypes DEF FlushOk
  <2>2. pending' \in BOOLEAN /\ beatPending' \in BOOLEAN
    BY <1>7 DEF FlushOk, TypeOK
  <2> QED
    BY <1>6, <1>7, <2>1, <2>2 DEF FlushOk, TypeOK
<1>8. CASE FlushFail
  BY <1>6, <1>8 DEF FlushFail, TypeOK
<1>9. CASE Crash
  <2>1. disk' \in [Region -> Entry] /\ written' \in BOOLEAN /\ beat' \in Stamps
    <3>1. CASE Replaced
      BY <3>1, ReplacedTypes
    <3>2. CASE UNCHANGED files
      BY <3>2 DEF TypeOK
    <3> QED
      BY <1>9, <3>1, <3>2 DEF Crash
  <2>2. journal' \in [Region -> Entry]
    BY <1>9, BlankEntry DEF Crash
  <2>3. /\ up' = FALSE /\ age' = None /\ skew' = 0 /\ shown' = {} /\ announced' = FALSE
        /\ selected' = {} /\ resync' = {} /\ pending' = FALSE /\ beatPending' = FALSE
        /\ flush' = NoFlush /\ UNCHANGED <<now, jumps, alertSeen, quietSeen>>
    BY <1>9 DEF Crash
  <2>4. /\ now' \in Time /\ jumps' \in 0 .. MaxJumps
        /\ alertSeen' \in [Region -> SUBSET Unit] /\ quietSeen' \in [Region -> SUBSET Unit]
    BY <2>3 DEF TypeOK
  <2>5. /\ age' \in {None} \cup 0 .. StaleAfter + 1 /\ skew' \in Int
        /\ selected' \in SUBSET Region /\ shown' \in SUBSET Region
        /\ resync' \in SUBSET Region
    BY <2>3
  <2>6. up' \in BOOLEAN /\ announced' \in BOOLEAN /\ pending' \in BOOLEAN /\ beatPending' \in BOOLEAN
    BY <2>3, Zenon
  <2>7. flush' \in [kind : {"none", "journal", "beat"}, content : [Region -> Entry],
                   latest : BOOLEAN, latestBeat : BOOLEAN]
    BY <1>6, <2>3
  <2> QED
    BY <2>1, <2>2, <2>4, <2>5, <2>6, <2>7, Zenon DEF TypeOK
<1>10. CASE Start
  BY <1>10, StartTypes
<1>11. CASE UNCHANGED vars
  BY <1>11 DEF vars, TypeOK
<1> QED
  BY <1>1, <1>2, <1>3, <1>4, <1>5, <1>7, <1>8, <1>9, <1>10, <1>11 DEF Next

LEMMA FreshTick == ASSUME TypeOK, Fresh, Tick PROVE Fresh'
<1>1. /\ now \in Int /\ now' = now + 1 /\ age' = Aged /\ skew \in Int
      /\ UNCHANGED <<selected, skew, journal>>
  BY JournalAssumption DEF Tick, TypeOK, Time, memory
<1> SUFFICES ASSUME age' # None, age' <= StaleAfter
             PROVE  ((now - skew) - age \in Time
                     /\ \A r \in selected : journal[r].confirmed = (now - skew) - age)'
  BY DEF Fresh
<1>2. age # None /\ age \in Int
  BY <1>1, JournalAssumption DEF Aged, TypeOK, None
<1>3. age' = age + 1 /\ age <= StaleAfter
  BY <1>1, <1>2, JournalAssumption DEF Aged
<1>4. (now' - skew') - age' = (now - skew) - age
  BY <1>1, <1>2, <1>3
<1> QED
  BY <1>1, <1>2, <1>3, <1>4 DEF Fresh

LEMMA Shifted ==
    ASSUME NEW a \in Int, NEW b \in Int, NEW s \in Int, NEW t, t = s + (b - a)
    PROVE  b - t = a - s
OBVIOUS

LEMMA FreshSetClock == ASSUME TypeOK, Fresh, SetClock PROVE Fresh'
<1>1. /\ now \in Int /\ now' \in Int /\ age \in Int /\ skew \in Int
      /\ skew' = IF age = None THEN skew ELSE skew + (now' - now)
      /\ UNCHANGED <<selected, age, journal>>
  <2>1. now \in Int /\ age \in Int /\ skew \in Int
    BY JournalAssumption DEF TypeOK, Time, None
  <2>2. now' \in Int
    BY JournalAssumption DEF SetClock, Time
  <2> QED
    BY <2>1, <2>2 DEF SetClock, memory
<1>2. age # None => now' - skew' = now - skew
  <2>1. now \in Int /\ now' \in Int /\ skew \in Int
    BY <1>1
  <2>2. age # None => skew' = skew + (now' - now)
    BY <1>1
  <2> QED
    BY <2>1, <2>2, Shifted, Zenon
<1>3. age # None => (now' - skew') - age' = (now - skew) - age
  BY <1>1, <1>2, Zenon
<1> QED
  BY <1>1, <1>3 DEF Fresh

LEMMA SnapshotShape ==
    ASSUME TypeOK, Shapes, Snapshot, NEW r \in Region
    PROVE  Shape(journal'[r]) /\ (r \in selected => journal'[r].confirmed = now)
<1> DEFINE m == IF Interrupted THEN MarkGap(journal[r]) ELSE journal[r]
           restored == r \in resync
           c == Confirm(m, restored, now)
           k == journal'[r]
<1>1. CASE r \notin selected
  BY <1>1, SnapshotRegion DEF Shapes
<1>2. CASE r \in selected
  <2>1. /\ k.confirmed = c.confirmed /\ k.since = c.since /\ k.open = c.open /\ k.gaps = c.gaps
    BY <1>2, SnapshotRegion
  <2>2. m \in Entry /\ Shape(m) /\ restored \in BOOLEAN /\ now \in Time
    BY MarkGapType, MarkGapKeeps DEF TypeOK, Shapes
  <2> HIDE DEF m, restored, k
  <2>3. Shape(c) /\ c.confirmed = now
    BY <2>2, ConfirmFields
  <2> HIDE DEF c
  <2> QED
    BY <2>1, <2>3, ClaimOf DEF k
<1> QED
  BY <1>1, <1>2

LEMMA CheckStaleShape ==
    ASSUME TypeOK, Shapes, CheckStale, NEW r \in Region
    PROVE  Shape(journal'[r])
<1> DEFINE m == IF r \in selected THEN MarkGap(journal[r]) ELSE journal[r]
           k == journal'[r]
<1>1. k.confirmed = m.confirmed /\ k.since = m.since /\ k.open = m.open /\ k.gaps = m.gaps
  BY CheckStaleRegion
<1>2. Shape(m)
  BY MarkGapKeeps DEF TypeOK, Shapes
<1> HIDE DEF m, k
<1> QED
  BY <1>1, <1>2, ClaimOf DEF k

LEMMA ReplacedShapes ==
    ASSUME TypeOK, Shapes, Replaced PROVE \A r \in Region : Shape(disk'[r])
BY DEF Replaced, Shapes

LEMMA StartShapes ==
    ASSUME TypeOK, Shapes, Start PROVE \A r \in Region : Shape(journal'[r])
<1> SUFFICES ASSUME NEW r \in Region PROVE Shape(journal'[r])
  OBVIOUS
<1>1. disk[r] \in Entry /\ beat[r] \in Time \cup {None} /\ Shape(disk[r])
  BY DEF TypeOK, Stamps, Shapes
<1>2. Shape(Freshened(disk[r], beat[r])) /\ Shape(Blank)
  BY <1>1, FreshenedFields, BlankEntry
<1> QED
  BY <1>1, <1>2, StartRegion

\* The types need no more than the shapes and the age of the feed, whatever becomes of
\* files and clock.
LEMMA FrameStep ==
    TypeOK /\ Frame /\ [Next]_vars => (TypeOK /\ Frame)'
<1> SUFFICES ASSUME TypeOK, Shapes, Running, Fresh, [Next]_vars PROVE Frame'
  BY TypeStep DEF Frame
<1>1. CASE Tick
  <2>1. /\ age' = Aged
        /\ UNCHANGED <<up, selected, journal, disk, flush>>
    BY <1>1 DEF Tick, memory, files
  <2> QED
    BY <1>1, <2>1, FreshTick DEF Frame, Shapes, Running, Aged
<1>2. CASE SetClock
  <2>1. UNCHANGED <<up, selected, age, journal, disk, flush>>
    BY <1>2 DEF SetClock, memory, files
  <2> QED
    BY <1>2, <2>1, FreshSetClock DEF Frame, Shapes, Running
<1>3. CASE Snapshot
  <2>1. /\ up /\ up' = up /\ UNCHANGED <<now, selected, disk>>
        /\ age' = 0 /\ skew' = 0
        /\ flush'.kind = flush.kind /\ flush'.content = flush.content
    BY <1>3 DEF Snapshot, Touch, TypeOK, clocks, files
  <2>2. \A r \in Region : Shape(journal'[r]) /\ (r \in selected => journal'[r].confirmed = now)
    BY <1>3, SnapshotShape
  <2>3. now \in Time /\ (now - 0) - 0 = now /\ \A r \in selected : r \in Region
    BY JournalAssumption DEF TypeOK, Time
  <2> QED
    BY <2>1, <2>2, <2>3 DEF Frame, Shapes, Running, Fresh
<1>4. CASE CheckStale
  <2>1. /\ up /\ IsStale /\ UNCHANGED <<now, up, selected, age, skew, disk>>
        /\ flush'.kind = flush.kind /\ flush'.content = flush.content
    BY <1>4 DEF CheckStale, Touch, TypeOK, clocks, files
  <2>2. Shapes' /\ Running'
    BY <1>4, <2>1, CheckStaleShape DEF Shapes, Running
  <2>3. Fresh'
    BY <2>1, JournalAssumption DEF Fresh, IsStale, TypeOK
  <2> QED
    BY <2>2, <2>3 DEF Frame
<1>5. CASE FlushBegin
  <2>1. /\ up /\ UNCHANGED <<now, up, selected, age, skew, journal, disk>>
        /\ flush'.kind = "journal" => flush'.content = journal
    BY <1>5 DEF FlushBegin, clocks, feed, memory, files
  <2> QED
    BY <2>1 DEF Frame, Shapes, Running, Fresh
<1>6. CASE FlushOk
  <2>1. /\ flush'.kind = "none" /\ Replaced
        /\ UNCHANGED <<now, up, selected, age, skew, journal>>
    BY <1>6 DEF FlushOk, NoFlush, clocks, feed
  <2> QED
    BY <2>1, ReplacedShapes DEF Frame, Shapes, Running, Fresh
<1>7. CASE FlushFail
  <2>1. /\ flush'.kind = "none"
        /\ UNCHANGED <<now, up, selected, age, skew, journal, disk>>
    BY <1>7 DEF FlushFail, NoFlush, clocks, feed, memory, files
  <2> QED
    BY <2>1 DEF Frame, Shapes, Running, Fresh
<1>8. CASE Crash
  <2>1. /\ up' = FALSE /\ flush'.kind = "none" /\ selected' = {} /\ age' = None
        /\ \A r \in Region : journal'[r] = Blank
    BY <1>8 DEF Crash, NoFlush
  <2>2. \A r \in Region : Shape(disk'[r])
    BY <1>8, ReplacedShapes DEF Crash, files, Shapes
  <2> QED
    BY <2>1, <2>2, BlankEntry DEF Frame, Shapes, Running, Fresh
<1>9. CASE Start
  <2>1. /\ ~up /\ up' = TRUE /\ UNCHANGED <<now, age, skew, flush, disk>>
    BY <1>9 DEF Start, clocks, files
  <2> QED
    BY <1>9, <2>1, StartShapes DEF Frame, Shapes, Running, Fresh
<1>10. CASE UNCHANGED vars
  BY <1>10 DEF vars, clocks, feed, memory, files, Frame, Shapes, Running, Fresh
<1> QED
  BY <1>1, <1>2, <1>3, <1>4, <1>5, <1>6, <1>7, <1>8, <1>9, <1>10 DEF Next

-----------------------------------------------------------------------------
(* One region at a time.                                                   *)

\* What is seen only grows.
LEMMA MoreSeen ==
    ASSUME NEW S, NEW T, S \subseteq T, NEW e, NEW b
    PROVE  /\ Sound(S, e) => Sound(T, e)
           /\ FreshSound(S, e, b) => FreshSound(T, e, b)
BY DEF Sound, FreshSound

\* An open gap keeps a newer stamp from adding to the claim.
LEMMA OpenIsFresh ==
    ASSUME NEW S, NEW e \in Entry, NEW b \in Time \cup {None}, Sound(S, e), Shape(e),
           e.open # None
    PROVE  FreshSound(S, e, b)
<1> DEFINE f == Freshened(e, b)
<1>1. /\ f.since = e.since /\ f.open = e.open /\ Holes(f) = Holes(e)
  BY FreshenedFields
<1>2. e.confirmed \in Int /\ e.open \in Int /\ e.open <= e.confirmed
  BY IntFields DEF Shape
<1> HIDE DEF f
<1>3. Claim(f) \subseteq Claim(e)
  BY <1>1, <1>2, JournalAssumption DEF Claim, Unit
<1> QED
  BY <1>3 DEF FreshSound, Sound, f

LEMMA BlankIsFresh ==
    ASSUME NEW S, NEW b PROVE Freshened(Blank, b) = Blank /\ FreshSound(S, Blank, b)
<1>1. Freshened(Blank, b) = Blank
  BY DEF Freshened, Blank
<1> QED
  BY <1>1, BlankEntry DEF FreshSound, Sound

\* A load on top of a load.
LEMMA FreshTwice ==
    ASSUME NEW e \in Entry, NEW b \in Time \cup {None}
    PROVE  Freshened(Freshened(e, b), b) = Freshened(e, b)
<1>1. CASE e.confirmed # None /\ b > e.confirmed
  <2>1. Freshened(e, b).confirmed = b
    BY <1>1, FreshenedFields
  <2>2. b \in Int
    BY JournalAssumption DEF Time, None
  <2> QED
    BY <2>1, <2>2 DEF Freshened
<1>2. CASE ~(e.confirmed # None /\ b > e.confirmed)
  BY <1>2 DEF Freshened
<1> QED
  BY <1>1, <1>2

\* A map confirms what the entry claimed before and, unless feed or clock broke off,
\* the time since the last one.
LEMMA SnapshotClaims ==
    ASSUME TypeOK, JInv, NEW r \in Region, r \in selected
    PROVE  LET j == journal[r]
               m == IF Interrupted THEN MarkGap(j) ELSE j
               c == Confirm(m, r \in resync, now)
           IN  \A u \in Claim(c) :
                 \/ u \in Claim(j)
                 \/ ~Interrupted /\ j.confirmed <= u /\ now - age <= u /\ u < now
<1> DEFINE j == journal[r]
           m == IF Interrupted THEN MarkGap(j) ELSE j
           restored == r \in resync
           opened == Opened(m, restored)
           c == Confirm(m, restored, now)
<1>1. j \in Entry /\ Shape(j) /\ now \in Time
  BY DEF TypeOK, JInv, Shapes
<1>2. m \in Entry /\ Shape(m)
  BY <1>1, MarkGapType, MarkGapKeeps
<1>3. /\ Holes(m) = Holes(j) /\ m.confirmed = j.confirmed /\ m.since = j.since
      /\ j.open # None => m.open = j.open
      /\ Interrupted /\ j.confirmed # None => m.open # None
      /\ ~Interrupted => m.open = j.open
  BY <1>1, MarkGapKeeps
<1>4. restored \in BOOLEAN
  OBVIOUS
<1>5. j.confirmed \in Int /\ j.since \in Int /\ j.open \in Int /\ now \in Int
  BY <1>1, IntFields, JournalAssumption DEF Time
<1>6. ~Interrupted => age >= 0 /\ j.confirmed = now - age
  <2> SUFFICES ASSUME ~Interrupted PROVE age >= 0 /\ j.confirmed = now - age
    OBVIOUS
  <2>1. age # None /\ ~(age > StaleAfter) /\ skew = 0
    BY DEF Interrupted, IsStale, ClockJump
  <2>2. age \in 0 .. StaleAfter + 1
    BY <2>1 DEF TypeOK
  <2>3. age <= StaleAfter /\ age >= 0
    BY <2>1, <2>2, JournalAssumption
  <2>4. j.confirmed = (now - skew) - age
    BY <2>1, <2>3 DEF JInv, Fresh
  <2> QED
    BY <1>5, <2>1, <2>2, <2>3, <2>4
<1> HIDE DEF j, m, restored
<1>7. /\ c.confirmed = now /\ c.open = None
      /\ c.since = IF m.since = None THEN now ELSE m.since
      /\ \A u \in Unit : u \in Holes(c) <=>
                     \/ u \in Holes(m)
                     \/ opened # None /\ opened <= u /\ u < now
                     \/ now <= u /\ u < m.confirmed
  BY <1>1, <1>2, <1>4, ConfirmFields
<1>8. opened # None =>
          m.confirmed # None /\ opened <= m.confirmed /\ (j.open # None => opened = j.open)
  BY <1>2, <1>3, <1>5 DEF Opened, GapOpens, Shape
<1>9. opened = None => m.open = None
  BY <1>2 DEF Opened, GapOpens, Shape, None, Entry
<1>10. opened \in Int
  BY <1>2, IntFields DEF Opened
<1> HIDE DEF c, opened
<1>11. ASSUME NEW u \in Claim(c)
       PROVE  \/ u \in Claim(j)
              \/ ~Interrupted /\ j.confirmed <= u /\ now - age <= u /\ u < now
  <2>1. u \in Unit /\ c.since <= u /\ u < now /\ u \notin Holes(c)
    BY <1>7 DEF Claim
  <2>2. u \in Int
    BY <2>1, JournalAssumption DEF Unit
  <2>3. u \notin Holes(j) /\ (opened # None => u < opened)
    BY <1>3, <1>5, <1>7, <1>10, <2>1, <2>2
  <2>4. j.confirmed # None /\ j.since # None /\ j.since <= u
    <3>1. CASE j.confirmed = None
      BY <1>1, <1>3, <1>5, <1>7, <2>1, <2>2, <3>1 DEF Shape
    <3>2. CASE j.confirmed # None
      BY <1>1, <1>3, <1>5, <1>7, <2>1, <2>2, <3>2 DEF Shape
    <3> QED
      BY <3>1, <3>2
  <2>5. CASE opened # None
    <3>1. u < j.confirmed /\ (j.open = None \/ u < j.open)
      BY <1>3, <1>5, <1>8, <1>10, <2>2, <2>3, <2>5
    <3> QED
      BY <2>1, <2>3, <2>4, <3>1 DEF Claim
  <2>6. CASE opened = None
    <3>1. ~Interrupted /\ j.open = None
      BY <1>3, <1>9, <2>4, <2>6
    <3>2. CASE u < j.confirmed
      BY <2>1, <2>3, <2>4, <3>1, <3>2 DEF Claim
    <3>3. CASE ~(u < j.confirmed)
      BY <1>5, <1>6, <2>1, <2>2, <3>1, <3>3
    <3> QED
      BY <3>2, <3>3
  <2> QED
    BY <2>5, <2>6
<1> QED
  BY <1>11 DEF j, m, restored, c

\* What was watched since the last map was seen.
LEMMA WatchedIsSeen ==
    ASSUME TypeOK, Witness, NEW r \in Region, r \in selected, ~Interrupted,
           NEW u \in Unit, now - age <= u, u < now
    PROVE  u \in IF r \in shown THEN alertSeen'[r] ELSE quietSeen'[r]
<1>1. ~IsStale /\ ~ClockJump
  BY DEF Interrupted
<1>2. u \in Int /\ now \in Int /\ age \in Int
  BY <1>1, JournalAssumption DEF Unit, TypeOK, Time, IsStale, None
<1>3. u \in Between(now - age, now)
  BY <1>2 DEF Between
<1> QED
  BY <1>1, <1>3 DEF Witness

\* A map confirms what was seen since the last one, and nothing else.
LEMMA SnapshotSound ==
    ASSUME TypeOK, JInv, Snapshot, NEW r \in Region, r \in selected
    PROVE  LET S == alertSeen'[r] \cup quietSeen'[r]
               m == IF Interrupted THEN MarkGap(journal[r]) ELSE journal[r]
               c == Confirm(m, r \in resync, now)
           IN  Seen(r) \subseteq S /\ Claim(c) \subseteq S
<1> DEFINE S == alertSeen'[r] \cup quietSeen'[r]
           j == journal[r]
           m == IF Interrupted THEN MarkGap(j) ELSE j
           c == Confirm(m, r \in resync, now)
<1>1. Witness
  BY DEF Snapshot
<1>2. Seen(r) \subseteq S
  BY <1>1 DEF Witness, Seen
<1>3. Sound(Seen(r), j)
  BY FreshIsMore DEF TypeOK, JInv, Sounds, Stamps
<1>4. ASSUME NEW u \in Claim(c) PROVE u \in S
  <2>1. \/ u \in Claim(j)
        \/ ~Interrupted /\ now - age <= u /\ u < now
    BY SnapshotClaims
  <2>2. u \in Unit
    BY DEF Claim
  <2>3. CASE u \in Claim(j)
    BY <1>2, <1>3, <2>3 DEF Sound
  <2>4. CASE ~Interrupted /\ now - age <= u /\ u < now
    <3>1. u \in IF r \in shown THEN alertSeen'[r] ELSE quietSeen'[r]
      BY <1>1, <2>2, <2>4, WatchedIsSeen
    <3> QED
      BY <3>1
  <2> QED
    BY <2>1, <2>3, <2>4
<1> QED
  BY <1>2, <1>4

\* What a map leaves in the journal, by region.
LEMMA SnapshotKeeps ==
    ASSUME ~Damage \/ Past, TypeOK, JInv, Snapshot, NEW r \in Region
    PROVE  LET S == alertSeen'[r] \cup quietSeen'[r]
           IN  /\ Seen(r) \subseteq S
               /\ Shape(journal'[r])
               /\ FreshSound(S, journal'[r], beat[r])
               /\ \A b \in Time \cup {None} : KnownTo(journal[r], b) => KnownTo(journal'[r], b)
               /\ r \in selected => journal'[r].confirmed = now
               /\ r \notin selected => journal'[r] = journal[r]
               /\ (~pending' \/ flush'.latest) => Same(journal[r], journal'[r])
<1> DEFINE S == alertSeen'[r] \cup quietSeen'[r]
           j == journal[r]
           m == IF Interrupted THEN MarkGap(j) ELSE j
           restored == r \in resync
           c == Confirm(m, restored, now)
           k == journal'[r]
<1>1. /\ j \in Entry /\ Shape(j) /\ now \in Time /\ beat[r] \in Time \cup {None}
      /\ FreshSound(Seen(r), j, beat[r]) /\ up
  BY DEF TypeOK, JInv, Shapes, Sounds, Stamps, Snapshot
<1>2. Seen(r) \subseteq S
  BY DEF Snapshot, Witness, Seen
<1>3. CASE r \notin selected
  <2>1. k = j
    BY <1>3, SnapshotRegion DEF JInv
  <2>2. FreshSound(S, j, beat[r])
    BY <1>1, <1>2, MoreSeen
  <2>3. Same(j, j)
    BY DEF Same
  <2> QED
    BY <1>1, <1>2, <1>3, <2>1, <2>2, <2>3
<1>4. CASE r \in selected
  <2>1. /\ k \in Entry
        /\ k.confirmed = c.confirmed /\ k.since = c.since /\ k.open = c.open /\ k.gaps = c.gaps
        /\ ConfirmChanges(m, restored, now) => pending' /\ ~flush'.latest
    BY <1>4, SnapshotRegion DEF JInv
  <2>2. Claim(c) \subseteq S
    BY <1>4, SnapshotSound
  <2>3. /\ m \in Entry /\ Shape(m) /\ restored \in BOOLEAN
        /\ Holes(m) = Holes(j) /\ m.confirmed = j.confirmed /\ m.since = j.since
        /\ m.gaps = j.gaps
        /\ j.open # None => m.open = j.open
    BY <1>1, MarkGapType, MarkGapKeeps
  <2> HIDE DEF S, j, m, restored
  <2>4. /\ Shape(c) /\ c.confirmed = now /\ c.open = None
        /\ c.since = IF m.since = None THEN now ELSE m.since
        /\ ~(Opened(m, restored) # None \/ now < m.confirmed) => c.gaps = m.gaps
    BY <1>1, <2>3, ConfirmFields
  <2> HIDE DEF c
  <2>5. Claim(k) = Claim(c) /\ Holes(k) = Holes(c) /\ Shape(k)
    BY <2>1, <2>4, ClaimOf
  <2>6. Sound(S, k)
    BY <2>2, <2>5 DEF Sound
  <2>7. ASSUME NEW b \in Time \cup {None}, KnownTo(j, b)
        PROVE  KnownTo(k, b)
    <3>1. KnownTo(m, b)
      BY <2>3, <2>7 DEF KnownTo
    <3>2. KnownTo(c, b)
      BY <1>1, <2>3, <3>1, ConfirmKnows DEF c
    <3> QED
      BY <2>1, <2>5, <3>2 DEF KnownTo
  <2>8. FreshSound(S, k, beat[r])
    <3>1. CASE ~Damage
      <4>1. KnownTo(j, beat[r])
        BY <1>1, <3>1 DEF JInv, Knowns, j
      <4>2. KnownTo(k, beat[r])
        BY <1>1, <2>7, <4>1
      <4> QED
        BY <1>1, <2>1, <2>6, <4>2, KnownIsFresh
    <3>2. CASE Past
      <4>1. beat[r] <= now
        BY <3>2 DEF Past
      <4> QED
        BY <1>1, <2>1, <2>4, <2>6, <4>1, OldIsFresh
    <3> QED
      BY <3>1, <3>2
  <2>9. (~pending' \/ flush'.latest) => Same(j, k)
    <3> SUFFICES ASSUME ~ConfirmChanges(m, restored, now) PROVE Same(j, k)
      BY <2>1
    <3>1. Opened(m, restored) = None /\ m.confirmed # None /\ ~(now < m.confirmed)
      BY DEF ConfirmChanges
    <3>2. m.open = None
      BY <3>1 DEF Opened, GapOpens
    <3>3. m.since # None /\ now # None
      BY <1>1, <2>3, <3>1, JournalAssumption DEF Shape, Time, None
    <3> QED
      BY <2>1, <2>3, <2>4, <3>1, <3>2, <3>3 DEF Same
  <2> QED
    BY <1>2, <1>4, <2>1, <2>4, <2>5, <2>7, <2>8, <2>9 DEF j, S
<1> QED
  BY <1>3, <1>4

\* What a look at a silent feed leaves in it.
LEMMA CheckStaleKeeps ==
    ASSUME TypeOK, JInv, CheckStale, NEW r \in Region
    PROVE  /\ Shape(journal'[r])
           /\ \A S : FreshSound(S, journal[r], beat[r]) => FreshSound(S, journal'[r], beat[r])
           /\ \A b \in Time \cup {None} : KnownTo(journal[r], b) => KnownTo(journal'[r], b)
           /\ journal'[r].confirmed = journal[r].confirmed
           /\ (~pending' \/ flush'.latest) => Same(journal[r], journal'[r])
<1> DEFINE j == journal[r]
           m == IF r \in selected THEN MarkGap(j) ELSE j
           k == journal'[r]
<1>1. j \in Entry /\ Shape(j) /\ beat[r] \in Time \cup {None}
  BY DEF TypeOK, JInv, Shapes, Stamps
<1>2. /\ k \in Entry
      /\ k.confirmed = m.confirmed /\ k.since = m.since /\ k.open = m.open /\ k.gaps = m.gaps
      /\ r \in selected /\ GapOpens(j) => pending' /\ ~flush'.latest
  BY CheckStaleRegion
<1>3. /\ m \in Entry /\ Shape(m) /\ Claim(m) \subseteq Claim(j) /\ Holes(m) = Holes(j)
      /\ m.confirmed = j.confirmed /\ m.since = j.since /\ m.gaps = j.gaps
  BY <1>1, MarkGapType, MarkGapKeeps
<1>4. m.open = j.open \/ m.open # None
  BY <1>1 DEF MarkGap, GapOpens, Entry
<1>5. ~(r \in selected /\ GapOpens(j)) => m = j
  BY DEF MarkGap
<1> HIDE DEF j, m, k
<1>6. Claim(k) = Claim(m) /\ Holes(k) = Holes(m) /\ Shape(k)
  BY <1>2, <1>3, ClaimOf
<1>7. ASSUME NEW S, FreshSound(S, j, beat[r]) PROVE FreshSound(S, k, beat[r])
  <2>1. CASE m.open # None
    <3>1. Sound(S, j)
      BY <1>1, <1>7, FreshIsMore
    <3>2. Sound(S, k)
      BY <1>3, <1>6, <3>1 DEF Sound
    <3> QED
      BY <1>1, <1>2, <1>6, <2>1, <3>2, OpenIsFresh
  <2>2. CASE m.open = j.open
    <3>1. /\ Freshened(k, beat[r]).since = Freshened(j, beat[r]).since
          /\ Freshened(k, beat[r]).open = Freshened(j, beat[r]).open
          /\ Freshened(k, beat[r]).gaps = Freshened(j, beat[r]).gaps
          /\ Freshened(k, beat[r]).confirmed = Freshened(j, beat[r]).confirmed
      BY <1>1, <1>2, <1>3, <2>2, FreshenedFields
    <3>2. Claim(Freshened(k, beat[r])) = Claim(Freshened(j, beat[r]))
      BY <3>1, ClaimOf
    <3> QED
      BY <1>7, <3>2 DEF FreshSound, Sound
  <2> QED
    BY <1>4, <2>1, <2>2
<1>8. ASSUME NEW b \in Time \cup {None}, KnownTo(j, b) PROVE KnownTo(k, b)
  BY <1>2, <1>3, <1>6, <1>8 DEF KnownTo
<1>9. (~pending' \/ flush'.latest) => Same(j, k)
  BY <1>2, <1>5 DEF Same
<1> QED
  BY <1>2, <1>3, <1>6, <1>7, <1>8, <1>9 DEF j, k

\* The file that is being written is replaced, and what is on disk stays sound.
LEMMA ReplacedKeeps ==
    ASSUME TypeOK, JInv, Replaced, NEW r \in Region
    PROVE  /\ Shape(disk'[r])
           /\ FreshSound(Seen(r), disk'[r], beat'[r])
           /\ ~Damage /\ disk'[r].confirmed = None => beat'[r] = None
           /\ Past => beat'[r] <= now /\ disk'[r].confirmed <= now
           /\ ~written' => beat'[r] = None /\ disk'[r] = Blank /\ ~written
<1>1. flush.kind \in {"none", "journal", "beat"}
  BY DEF TypeOK
<1>2. CASE flush.kind = "none"
  BY <1>2 DEF Replaced, JInv, Shapes, Sounds, Knowns, Past, Unwritten, TypeOK, Stamps
<1>3. CASE flush.kind = "journal"
  <2>1. disk' = flush.content /\ beat' = beat /\ written'
    BY <1>3 DEF Replaced
  <2> QED
    BY <1>3, <2>1 DEF JInv, Shapes, Sounds, Knowns, Past
<1>4. CASE flush.kind = "beat"
  <2>1. disk' = disk /\ written' = written /\ beat'[r] = flush.content[r].confirmed
    BY <1>4 DEF Replaced, TypeOK
  <2>2. written
    BY <1>4 DEF JInv, Unwritten
  <2>3. /\ Shape(disk[r])
        /\ FreshSound(Seen(r), disk[r], flush.content[r].confirmed)
        /\ disk[r].confirmed = None => flush.content[r].confirmed = None
        /\ Past => flush.content[r].confirmed <= now /\ disk[r].confirmed <= now
    BY <1>4 DEF JInv, Shapes, Sounds, Knowns, Past
  <2> QED
    BY <2>1, <2>2, <2>3
<1> QED
  BY <1>1, <1>2, <1>3, <1>4

\* What a start finds on disk is sound in memory, and stays so.
LEMMA StartKeeps ==
    ASSUME TypeOK, JInv, Start, NEW r \in Region
    PROVE  /\ Shape(journal'[r])
           /\ FreshSound(Seen(r), journal'[r], beat[r])
           /\ ~Damage => KnownTo(journal'[r], beat[r])
           /\ ~pending' => Same(disk[r], journal'[r])
           /\ Past => journal'[r].confirmed <= now
<1> DEFINE d == disk[r]
           b == beat[r]
           k == journal'[r]
<1>1. /\ d \in Entry /\ Shape(d) /\ b \in Time \cup {None} /\ FreshSound(Seen(r), d, b)
      /\ ~Damage /\ d.confirmed = None => b = None
      /\ Past => b <= now /\ d.confirmed <= now
      /\ ~written => b = None
  BY DEF TypeOK, JInv, Shapes, Sounds, Knowns, Past, Unwritten, Stamps
<1>2. now \in Time
  BY DEF TypeOK
<1>3. CASE k = Freshened(d, b)
  <2>1. /\ k \in Entry /\ Shape(k) /\ Same(d, k)
        /\ k.confirmed = IF d.confirmed # None /\ b > d.confirmed THEN b ELSE d.confirmed
    BY <1>1, <1>3, FreshenedFields
  <2>2. FreshSound(Seen(r), k, b)
    BY <1>1, <1>3, FreshTwice DEF FreshSound
  <2>3. b \in Int /\ d.confirmed \in Int
    BY <1>1, IntFields, JournalAssumption DEF Time, None
  <2>4. ~Damage => KnownTo(k, b)
    <3> SUFFICES ASSUME ~Damage PROVE KnownTo(k, b)
      OBVIOUS
    <3>1. k.confirmed = None => b = None
      BY <1>1, <2>1, <2>3 DEF None, Time
    <3>2. b <= k.confirmed
      BY <1>1, <2>1, <2>3, IntFields
    <3>3. k.confirmed \in Int
      BY <2>1, IntFields
    <3> QED
      BY <2>3, <3>1, <3>2, <3>3, JournalAssumption DEF KnownTo, Unit
  <2>5. Past => k.confirmed <= now
    BY <1>1, <2>1
  <2> QED
    BY <2>1, <2>2, <2>4, <2>5
<1>4. CASE Damage /\ k = d
  BY <1>1, <1>4 DEF Same
<1>5. CASE pending' /\ (Damage \/ ~written) /\ k = Blank
  <2>1. Shape(Blank) /\ FreshSound(Seen(r), Blank, b)
    BY BlankEntry, BlankIsFresh
  <2>2. b = None => KnownTo(Blank, b)
    BY JournalAssumption DEF KnownTo, Blank, Unit, None
  <2>3. Blank.confirmed <= now
    BY <1>2, JournalAssumption DEF Blank, None, Time
  <2> QED
    BY <1>1, <1>5, <2>1, <2>2, <2>3
<1> QED
  BY <1>3, <1>4, <1>5, StartRegion

-----------------------------------------------------------------------------
(* Steps.                                                                  *)

LEMMA JInit == Init => JInv
<1> SUFFICES ASSUME Init PROVE JInv
  OBVIOUS
<1>1. ASSUME NEW r \in Region
      PROVE  /\ journal[r] = Blank /\ disk[r] = Blank /\ beat[r] = None
             /\ Shape(Blank)
             /\ FreshSound(Seen(r), Blank, None)
             /\ None <= now /\ Blank.confirmed = None
  BY BlankEntry, BlankIsFresh, JournalAssumption DEF Init, Blank, None
<1>2. flush.kind = "none" /\ ~up /\ age = None /\ selected = {}
  BY DEF Init, NoFlush
<1>3. Shapes /\ Sounds /\ Knowns /\ Synced
  BY <1>1, <1>2 DEF Shapes, Sounds, Knowns, Synced
<1>4. Unwritten /\ Running
  BY <1>1, <1>2 DEF Unwritten, Running
<1>5. Fresh
  BY <1>2 DEF Fresh
<1> QED
  BY <1>3, <1>4, <1>5 DEF JInv

LEMMA TickStep == TypeOK /\ JInv /\ Tick => JInv'
<1> SUFFICES ASSUME TypeOK, JInv, Tick PROVE JInv'
  OBVIOUS
<1>1. /\ now \in Int /\ now' = now + 1 /\ age' = Aged /\ skew \in Int
      /\ UNCHANGED <<jumps, up, selected, skew, shown, announced, journal, resync, pending,
                     beatPending, flush, disk, written, beat, alertSeen, quietSeen>>
  BY JournalAssumption DEF Tick, TypeOK, Time, memory, files, history
<1>2. Shapes' /\ Sounds'
  BY <1>1 DEF JInv, Shapes, Sounds, Seen
<1>3. Knowns' /\ Synced' /\ Unwritten'
  BY <1>1 DEF JInv, Knowns, Synced, Unwritten
<1>4. Running'
  BY <1>1 DEF JInv, Running, Aged
<1>5. Fresh'
  BY FreshTick DEF JInv
<1> QED
  BY <1>2, <1>3, <1>4, <1>5 DEF JInv

LEMMA SetClockStep == TypeOK /\ JInv /\ SetClock => JInv'
<1> SUFFICES ASSUME TypeOK, JInv, SetClock PROVE JInv'
  OBVIOUS
<1>1. /\ now \in Int /\ now' \in Int /\ age \in Int /\ skew \in Int
      /\ skew' = IF age = None THEN skew ELSE skew + (now' - now)
      /\ UNCHANGED <<up, selected, age, shown, announced, journal, resync, pending,
                     beatPending, flush, disk, written, beat, alertSeen, quietSeen>>
  <2>1. now \in Int /\ age \in Int /\ skew \in Int
    BY JournalAssumption DEF TypeOK, Time, None
  <2>2. now' \in Int
    BY JournalAssumption DEF SetClock, Time
  <2> QED
    BY <2>1, <2>2 DEF SetClock, memory, files, history
<1>2. Shapes' /\ Sounds'
  BY <1>1 DEF JInv, Shapes, Sounds, Seen
<1>3. Knowns' /\ Synced' /\ Unwritten' /\ Running'
  BY <1>1 DEF JInv, Knowns, Synced, Unwritten, Running
<1>4. Fresh'
  BY FreshSetClock DEF JInv
<1> QED
  BY <1>2, <1>3, <1>4 DEF JInv

LEMMA SnapshotStep ==
    ASSUME ~Damage \/ Past, TypeOK, JInv, Snapshot PROVE JInv'
<1>1. /\ up /\ up' = up /\ UNCHANGED <<now, jumps, selected, disk, written, beat>>
      /\ age' = 0 /\ skew' = 0
      /\ flush'.kind = flush.kind /\ flush'.content = flush.content
      /\ flush'.latest => flush.latest
      /\ pending => pending'
  BY DEF Snapshot, Touch, TypeOK, clocks, files
<1>2. ASSUME NEW r \in Region
      PROVE  /\ (Seen(r))' = alertSeen'[r] \cup quietSeen'[r]
             /\ Seen(r) \subseteq (Seen(r))'
             /\ Shape(journal'[r])
             /\ FreshSound((Seen(r))', journal'[r], beat[r])
             /\ \A b \in Time \cup {None} : KnownTo(journal[r], b) => KnownTo(journal'[r], b)
             /\ r \in selected => journal'[r].confirmed = now
             /\ r \notin selected => journal'[r] = journal[r]
             /\ (~pending' \/ flush'.latest) => Same(journal[r], journal'[r])
  BY SnapshotKeeps DEF Seen
<1>3. ASSUME NEW r \in Region
      PROVE  beat[r] \in Time \cup {None} /\ flush.content[r].confirmed \in Time \cup {None}
  <2>1. flush.content[r] \in Entry
    BY DEF TypeOK
  <2> QED
    BY <2>1 DEF TypeOK, Stamps, Entry
<1>4. Shapes'
  BY <1>1, <1>2 DEF JInv, Shapes
<1>5. Sounds'
  BY <1>1, <1>2, MoreSeen DEF JInv, Sounds
<1>6. Knowns'
  BY <1>1, <1>2, <1>3 DEF JInv, Knowns
<1>7. Synced'
  BY <1>1, <1>2 DEF JInv, Synced, Same
<1>8. Unwritten' /\ Running'
  BY <1>1 DEF JInv, Unwritten, Running
<1>9. Fresh'
  <2>1. now \in Time /\ (now - 0) - 0 = now
    BY JournalAssumption DEF TypeOK, Time
  <2>2. \A r \in selected : r \in Region
    BY DEF TypeOK
  <2> QED
    BY <1>1, <1>2, <2>1, <2>2 DEF Fresh
<1> QED
  BY <1>4, <1>5, <1>6, <1>7, <1>8, <1>9 DEF JInv

LEMMA CheckStaleStep == TypeOK /\ JInv /\ CheckStale => JInv'
<1> SUFFICES ASSUME TypeOK, JInv, CheckStale PROVE JInv'
  OBVIOUS
<1>1. /\ up /\ IsStale /\ UNCHANGED <<now, up, selected, age, skew, disk, written, beat,
                                    alertSeen, quietSeen>>
      /\ flush'.kind = flush.kind /\ flush'.content = flush.content
      /\ flush'.latest => flush.latest
      /\ pending => pending'
  BY DEF CheckStale, Touch, TypeOK, clocks, files, history
<1>2. ASSUME NEW r \in Region
      PROVE  /\ (Seen(r))' = Seen(r)
             /\ Shape(journal'[r])
             /\ FreshSound(Seen(r), journal'[r], beat[r])
             /\ \A b \in Time \cup {None} : KnownTo(journal[r], b) => KnownTo(journal'[r], b)
             /\ journal'[r].confirmed = journal[r].confirmed
             /\ (~pending' \/ flush'.latest) => Same(journal[r], journal'[r])
  BY <1>1, CheckStaleKeeps DEF Seen, JInv, Sounds
<1>3. ASSUME NEW r \in Region
      PROVE  beat[r] \in Time \cup {None} /\ flush.content[r].confirmed \in Time \cup {None}
  <2>1. flush.content[r] \in Entry
    BY DEF TypeOK
  <2> QED
    BY <2>1 DEF TypeOK, Stamps, Entry
<1>4. Shapes' /\ Sounds'
  BY <1>1, <1>2 DEF JInv, Shapes, Sounds
<1>5. Knowns'
  BY <1>1, <1>2, <1>3 DEF JInv, Knowns
<1>6. Synced'
  BY <1>1, <1>2 DEF JInv, Synced, Same
<1>7. Unwritten' /\ Running'
  BY <1>1, <1>2 DEF JInv, Unwritten, Running
<1>8. Fresh'
  BY <1>1, JournalAssumption DEF Fresh, IsStale, TypeOK
<1> QED
  BY <1>4, <1>5, <1>6, <1>7, <1>8 DEF JInv

LEMMA FlushBeginStep == TypeOK /\ JInv /\ FlushBegin => JInv'
<1> SUFFICES ASSUME TypeOK, JInv, FlushBegin PROVE JInv'
  OBVIOUS
<1>1. /\ up
      /\ flush' = IF pending
                  THEN [kind |-> "journal", content |-> journal,
                        latest |-> TRUE, latestBeat |-> TRUE]
                  ELSE [kind |-> "beat", content |-> [r \in Region |-> Stamp(journal[r])],
                        latest |-> FALSE, latestBeat |-> TRUE]
      /\ UNCHANGED <<now, up, selected, age, skew, journal, pending, disk, written, beat,
                     alertSeen, quietSeen>>
  BY DEF FlushBegin, clocks, feed, memory, files, history
<1>2. Fresh' /\ Running'
  BY <1>1 DEF JInv, Fresh, Running
<1>3. ASSUME NEW r \in Region PROVE (Seen(r))' = Seen(r)
  BY <1>1 DEF Seen
<1>4. CASE pending
  <2>1. flush'.kind = "journal" /\ flush'.content = journal
    BY <1>1, <1>4
  <2>2. Shapes' /\ Sounds'
    BY <1>1, <1>3, <2>1 DEF JInv, Shapes, Sounds
  <2>3. Knowns'
    BY <1>1, <2>1 DEF JInv, Knowns, KnownTo
  <2>4. Synced'
    BY <1>1, <2>1 DEF JInv, Synced, Same
  <2>5. Unwritten'
    BY <1>1, <2>1 DEF JInv, Unwritten
  <2> QED
    BY <1>2, <2>2, <2>3, <2>4, <2>5 DEF JInv
<1>5. CASE ~pending
  <2>1. /\ flush'.kind = "beat"
        /\ \A r \in Region : flush'.content[r] = Stamp(journal[r])
    BY <1>1, <1>5
  <2>2. ASSUME NEW r \in Region
        PROVE  /\ flush'.content[r].confirmed = journal[r].confirmed
               /\ KnownTo(journal[r], journal[r].confirmed)
               /\ FreshSound(Seen(r), disk[r], journal[r].confirmed)
               /\ disk[r].confirmed = None => journal[r].confirmed = None
    <3>1. journal[r] \in Entry /\ disk[r] \in Entry /\ beat[r] \in Time \cup {None}
      BY DEF TypeOK, Stamps
    <3>2. Same(disk[r], journal[r])
      BY <1>1, <1>5 DEF JInv, Synced
    <3>3. Sound(Seen(r), disk[r]) /\ Sound(Seen(r), journal[r])
      BY <3>1, FreshIsMore DEF JInv, Sounds
    <3>4. FreshSound(Seen(r), disk[r], journal[r].confirmed)
      BY <3>1, <3>2, <3>3, SameIsFresh
    <3>5. KnownTo(journal[r], journal[r].confirmed)
      BY <3>1, IntFields, JournalAssumption DEF KnownTo, Unit
    <3> QED
      BY <2>1, <3>1, <3>2, <3>4, <3>5, StampEntry DEF Same
  <2>3. written
    BY <1>1, <1>5 DEF JInv, Unwritten
  <2>4. Shapes' /\ Sounds'
    BY <1>1, <1>3, <2>1, <2>2 DEF JInv, Shapes, Sounds
  <2>5. Knowns'
    BY <1>1, <2>1, <2>2 DEF JInv, Knowns
  <2>6. Synced'
    BY <1>1, <2>1 DEF JInv, Synced
  <2>7. Unwritten'
    BY <1>1, <2>1, <2>2, <2>3 DEF JInv, Unwritten
  <2> QED
    BY <1>2, <2>4, <2>5, <2>6, <2>7 DEF JInv
<1> QED
  BY <1>4, <1>5

LEMMA FlushOkStep == TypeOK /\ JInv /\ FlushOk => JInv'
<1> SUFFICES ASSUME TypeOK, JInv, FlushOk PROVE JInv'
  OBVIOUS
<1>1. /\ flush.kind # "none" /\ Replaced
      /\ pending' = IF flush.kind = "journal" THEN ~flush.latest ELSE pending
      /\ flush'.kind = "none"
      /\ UNCHANGED <<now, up, selected, age, skew, journal, alertSeen, quietSeen>>
  BY DEF FlushOk, NoFlush, clocks, feed, history
<1>2. up
  BY <1>1 DEF JInv, Running
<1>3. ASSUME NEW r \in Region
      PROVE  /\ (Seen(r))' = Seen(r)
             /\ Shape(disk'[r])
             /\ FreshSound(Seen(r), disk'[r], beat'[r])
             /\ ~Damage /\ disk'[r].confirmed = None => beat'[r] = None
             /\ ~written' => beat'[r] = None /\ disk'[r] = Blank /\ ~written
  BY <1>1, ReplacedKeeps DEF Seen
<1>4. ASSUME NEW r \in Region
      PROVE  /\ FreshSound(Seen(r), journal[r], beat'[r])
             /\ ~Damage => KnownTo(journal[r], beat'[r])
             /\ ~pending' => Same(disk'[r], journal[r])
  <2>1. CASE flush.kind = "journal"
    <3>1. disk' = flush.content /\ beat' = beat /\ pending' = ~flush.latest
      BY <1>1, <2>1 DEF Replaced
    <3> QED
      BY <1>2, <2>1, <3>1 DEF JInv, Sounds, Knowns, Synced
  <2>2. CASE flush.kind = "beat"
    <3>1. /\ disk' = disk /\ beat'[r] = flush.content[r].confirmed /\ pending' = pending
      BY <1>1, <2>2 DEF Replaced
    <3>2. /\ journal[r] \in Entry /\ beat[r] \in Time \cup {None}
          /\ flush.content[r] \in Entry /\ flush.content[r].confirmed \in Time \cup {None}
      BY DEF TypeOK, Stamps, Entry
    <3>3. Sound(Seen(r), journal[r]) /\ KnownTo(journal[r], flush.content[r].confirmed)
      BY <2>2, <3>2, FreshIsMore DEF JInv, Sounds, Knowns
    <3>4. FreshSound(Seen(r), journal[r], flush.content[r].confirmed)
      BY <3>2, <3>3, KnownIsFresh
    <3> QED
      BY <1>2, <3>1, <3>3, <3>4 DEF JInv, Synced
  <2> QED
    BY <1>1, <2>1, <2>2 DEF TypeOK
<1>5. Shapes' /\ Sounds' /\ Knowns' /\ Synced'
  BY <1>1, <1>3, <1>4 DEF JInv, Shapes, Sounds, Knowns, Synced
<1>6. Unwritten'
  <2> SUFFICES ASSUME ~written'
               PROVE  (/\ up => pending
                       /\ flush.kind # "beat"
                       /\ \A r \in Region : beat[r] = None /\ disk[r] = Blank)'
    BY DEF Unwritten
  <2>1. ~written /\ flush.kind # "journal"
    BY <1>1 DEF Replaced, TypeOK
  <2>2. pending'
    BY <1>1, <1>2, <2>1 DEF JInv, Unwritten
  <2> QED
    BY <1>1, <1>3, <2>2
<1>7. Running' /\ Fresh'
  BY <1>1, <1>2 DEF JInv, Running, Fresh
<1> QED
  BY <1>5, <1>6, <1>7 DEF JInv

LEMMA FlushFailStep == JInv /\ FlushFail => JInv'
<1> SUFFICES ASSUME JInv, FlushFail PROVE JInv'
  OBVIOUS
<1>1. /\ flush'.kind = "none"
      /\ UNCHANGED <<now, up, selected, age, skew, journal, pending, disk, written, beat,
                     alertSeen, quietSeen>>
  BY DEF FlushFail, NoFlush, clocks, feed, memory, files, history
<1>2. Shapes' /\ Sounds' /\ Knowns' /\ Synced'
  BY <1>1 DEF JInv, Shapes, Sounds, Knowns, Synced, Seen
<1>3. Unwritten' /\ Running' /\ Fresh'
  BY <1>1 DEF JInv, Unwritten, Running, Fresh
<1> QED
  BY <1>2, <1>3 DEF JInv

LEMMA CrashStep == TypeOK /\ JInv /\ Crash => JInv'
<1> SUFFICES ASSUME TypeOK, JInv, Crash PROVE JInv'
  OBVIOUS
<1>1. /\ up' = FALSE /\ flush'.kind = "none" /\ selected' = {} /\ age' = None
      /\ \A r \in Region : journal'[r] = Blank
      /\ UNCHANGED <<now, alertSeen, quietSeen>>
  BY DEF Crash, NoFlush, clocks, history
<1>2. ASSUME NEW r \in Region
      PROVE  /\ (Seen(r))' = Seen(r)
             /\ Shape(disk'[r])
             /\ FreshSound(Seen(r), disk'[r], beat'[r])
             /\ ~Damage /\ disk'[r].confirmed = None => beat'[r] = None
             /\ ~written' => beat'[r] = None /\ disk'[r] = Blank
  <2>1. CASE Replaced
    BY <1>1, <2>1, ReplacedKeeps DEF Seen
  <2>2. CASE UNCHANGED files
    BY <1>1, <2>2 DEF files, JInv, Shapes, Sounds, Knowns, Unwritten, Seen
  <2> QED
    BY <2>1, <2>2 DEF Crash
<1>3. \A S, b : FreshSound(S, Blank, b)
  BY BlankIsFresh
<1>4. Shapes' /\ Sounds'
  BY <1>1, <1>2, <1>3, BlankEntry DEF Shapes, Sounds
<1>5. Knowns' /\ Synced'
  BY <1>1, <1>2 DEF Knowns, Synced
<1>6. Unwritten'
  BY <1>1, <1>2 DEF Unwritten
<1>7. Running' /\ Fresh'
  BY <1>1 DEF Running, Fresh
<1> QED
  BY <1>4, <1>5, <1>6, <1>7 DEF JInv

LEMMA StartStep == TypeOK /\ JInv /\ Start => JInv'
<1> SUFFICES ASSUME TypeOK, JInv, Start PROVE JInv'
  OBVIOUS
<1>1. /\ ~up /\ up' = TRUE
      /\ UNCHANGED <<now, age, skew, flush, disk, written, beat, alertSeen, quietSeen>>
      /\ ~written => pending'
  BY DEF Start, clocks, files, history
<1>2. flush.kind = "none" /\ age = None
  BY <1>1 DEF JInv, Running
<1>3. ASSUME NEW r \in Region
      PROVE  /\ (Seen(r))' = Seen(r)
             /\ Shape(journal'[r])
             /\ FreshSound(Seen(r), journal'[r], beat[r])
             /\ ~Damage => KnownTo(journal'[r], beat[r])
             /\ ~pending' => Same(disk[r], journal'[r])
  BY <1>1, StartKeeps DEF Seen
<1>4. Shapes' /\ Sounds'
  BY <1>1, <1>2, <1>3 DEF JInv, Shapes, Sounds
<1>5. Knowns' /\ Synced'
  BY <1>1, <1>2, <1>3 DEF JInv, Knowns, Synced
<1>6. Unwritten'
  BY <1>1, <1>2, <1>3 DEF JInv, Unwritten
<1>7. Running' /\ Fresh'
  BY <1>1, <1>2 DEF Running, Fresh
<1> QED
  BY <1>4, <1>5, <1>6, <1>7 DEF JInv

LEMMA StutterStep == JInv /\ UNCHANGED vars => JInv'
<1> SUFFICES ASSUME JInv, UNCHANGED vars PROVE JInv'
  OBVIOUS
<1>1. UNCHANGED <<now, up, selected, age, skew, journal, pending, flush, disk, written,
                  beat, alertSeen, quietSeen>>
  BY DEF vars, clocks, feed, memory, files, history
<1>2. Shapes' /\ Sounds' /\ Knowns' /\ Synced'
  BY <1>1 DEF JInv, Shapes, Sounds, Knowns, Synced, Seen
<1>3. Unwritten' /\ Running' /\ Fresh'
  BY <1>1 DEF JInv, Unwritten, Running, Fresh
<1> QED
  BY <1>2, <1>3 DEF JInv

LEMMA InvStep ==
    ASSUME ~Damage \/ Past PROVE IInv /\ [Next]_vars => IInv'
<1> SUFFICES ASSUME IInv, [Next]_vars PROVE IInv'
  OBVIOUS
<1>1. TypeOK /\ JInv
  BY DEF IInv
<1>2. TypeOK'
  BY <1>1, TypeStep DEF JInv
<1> SUFFICES JInv'
  BY <1>2 DEF IInv
<1>3. CASE Tick
  BY <1>1, <1>3, TickStep
<1>4. CASE SetClock
  BY <1>1, <1>4, SetClockStep
<1>5. CASE Snapshot
  BY <1>1, <1>5, SnapshotStep
<1>6. CASE CheckStale
  BY <1>1, <1>6, CheckStaleStep
<1>7. CASE FlushBegin
  BY <1>1, <1>7, FlushBeginStep
<1>8. CASE FlushOk
  BY <1>1, <1>8, FlushOkStep
<1>9. CASE FlushFail
  BY <1>1, <1>9, FlushFailStep
<1>10. CASE Crash
  BY <1>1, <1>10, CrashStep
<1>11. CASE Start
  BY <1>1, <1>11, StartStep
<1>12. CASE UNCHANGED vars
  BY <1>1, <1>12, StutterStep
<1> QED
  BY <1>3, <1>4, <1>5, <1>6, <1>7, <1>8, <1>9, <1>10, <1>11, <1>12 DEF Next

\* A clock that runs on, or is set forward, leaves no stamp ahead of it.
LEMMA PastStep ==
    ASSUME TypeOK, JInv, Past, [Next]_vars, now' >= now PROVE Past'
<1>1. ASSUME NEW r \in Region
      PROVE  /\ beat[r] \in Int /\ journal[r] \in Entry /\ disk[r] \in Entry
             /\ flush.content[r] \in Entry
             /\ journal[r].confirmed \in Int /\ disk[r].confirmed \in Int
             /\ flush.content[r].confirmed \in Int
  BY IntFields, JournalAssumption DEF TypeOK, Stamps, Time, None
<1>2. now \in Int /\ now' \in Int
  <2>1. TypeOK'
    BY TypeStep DEF JInv
  <2> QED
    BY <2>1, JournalAssumption DEF TypeOK, Time
<1>3. CASE /\ UNCHANGED <<beat, journal, disk>>
           /\ flush'.kind # "none" => flush' = flush
  BY <1>1, <1>2, <1>3 DEF Past
<1>4. CASE Snapshot
  <2>1. /\ UNCHANGED <<now, beat, disk>>
        /\ flush'.kind = flush.kind /\ flush'.content = flush.content
    BY <1>4 DEF Snapshot, Touch, TypeOK, clocks, files
  <2>2. \A r \in Region : journal'[r].confirmed = now \/ journal'[r] = journal[r]
    BY <1>4, SnapshotKeeps
  <2> QED
    BY <1>2, <2>1, <2>2 DEF Past
<1>5. CASE CheckStale
  <2>1. /\ UNCHANGED <<now, beat, disk>>
        /\ flush'.kind = flush.kind /\ flush'.content = flush.content
    BY <1>5 DEF CheckStale, Touch, TypeOK, clocks, files
  <2>2. \A r \in Region : journal'[r].confirmed = journal[r].confirmed
    BY <1>5, CheckStaleKeeps
  <2> QED
    BY <2>1, <2>2 DEF Past
<1>6. CASE FlushBegin
  <2>1. /\ UNCHANGED <<now, beat, disk, journal>>
        /\ \A r \in Region : flush'.content[r].confirmed = journal[r].confirmed
    BY <1>1, <1>6, StampEntry DEF FlushBegin, clocks, memory, files
  <2> QED
    BY <2>1 DEF Past
<1>7. CASE FlushOk
  <2>1. Replaced /\ flush'.kind = "none" /\ UNCHANGED <<now, journal>>
    BY <1>7 DEF FlushOk, NoFlush, clocks
  <2>2. \A r \in Region : beat'[r] <= now /\ disk'[r].confirmed <= now
    BY <2>1, ReplacedKeeps
  <2> QED
    BY <2>1, <2>2 DEF Past
<1>8. CASE Crash
  <2>1. /\ flush'.kind = "none" /\ UNCHANGED now
        /\ \A r \in Region : journal'[r] = Blank
    BY <1>8 DEF Crash, NoFlush, clocks
  <2>2. ASSUME NEW r \in Region PROVE beat'[r] <= now /\ disk'[r].confirmed <= now
    <3>1. CASE Replaced
      BY <3>1, ReplacedKeeps
    <3>2. CASE UNCHANGED files
      BY <3>2 DEF files, Past
    <3> QED
      BY <1>8, <3>1, <3>2 DEF Crash
  <2>3. Blank.confirmed <= now
    BY JournalAssumption DEF TypeOK, Time, Blank, None
  <2> QED
    BY <2>1, <2>2, <2>3 DEF Past
<1>9. CASE Start
  <2>1. UNCHANGED <<now, beat, disk, flush>>
    BY <1>9 DEF Start, clocks, files
  <2>2. \A r \in Region : journal'[r].confirmed <= now
    BY <1>9, StartKeeps
  <2> QED
    BY <2>1, <2>2 DEF Past
<1>10. Tick \/ SetClock \/ FlushFail \/ UNCHANGED vars =>
          /\ UNCHANGED <<beat, journal, disk>>
          /\ flush'.kind # "none" => flush' = flush
  BY DEF Tick, SetClock, FlushFail, NoFlush, vars, memory, files
<1> QED
  BY <1>3, <1>4, <1>5, <1>6, <1>7, <1>8, <1>9, <1>10 DEF Next

LEMMA PastInit == Init => Past
<1> SUFFICES ASSUME Init PROVE Past
  OBVIOUS
<1>1. /\ \A r \in Region : journal[r] = Blank /\ disk[r] = Blank /\ beat[r] = None
      /\ flush.kind = "none" /\ now = 0 /\ Blank.confirmed = None
  BY DEF Init, NoFlush, Blank
<1>2. ASSUME NEW r \in Region
      PROVE  journal[r].confirmed <= now /\ disk[r].confirmed <= now /\ beat[r] <= now
  <2>1. None <= now
    BY <1>1 DEF None
  <2> QED
    BY <1>1, <2>1
<1> QED
  BY <1>1, <1>2 DEF Past

-----------------------------------------------------------------------------
(* What is told.                                                           *)

LEMMA TaleOf ==
    ASSUME NEW e, NEW f, SameTale(e, f), NEW r
    PROVE  /\ Tale(f) = Tale(e) /\ Backed(r, f) = Backed(r, e)
           /\ f.confirmed = e.confirmed => (Bounded(e) => Bounded(f))
BY DEF SameTale, Tale, Backed, Bounded

\* Neither a gap that opens nor a newer stamp changes what is told.
LEMMA TaleKept ==
    ASSUME NEW e \in Entry, NEW b
    PROVE  SameTale(e, MarkGap(e)) /\ SameTale(e, Freshened(e, b))
<1>1. SameTale(e, MarkGap(e))
  BY DEF MarkGap, SameTale, Entry
<1>2. SameTale(e, Freshened(e, b))
  BY DEF Freshened, SameTale, Entry
<1> QED
  BY <1>1, <1>2

\* handle_event leaves what is told of the past, and opens or closes the episode.
LEMMA TellTale ==
    ASSUME NEW e \in Entry, NEW active \in BOOLEAN, NEW at \in Time,
           e.started # None => e.started <= at,
           \A u \in e.alerts : u < at
    PROVE  LET f == Tell(e, active, at)
           IN  /\ \A u \in Unit : u < at => (u \in Tale(f) <=> u \in Tale(e))
               /\ f.started # None <=> active
               /\ f.started # None => f.started <= at
               /\ \A u \in f.alerts : u < at
               /\ ~TellChanges(e, active) => SameTale(e, f)
<1> DEFINE start == IF e.started # None /\ at < e.started THEN at ELSE e.started
           f == Tell(e, active, at)
<1>1. at \in Int /\ e.started \in Int /\ at # None /\ e.alerts \subseteq Unit
  BY JournalAssumption DEF Entry, Time, None
<1>2. start = e.started
  BY <1>1
<1>3. \A u \in Unit : u \in Int
  BY JournalAssumption DEF Unit
<1>4. CASE active
  <2>1. f = [e EXCEPT !.started = IF start = None THEN at ELSE start]
    BY <1>4 DEF Tell
  <2> HIDE DEF start, f
  <2>2. f.started = (IF e.started = None THEN at ELSE e.started) /\ f.alerts = e.alerts
    BY <1>2, <2>1 DEF Entry
  <2>3. \A u \in Unit : u < at => (u \in Tale(f) <=> u \in Tale(e))
    BY <1>1, <1>3, <2>2 DEF Tale
  <2>4. TellChanges(e, active)
    BY <1>4 DEF TellChanges
  <2>5. f.started # None /\ f.started <= at /\ \A u \in f.alerts : u < at
    BY <1>1, <2>2
  <2> QED
    BY <1>4, <2>3, <2>4, <2>5 DEF f
<1>5. CASE ~active /\ e.started # None
  <2>1. f = [e EXCEPT !.started = None, !.alerts = @ \cup Between(start, at)]
    BY <1>2, <1>5 DEF Tell
  <2> HIDE DEF start, f
  <2>2. f.started = None /\ f.alerts = e.alerts \cup Between(e.started, at)
    BY <1>2, <2>1 DEF Entry
  <2>3. \A u : u \in Between(e.started, at) <=> u \in Int /\ e.started <= u /\ u < at
    BY <1>1 DEF Between
  <2>4. \A u \in Unit : u < at => (u \in Tale(f) <=> u \in Tale(e))
    BY <1>3, <1>5, <2>2, <2>3 DEF Tale
  <2>5. TellChanges(e, active)
    BY <1>5 DEF TellChanges
  <2> QED
    BY <1>5, <2>2, <2>3, <2>4, <2>5 DEF f
<1>6. CASE ~active /\ e.started = None
  <2>1. f = e
    BY <1>2, <1>6 DEF Tell
  <2> QED
    BY <1>6, <2>1 DEF SameTale
<1> QED
  BY <1>4, <1>5, <1>6

\* A map changes nothing that is told of the past: of a region of which the hub tells
\* the journal nothing, the journal knows the state.
LEMMA SnapshotTale ==
    ASSUME Past, TypeOK, JInv, Bounds, Tracks, Snapshot,
           NEW r \in Region, r \in selected
    PROVE  LET j == journal[r]
               k == journal'[r]
           IN  /\ \A u \in Unit : u < now => (u \in Tale(k) <=> u \in Tale(j))
               /\ k.started # None <=> r \in shown'
               /\ Bounded(k)
               /\ (~pending' \/ flush'.latest) => SameTale(j, k)
<1> DEFINE j == journal[r]
           m == IF Interrupted THEN MarkGap(j) ELSE j
           restored == r \in resync
           c == Confirm(m, restored, now)
           k == journal'[r]
<1>1. PICK active \in SUBSET selected, touched \in SUBSET selected :
        /\ {q \in selected : (q \in active) # (q \in shown)} \subseteq touched
        /\ LET marked    == [q \in Region |->
                              IF q \in selected /\ Interrupted
                              THEN MarkGap(journal[q]) ELSE journal[q]]
               confirmed == [q \in Region |->
                              IF q \in selected
                              THEN Confirm(marked[q], q \in resync, now) ELSE marked[q]]
               told      == [q \in Region |->
                              IF q \in Told(touched)
                              THEN Tell(confirmed[q], q \in active, now)
                              ELSE confirmed[q]]
           IN  /\ journal' = told
               /\ Touch(\/ \E q \in selected :
                             ConfirmChanges(marked[q], q \in resync, now)
                        \/ \E q \in Told(touched) : TellChanges(journal[q], q \in active),
                        TRUE)
        /\ shown' = active
  BY DEF Snapshot
<1>2. k = IF r \in Told(touched) THEN Tell(c, r \in active, now) ELSE c
  BY <1>1
<1>3. (~pending' \/ flush'.latest) /\ r \in Told(touched) => ~TellChanges(j, r \in active)
  BY <1>1 DEF Touch, TypeOK
<1>4. /\ j \in Entry /\ Shape(j) /\ now \in Time /\ Bounded(j) /\ j.confirmed <= now
      /\ k \in Entry /\ k.confirmed = c.confirmed
  BY SnapshotRegion DEF TypeOK, JInv, Shapes, Bounds, Past
<1> DEFINE on == r \in active
<1>5. restored \in BOOLEAN /\ on \in BOOLEAN
  OBVIOUS
<1>6. m \in Entry /\ Shape(m) /\ SameTale(j, m)
  BY <1>4, MarkGapType, MarkGapKeeps, TaleKept DEF SameTale
<1> HIDE DEF m, j, k, restored, on
<1>7. c \in Entry /\ c.confirmed = now /\ SameTale(j, c)
  BY <1>4, <1>5, <1>6, ConfirmFields DEF SameTale
<1> HIDE DEF c
<1>8. /\ c.started # None => c.started <= now
      /\ \A u \in c.alerts : u < now
  <2>1. j.confirmed \in Int /\ j.started \in Int /\ now \in Int /\ j.alerts \subseteq Int
    BY <1>4, JournalAssumption DEF Entry, Time, Unit, None
  <2>2. \A u \in j.alerts : u < j.confirmed
    BY <1>4 DEF Bounded
  <2> QED
    BY <1>4, <1>7, <2>1, <2>2 DEF SameTale, Bounded
<1>9. Tale(c) = Tale(j)
  BY <1>7, TaleOf
<1>10. CASE r \in Told(touched)
  <2> DEFINE f == Tell(c, on, now)
  <2>1. /\ \A u \in Unit : u < now => (u \in Tale(f) <=> u \in Tale(c))
        /\ f.started # None <=> on
        /\ f.started # None => f.started <= now
        /\ \A u \in f.alerts : u < now
        /\ ~TellChanges(c, on) => SameTale(c, f)
    BY <1>4, <1>5, <1>7, <1>8, TellTale
  <2> HIDE DEF f
  <2>2. k = f /\ (on <=> r \in active)
    BY <1>2, <1>10 DEF f, on
  <2>3. Bounded(k)
    BY <1>4, <1>7, <2>1, <2>2 DEF Bounded
  <2>4. (~pending' \/ flush'.latest) => SameTale(j, k)
    BY <1>3, <1>7, <1>10, <2>1, <2>2 DEF TellChanges, SameTale
  <2> QED
    BY <1>1, <1>9, <2>1, <2>2, <2>3, <2>4 DEF j, k
<1>11. CASE r \notin Told(touched)
  <2>1. k = c
    BY <1>2, <1>11
  <2>2. age # None /\ (r \in active <=> r \in shown)
    BY <1>1, <1>11 DEF Told, IsStale
  <2>3. k.started # None <=> r \in shown'
    BY <1>1, <1>7, <2>1, <2>2 DEF Tracks, SameTale, j
  <2>4. Bounded(k)
    BY <1>7, <1>8, <2>1 DEF Bounded
  <2> QED
    BY <1>7, <1>9, <2>1, <2>3, <2>4 DEF j, k
<1> QED
  BY <1>10, <1>11

\* What a map leaves of a region's truth.
LEMMA SnapshotTells ==
    ASSUME Past, TypeOK, JInv, TInv, Snapshot, NEW r \in Region
    PROVE  /\ (FreshSound(Backed(r, journal[r]), journal[r], beat[r]))'
           /\ Bounded(journal'[r])
           /\ (~pending' \/ flush'.latest) => SameTale(journal[r], journal'[r])
<1> DEFINE j == journal[r]
           k == journal'[r]
<1>1. /\ beat' = beat /\ beat[r] \in Time \cup {None}
      /\ j \in Entry /\ now \in Time /\ Bounded(j)
      /\ FreshSound(Backed(r, j), j, beat[r])
      /\ Witness
  BY DEF TypeOK, Stamps, TInv, Truths, Bounds, Snapshot, files
<1>2. alertSeen[r] \subseteq alertSeen'[r] /\ quietSeen[r] \subseteq quietSeen'[r]
  BY <1>1 DEF Witness
<1>3. CASE r \notin selected
  <2>1. k = j
    BY <1>3, SnapshotRegion DEF JInv
  <2>2. Backed(r, j) \subseteq (Backed(r, journal[r]))'
    BY <1>2, <2>1 DEF Backed
  <2> QED
    BY <1>1, <2>1, <2>2, MoreSeen DEF SameTale
<1>4. CASE r \in selected
  <2> DEFINE m == IF Interrupted THEN MarkGap(j) ELSE j
             c == Confirm(m, r \in resync, now)
  <2>1. /\ k \in Entry
        /\ k.confirmed = c.confirmed /\ k.since = c.since /\ k.open = c.open /\ k.gaps = c.gaps
    BY <1>4, SnapshotRegion DEF JInv
  <2>2. \A u \in Claim(c) :
          \/ u \in Claim(j)
          \/ ~Interrupted /\ j.confirmed <= u /\ now - age <= u /\ u < now
    BY <1>4, SnapshotClaims
  <2>3. /\ \A u \in Unit : u < now => (u \in Tale(k) <=> u \in Tale(j))
        /\ Bounded(k)
        /\ (~pending' \/ flush'.latest) => SameTale(j, k)
    BY <1>4, SnapshotTale DEF TInv
  <2>4. k.confirmed = now
    BY <1>4, SnapshotKeeps
  <2>5. Sound(Backed(r, j), j)
    BY <1>1, FreshIsMore
  <2> HIDE DEF c, m, j
  <2>6. Claim(k) = Claim(c)
    BY <2>1, ClaimOf
  <2>7. \A u \in Claim(k) : u \in Unit /\ u < now
    BY <2>4 DEF Claim
  <2>8. ASSUME NEW u \in Claim(k) PROVE u \in (Backed(r, journal[r]))'
    <3>1. u \in Unit /\ u < now
      BY <2>7
    <3>2. CASE u \in Claim(j)
      <4>1. u \in Backed(r, j)
        BY <2>5, <3>2 DEF Sound
      <4> QED
        BY <1>2, <2>3, <3>1, <4>1 DEF Backed
    <3>3. CASE ~Interrupted /\ j.confirmed <= u /\ now - age <= u /\ u < now
      <4>1. u \in IF r \in shown THEN alertSeen'[r] ELSE quietSeen'[r]
        BY <1>1, <1>4, <3>1, <3>3, WatchedIsSeen
      <4>2. j.started # None <=> r \in shown
        BY <1>4, <3>3 DEF TInv, Tracks, Interrupted, IsStale, j
      <4>3. u \in Tale(j) <=> j.started # None
        <5>1. /\ u \in Int /\ j.confirmed \in Int /\ j.started \in Int
              /\ j.alerts \subseteq Int
          BY <1>1, <3>1, JournalAssumption DEF Entry, Unit, Time, None
        <5> QED
          BY <1>1, <3>1, <3>3, <5>1 DEF Tale, Bounded
      <4> QED
        BY <2>3, <3>1, <4>1, <4>2, <4>3 DEF Backed
    <3> QED
      BY <2>2, <2>6, <3>2, <3>3
  <2>9. Sound((Backed(r, journal[r]))', k)
    BY <2>8 DEF Sound
  <2>10. beat[r] <= k.confirmed
    BY <2>4 DEF Past
  <2>11. FreshSound((Backed(r, journal[r]))', k, beat[r])
    BY <1>1, <2>1, <2>9, <2>10, OldIsFresh
  <2> QED
    BY <1>1, <2>3, <2>11 DEF j
<1> QED
  BY <1>3, <1>4

LEMMA SnapshotTruth == ASSUME Past, TypeOK, JInv, TInv, Snapshot PROVE TInv'
<1>1. /\ up /\ up' = up /\ UNCHANGED <<selected, disk, beat>>
      /\ flush'.kind = flush.kind /\ flush'.content = flush.content
      /\ flush'.latest => flush.latest
      /\ pending => pending'
      /\ Witness
  BY DEF Snapshot, Touch, TypeOK, files
<1>2. ASSUME NEW r \in Region
      PROVE  /\ (FreshSound(Backed(r, journal[r]), journal[r], beat[r]))'
             /\ Bounded(journal'[r])
             /\ (~pending' \/ flush'.latest) => SameTale(journal[r], journal'[r])
  BY SnapshotTells
<1>3. ASSUME NEW r \in Region
      PROVE  /\ Backed(r, disk[r]) \subseteq (Backed(r, disk[r]))'
             /\ Backed(r, flush.content[r]) \subseteq (Backed(r, flush.content[r]))'
  <2>1. alertSeen[r] \subseteq alertSeen'[r] /\ quietSeen[r] \subseteq quietSeen'[r]
    BY <1>1 DEF Witness
  <2> QED
    BY <1>1, <2>1 DEF Backed
<1>4. Truths'
  BY <1>1, <1>2, <1>3, MoreSeen DEF TInv, Truths
<1>5. Bounds'
  BY <1>1, <1>2 DEF TInv, Bounds
<1>6. Tracks'
  <2>1. \A r \in selected : journal'[r].started # None <=> r \in shown'
    BY SnapshotTale DEF TInv, TypeOK
  <2> QED
    BY <1>1, <2>1 DEF Tracks
<1>7. SyncedTales'
  BY <1>1, <1>2 DEF TInv, SyncedTales, SameTale
<1> QED
  BY <1>4, <1>5, <1>6, <1>7 DEF TInv

\* A look at a silent feed tells of a region what the journal has of it already.
LEMMA CheckStaleTells ==
    ASSUME Past, TypeOK, JInv, TInv, CheckStale, NEW r \in Region
    PROVE  SameTale(journal[r], journal'[r])
<1> DEFINE j == journal[r]
           m == IF r \in selected THEN MarkGap(j) ELSE j
           on == r \in shown
           f == Tell(m, on, now)
<1>1. /\ j \in Entry /\ now \in Time /\ Bounded(j) /\ j.confirmed <= now
      /\ on \in BOOLEAN
  BY DEF TypeOK, JInv, Past, TInv, Bounds
<1>2. journal'[r] = IF r \in selected /\ Announces THEN f ELSE m
  BY DEF CheckStale
<1>3. r \in selected /\ Announces => (j.started # None <=> on)
  BY DEF Announces, TInv, Tracks
<1>4. m \in Entry /\ SameTale(j, m)
  BY <1>1, MarkGapType, TaleKept DEF SameTale
<1> HIDE DEF j, m, on
<1>5. (j.started # None <=> on) => f.started = m.started /\ f.alerts = m.alerts
  <2>1. j.started \in Int /\ j.confirmed \in Int /\ now \in Int
    BY <1>1, JournalAssumption DEF Entry, Time, None
  <2>2. ~(m.started # None /\ now < m.started)
    BY <1>1, <1>4, <2>1 DEF SameTale, Bounded
  <2>3. CASE on
    <3>1. f = [m EXCEPT !.started = IF m.started = None THEN now ELSE m.started]
      BY <2>2, <2>3 DEF Tell
    <3> HIDE DEF f
    <3>2. /\ f.started = (IF m.started = None THEN now ELSE m.started)
          /\ f.alerts = m.alerts
      BY <1>4, <3>1 DEF Entry
    <3> QED
      BY <1>4, <2>3, <3>2 DEF SameTale
  <2>4. CASE ~on
    BY <1>4, <2>2, <2>4 DEF Tell, SameTale
  <2> QED
    BY <2>3, <2>4
<1> HIDE DEF f
<1>6. SameTale(m, journal'[r])
  BY <1>2, <1>3, <1>5 DEF SameTale
<1> QED
  BY <1>4, <1>6 DEF SameTale, j

LEMMA CheckStaleTruth == ASSUME Past, TypeOK, JInv, TInv, CheckStale PROVE TInv'
<1>1. /\ up /\ UNCHANGED <<now, up, selected, age, shown, disk, beat, alertSeen, quietSeen>>
      /\ flush'.kind = flush.kind /\ flush'.content = flush.content
      /\ flush'.latest => flush.latest
      /\ pending => pending'
  BY DEF CheckStale, Touch, TypeOK, clocks, files, history
<1>2. ASSUME NEW r \in Region
      PROVE  /\ SameTale(journal[r], journal'[r])
             /\ journal'[r].confirmed = journal[r].confirmed
             /\ \A S : FreshSound(S, journal[r], beat[r]) => FreshSound(S, journal'[r], beat[r])
  BY CheckStaleTells, CheckStaleKeeps
<1>3. ASSUME NEW r \in Region
      PROVE  /\ (Backed(r, journal[r]))' = Backed(r, journal[r])
             /\ Bounded(journal'[r])
  <2>1. Backed(r, journal'[r]) = Backed(r, journal[r]) /\ Bounded(journal'[r])
    BY <1>2, TaleOf DEF TInv, Bounds
  <2> QED
    BY <1>1, <2>1 DEF Backed
<1>4. Truths'
  <2>1. ASSUME NEW r \in Region
        PROVE  /\ (Backed(r, disk[r]))' = Backed(r, disk[r])
               /\ (Backed(r, flush.content[r]))' = Backed(r, flush.content[r])
    BY <1>1 DEF Backed
  <2> QED
    BY <1>1, <1>2, <1>3, <2>1 DEF TInv, Truths
<1>5. Bounds'
  BY <1>1, <1>3 DEF TInv, Bounds
<1>6. Tracks' /\ SyncedTales'
  BY <1>1, <1>2 DEF TInv, Tracks, SyncedTales, SameTale, TypeOK
<1> QED
  BY <1>4, <1>5, <1>6 DEF TInv

LEMMA FlushBeginTruth == TypeOK /\ JInv /\ TInv /\ FlushBegin => TInv'
<1> SUFFICES ASSUME TypeOK, JInv, TInv, FlushBegin PROVE TInv'
  OBVIOUS
<1>1. /\ up
      /\ flush' = IF pending
                  THEN [kind |-> "journal", content |-> journal,
                        latest |-> TRUE, latestBeat |-> TRUE]
                  ELSE [kind |-> "beat", content |-> [r \in Region |-> Stamp(journal[r])],
                        latest |-> FALSE, latestBeat |-> TRUE]
      /\ UNCHANGED <<up, selected, age, shown, journal, pending, disk, beat,
                     alertSeen, quietSeen>>
  BY DEF FlushBegin, clocks, feed, memory, files, history
<1>2. Tracks'
  BY <1>1 DEF TInv, Tracks
<1>3. ASSUME NEW r \in Region
      PROVE  /\ (Backed(r, journal[r]))' = Backed(r, journal[r])
             /\ (Backed(r, disk[r]))' = Backed(r, disk[r])
  BY <1>1 DEF Backed
<1>4. CASE pending
  <2>1. flush'.kind = "journal" /\ flush'.content = journal
    BY <1>1, <1>4
  <2>2. \A r \in Region : (Backed(r, flush.content[r]))' = Backed(r, journal[r])
    BY <1>1, <2>1 DEF Backed
  <2>3. Truths'
    BY <1>1, <1>3, <2>1, <2>2 DEF TInv, Truths
  <2>4. Bounds' /\ SyncedTales'
    BY <1>1, <2>1 DEF TInv, Bounds, SyncedTales, SameTale
  <2> QED
    BY <1>2, <2>3, <2>4 DEF TInv
<1>5. CASE ~pending
  <2>1. /\ flush'.kind = "beat"
        /\ \A r \in Region : flush'.content[r] = Stamp(journal[r])
    BY <1>1, <1>5
  <2>2. ASSUME NEW r \in Region
        PROVE  FreshSound(Backed(r, disk[r]), disk[r], flush'.content[r].confirmed)
    <3>1. journal[r] \in Entry /\ disk[r] \in Entry /\ beat[r] \in Time \cup {None}
      BY DEF TypeOK, Stamps
    <3>2. Same(disk[r], journal[r]) /\ SameTale(disk[r], journal[r])
      BY <1>1, <1>5 DEF JInv, Synced, TInv, SyncedTales
    <3>3. Backed(r, journal[r]) = Backed(r, disk[r])
      BY <3>2, TaleOf
    <3>4. Sound(Backed(r, disk[r]), disk[r]) /\ Sound(Backed(r, disk[r]), journal[r])
      BY <3>1, <3>3, FreshIsMore DEF TInv, Truths
    <3> QED
      BY <2>1, <3>1, <3>2, <3>4, SameIsFresh, StampEntry
  <2>3. Truths'
    BY <1>1, <1>3, <2>1, <2>2 DEF TInv, Truths
  <2>4. Bounds' /\ SyncedTales'
    BY <1>1, <2>1 DEF TInv, Bounds, SyncedTales
  <2> QED
    BY <1>2, <2>3, <2>4 DEF TInv
<1> QED
  BY <1>4, <1>5

\* The file that is being written is replaced, and what is on disk stays true.
LEMMA ReplacedTells ==
    ASSUME TypeOK, TInv, Replaced, UNCHANGED history, NEW r \in Region
    PROVE  /\ (FreshSound(Backed(r, disk[r]), disk[r], beat[r]))'
           /\ Bounded(disk'[r])
<1>1. flush.kind \in {"none", "journal", "beat"}
  BY DEF TypeOK
<1>2. \A e \in {disk[r], flush.content[r]} : disk'[r] = e =>
         (Backed(r, disk[r]))' = Backed(r, e)
  BY DEF Backed, history
<1>3. CASE flush.kind = "none"
  <2>1. disk' = disk /\ beat'[r] = beat[r]
    BY <1>3 DEF Replaced, TypeOK, Stamps
  <2> QED
    BY <1>2, <2>1 DEF TInv, Truths, Bounds
<1>4. CASE flush.kind = "journal"
  <2>1. disk' = flush.content /\ beat' = beat
    BY <1>4 DEF Replaced
  <2> QED
    BY <1>2, <1>4, <2>1 DEF TInv, Truths, Bounds
<1>5. CASE flush.kind = "beat"
  <2>1. disk' = disk /\ beat'[r] = flush.content[r].confirmed
    BY <1>5 DEF Replaced, TypeOK
  <2> QED
    BY <1>2, <1>5, <2>1 DEF TInv, Truths, Bounds
<1> QED
  BY <1>1, <1>3, <1>4, <1>5

LEMMA FlushOkTruth == TypeOK /\ JInv /\ TInv /\ FlushOk => TInv'
<1> SUFFICES ASSUME TypeOK, JInv, TInv, FlushOk PROVE TInv'
  OBVIOUS
<1>1. /\ flush.kind # "none" /\ Replaced
      /\ pending' = IF flush.kind = "journal" THEN ~flush.latest ELSE pending
      /\ flush'.kind = "none"
      /\ UNCHANGED <<up, selected, age, shown, journal, history>>
  BY DEF FlushOk, NoFlush, clocks, feed
<1>2. up
  BY <1>1 DEF JInv, Running
<1>3. ASSUME NEW r \in Region
      PROVE  /\ (FreshSound(Backed(r, disk[r]), disk[r], beat[r]))'
             /\ Bounded(disk'[r])
  BY <1>1, ReplacedTells
<1>4. ASSUME NEW r \in Region
      PROVE  /\ (FreshSound(Backed(r, journal[r]), journal[r], beat[r]))'
             /\ ~pending' => SameTale(disk'[r], journal[r])
  <2>1. (Backed(r, journal[r]))' = Backed(r, journal[r])
    BY <1>1 DEF Backed, history
  <2>2. CASE flush.kind = "journal"
    <3>1. disk' = flush.content /\ beat' = beat /\ pending' = ~flush.latest
      BY <1>1, <2>2 DEF Replaced
    <3> QED
      BY <1>1, <2>1, <2>2, <3>1 DEF TInv, Truths, SyncedTales
  <2>3. CASE flush.kind = "beat"
    <3>1. /\ disk' = disk /\ beat'[r] = flush.content[r].confirmed /\ pending' = pending
      BY <1>1, <2>3 DEF Replaced
    <3>2. /\ journal[r] \in Entry /\ beat[r] \in Time \cup {None}
          /\ flush.content[r] \in Entry /\ flush.content[r].confirmed \in Time \cup {None}
      BY DEF TypeOK, Stamps, Entry
    <3>3. /\ Sound(Backed(r, journal[r]), journal[r])
          /\ KnownTo(journal[r], flush.content[r].confirmed)
      BY <2>3, <3>2, FreshIsMore DEF TInv, Truths, JInv, Knowns
    <3>4. FreshSound(Backed(r, journal[r]), journal[r], flush.content[r].confirmed)
      BY <3>2, <3>3, KnownIsFresh
    <3> QED
      BY <1>1, <1>2, <2>1, <3>1, <3>4 DEF TInv, SyncedTales
  <2> QED
    BY <1>1, <2>2, <2>3 DEF TypeOK
<1>5. Truths' /\ Bounds' /\ SyncedTales'
  BY <1>1, <1>3, <1>4 DEF TInv, Truths, Bounds, SyncedTales
<1>6. Tracks'
  BY <1>1 DEF TInv, Tracks
<1> QED
  BY <1>5, <1>6 DEF TInv

LEMMA BlankTells == Bounded(Blank) /\ \A S, b : FreshSound(S, Blank, b)
BY BlankIsFresh DEF Bounded, Blank

LEMMA CrashTruth == TypeOK /\ JInv /\ TInv /\ Crash => TInv'
<1> SUFFICES ASSUME TypeOK, JInv, TInv, Crash PROVE TInv'
  OBVIOUS
<1>1. /\ up' = FALSE /\ flush'.kind = "none" /\ age' = None
      /\ \A r \in Region : journal'[r] = Blank
      /\ UNCHANGED history
  BY DEF Crash, NoFlush
<1>2. ASSUME NEW r \in Region
      PROVE  /\ (FreshSound(Backed(r, disk[r]), disk[r], beat[r]))'
             /\ Bounded(disk'[r])
  <2>1. CASE Replaced
    BY <1>1, <2>1, ReplacedTells
  <2>2. CASE UNCHANGED files
    <3>1. (Backed(r, disk[r]))' = Backed(r, disk[r])
      BY <1>1, <2>2 DEF Backed, history, files
    <3> QED
      BY <2>2, <3>1 DEF files, TInv, Truths, Bounds
  <2> QED
    BY <2>1, <2>2 DEF Crash
<1>3. Truths' /\ Bounds'
  BY <1>1, <1>2, BlankTells DEF Truths, Bounds
<1>4. Tracks' /\ SyncedTales'
  BY <1>1 DEF Tracks, SyncedTales
<1> QED
  BY <1>3, <1>4 DEF TInv

\* What a start finds on disk is as true in memory.
LEMMA StartTruth == TypeOK /\ JInv /\ TInv /\ Start => TInv'
<1> SUFFICES ASSUME TypeOK, JInv, TInv, Start PROVE TInv'
  OBVIOUS
<1>1. /\ ~up /\ UNCHANGED <<age, flush, disk, beat, history>>
  BY DEF Start, files
<1>2. flush.kind = "none" /\ age = None
  BY <1>1 DEF JInv, Running
<1>3. ASSUME NEW r \in Region
      PROVE  /\ (FreshSound(Backed(r, journal[r]), journal[r], beat[r]))'
             /\ Bounded(journal'[r])
             /\ ~pending' => SameTale(disk[r], journal'[r])
  <2> DEFINE d == disk[r]
             b == beat[r]
             k == journal'[r]
  <2>1. /\ d \in Entry /\ b \in Time \cup {None}
        /\ FreshSound(Backed(r, d), d, b) /\ Bounded(d) /\ beat' = beat
    BY <1>1 DEF TypeOK, Stamps, TInv, Truths, Bounds
  <2>2. (Backed(r, journal[r]))' = Backed(r, k)
    BY <1>1 DEF Backed, history
  <2>3. CASE k = Freshened(d, b)
    <3>1. SameTale(d, k) /\ Backed(r, k) = Backed(r, d)
      BY <2>1, <2>3, TaleKept, TaleOf
    <3>2. FreshSound(Backed(r, d), k, b)
      BY <2>1, <2>3, FreshTwice DEF FreshSound
    <3>3. d.confirmed <= k.confirmed /\ d.confirmed \in Int /\ k.confirmed \in Int
      BY <2>1, <2>3, FreshenedFields, IntFields
    <3>4. d.started \in Int /\ d.alerts \subseteq Int
      BY <2>1, JournalAssumption DEF Entry, Time, Unit, None
    <3>5. Bounded(k)
      BY <2>1, <3>1, <3>3, <3>4 DEF Bounded, SameTale
    <3> QED
      BY <2>1, <2>2, <3>1, <3>2, <3>5
  <2>4. CASE k = d
    BY <2>1, <2>2, <2>4 DEF SameTale
  <2>5. CASE k = Blank /\ pending'
    BY <2>5, BlankTells
  <2> QED
    BY <2>3, <2>4, <2>5, StartRegion
<1>4. ASSUME NEW r \in Region PROVE (Backed(r, disk[r]))' = Backed(r, disk[r])
  BY <1>1 DEF Backed, history
<1>5. Truths' /\ Bounds' /\ SyncedTales'
  BY <1>1, <1>2, <1>3, <1>4 DEF TInv, Truths, Bounds, SyncedTales
<1>6. Tracks'
  BY <1>1, <1>2 DEF Tracks
<1> QED
  BY <1>5, <1>6 DEF TInv

\* Time that passes, a write that fails.
LEMMA QuietTruth ==
    ASSUME TInv, UNCHANGED <<up, selected, shown, journal, pending, disk, beat, history>>,
           flush' = flush \/ flush'.kind = "none",
           age' # None => age # None
    PROVE  TInv'
<1>1. ASSUME NEW r \in Region
      PROVE  /\ (Backed(r, journal[r]))' = Backed(r, journal[r])
             /\ (Backed(r, disk[r]))' = Backed(r, disk[r])
             /\ flush' = flush =>
                   (Backed(r, flush.content[r]))' = Backed(r, flush.content[r])
  BY DEF Backed, history
<1>2. Truths' /\ Bounds'
  BY <1>1 DEF TInv, Truths, Bounds
<1>3. Tracks' /\ SyncedTales'
  BY DEF TInv, Tracks, SyncedTales
<1> QED
  BY <1>2, <1>3 DEF TInv

LEMMA TruthInit == Init => TInv
<1> SUFFICES ASSUME Init PROVE TInv
  OBVIOUS
<1>1. /\ \A r \in Region : journal[r] = Blank /\ disk[r] = Blank
      /\ flush.kind = "none" /\ ~up /\ age = None
  BY DEF Init, NoFlush
<1>2. Truths /\ Bounds
  BY <1>1, BlankTells DEF Truths, Bounds
<1> QED
  BY <1>1, <1>2 DEF TInv, Tracks, SyncedTales

LEMMA TruthStep ==
    ASSUME Past PROVE IInv /\ TInv /\ [Next]_vars => TInv'
<1> SUFFICES ASSUME IInv, TInv, [Next]_vars PROVE TInv'
  OBVIOUS
<1>1. TypeOK /\ JInv
  BY DEF IInv
<1>2. CASE Tick
  <2>1. /\ UNCHANGED <<up, selected, shown, journal, pending, disk, beat, history, flush>>
        /\ age' # None => age # None
    BY <1>2 DEF Tick, Aged, memory, files
  <2> QED
    BY <2>1, QuietTruth
<1>3. CASE SetClock
  BY <1>3, QuietTruth DEF SetClock, memory, files
<1>4. CASE Snapshot
  BY <1>1, <1>4, SnapshotTruth
<1>5. CASE CheckStale
  BY <1>1, <1>5, CheckStaleTruth
<1>6. CASE FlushBegin
  BY <1>1, <1>6, FlushBeginTruth
<1>7. CASE FlushOk
  BY <1>1, <1>7, FlushOkTruth
<1>8. CASE FlushFail
  BY <1>8, QuietTruth DEF FlushFail, NoFlush, feed, memory, files
<1>9. CASE Crash
  BY <1>1, <1>9, CrashTruth
<1>10. CASE Start
  BY <1>1, <1>10, StartTruth
<1>11. CASE UNCHANGED vars
  BY <1>11, QuietTruth DEF vars, feed, memory, files
<1> QED
  BY <1>2, <1>3, <1>4, <1>5, <1>6, <1>7, <1>8, <1>9, <1>10, <1>11 DEF Next

-----------------------------------------------------------------------------
(* What was told, through a gap without an edge.                           *)

Less == {p \in Nat \X Nat : p[1] < p[2]}

LEMMA Least ==
    ASSUME NEW S, S \subseteq Nat, S # {}
    PROVE  \E x \in S : \A y \in S : x <= y
<1>1. IsWellFoundedOn(Less, Nat)
  BY NatLessThanWellFounded DEF OpToRel, Less
<1>2. PICK x \in S : \A y \in S : ~(<<y, x>> \in Less)
  BY <1>1, WFMin
<1>3. ASSUME NEW y \in S PROVE x <= y
  <2>1. x \in Nat /\ y \in Nat
    BY <1>2
  <2>2. <<y, x>> \in Less <=> y < x
    BY <2>1 DEF Less
  <2> QED
    BY <1>2, <2>1, <2>2
<1> QED
  BY <1>2, <1>3

\* Across a quiet gap the journal tells one state, of its units and of the one behind.
LEMMA QuietTellsOneState ==
    ASSUME NEW e \in Entry, NEW g \in Gap, Quiet(e, g),
           NEW u \in Unit, g.lo <= u, u < g.hi, g.hi \in Unit
    PROVE  u \in Tale(e) <=> g.hi \in Tale(e)
<1>1. /\ u \in Nat /\ g.lo \in Nat /\ g.hi \in Nat /\ g.hi <= MaxTime
      /\ e.started \in Int /\ e.alerts \subseteq Nat
  BY JournalAssumption DEF Gap, Time, Unit, Entry, None
<1>2. \A t \in Time : t = e.started \/ ((t \in e.alerts) # (t - 1 \in e.alerts))
                        => ~(g.lo < t /\ t <= g.hi)
  BY DEF Quiet, Edges
<1>3. u \in e.alerts <=> g.hi \in e.alerts
  <2> DEFINE Turned == {t \in u .. g.hi : (t \in e.alerts) # (u \in e.alerts)}
  <2> SUFFICES ASSUME Turned # {} PROVE FALSE
    <3>1. g.hi \in u .. g.hi
      BY <1>1
    <3> QED
      BY <3>1
  <2>1. Turned \subseteq Nat
    BY <1>1
  <2>2. PICK t \in Turned : \A v \in Turned : t <= v
    BY <2>1, Least
  <2>3. t \in Int /\ u < t /\ t <= g.hi
    BY <1>1, <2>2
  <2>4. t - 1 \notin Turned /\ t - 1 \in u .. g.hi
    BY <1>1, <2>2, <2>3
  <2>5. (t \in e.alerts) # (t - 1 \in e.alerts)
    BY <2>2, <2>4
  <2>6. t \in Time /\ g.lo < t
    BY <1>1, <2>3, JournalAssumption DEF Time
  <2> QED
    BY <1>2, <2>3, <2>5, <2>6
<1>4. e.started # None => (e.started <= u <=> e.started <= g.hi)
  <2> SUFFICES ASSUME e.started # None, e.started <= g.hi, ~(e.started <= u) PROVE FALSE
    BY <1>1
  <2>1. e.started \in Time /\ g.lo < e.started
    BY <1>1 DEF Entry
  <2> QED
    BY <1>2, <2>1
<1> QED
  BY <1>3, <1>4 DEF Tale

-----------------------------------------------------------------------------
(* Theorems.                                                               *)

\* The clock is never set back; it may be set forward.
ClockRunsOn == [][now' >= now]_now

\* The clock of a run in which it is not set at all runs on.
LEMMA UnsetRunsOn == ASSUME MaxJumps = 0 PROVE Spec => ClockRunsOn
<1> DEFINE Unset == jumps = 0 /\ now \in Int
<1>1. Init => Unset
  BY DEF Init
<1>2. Unset /\ [Next]_vars => Unset' /\ (now' = now \/ now' = now + 1)
  <2> SUFFICES ASSUME Unset, [Next]_vars
               PROVE  Unset' /\ (now' = now \/ now' = now + 1)
    OBVIOUS
  <2>1. ~SetClock
    BY DEF SetClock
  <2>2. CASE Tick
    BY <2>2 DEF Tick
  <2>3. CASE ~Tick
    BY <2>1, <2>3 DEF Next, vars, clocks, Snapshot, CheckStale, FlushBegin, FlushOk,
                      FlushFail, Crash, Start
  <2> QED
    BY <2>2, <2>3
<1>3. Unset /\ Unset' /\ (now' = now \/ now' = now + 1) => [now' >= now]_now
  OBVIOUS
<1> HIDE DEF Unset
<1> QED
  BY <1>1, <1>2, <1>3, PTL DEF Spec, ClockRunsOn

\* Readable files: no stamp on disk gets ahead of what the file beside it has seen.
THEOREM Invariance == ASSUME ~Damage PROVE Spec => []IInv
<1>1. Init => IInv
  BY TypeInit, JInit DEF IInv
<1>2. IInv /\ [Next]_vars => IInv'
  BY InvStep
<1> QED
  BY <1>1, <1>2, PTL DEF Spec

\* The same of files that may be lost, and the truth of what they tell, if the clock
\* is never set back.
THEOREM InvarianceOfTruth == Spec /\ ClockRunsOn => [](IInv /\ Past /\ TInv)
<1>1. Init => IInv /\ Past /\ TInv
  BY TypeInit, JInit, PastInit, TruthInit DEF IInv
<1>2. IInv /\ Past /\ TInv /\ [Next]_vars => IInv' /\ TInv'
  BY InvStep, TruthStep
<1>3. IInv /\ Past /\ [Next]_vars /\ [now' >= now]_now => Past'
  <2> SUFFICES ASSUME IInv, Past, [Next]_vars, [now' >= now]_now PROVE Past'
    OBVIOUS
  <2>1. TypeOK /\ JInv
    BY DEF IInv
  <2>2. now' >= now
    BY <2>1, JournalAssumption DEF TypeOK, Time
  <2> QED
    BY <2>1, <2>2, PastStep
<1> QED
  BY <1>1, <1>2, <1>3, PTL DEF Spec, ClockRunsOn

\* Readable files, or a clock that is not set back.
LEMMA EitherIsSound == Spec /\ (~Damage \/ ClockRunsOn) => []IInv
<1>1. CASE ~Damage
  BY <1>1, Invariance, PTL
<1>2. CASE Damage
  BY <1>2, InvarianceOfTruth, PTL
<1> QED
  BY <1>1, <1>2

\* The journal, the two files and the write under way are what the code takes them for.
THEOREM TypeCorrect == Spec => []TypeOK
<1>1. Init => TypeOK /\ Frame
  BY TypeInit, JInit DEF JInv, Frame
<1>2. TypeOK /\ Frame /\ [Next]_vars => (TypeOK /\ Frame)'
  BY FrameStep
<1> QED
  BY <1>1, <1>2, PTL DEF Spec

\* What the journal claims to have watched was watched, whatever crashes, failed
\* writes and clock changes come in between (history.py: "a gap is marked, never
\* filled in").
THEOREM NoHoleIsHidden == Spec /\ (~Damage \/ ClockRunsOn) => []NoSilentHole
<1>1. IInv => NoSilentHole
  <2> SUFFICES ASSUME IInv, NEW r \in Region
               PROVE  Claimed(r) \subseteq alertSeen[r] \cup quietSeen[r]
    BY DEF NoSilentHole
  <2>1. journal[r] \in Entry /\ beat[r] \in Time \cup {None}
    BY DEF IInv, TypeOK, Stamps
  <2>2. Sound(Seen(r), journal[r])
    BY <2>1, FreshIsMore DEF IInv, JInv, Sounds
  <2>3. Claimed(r) \subseteq Claim(journal[r])
    BY DEF Claimed, Claim
  <2> QED
    BY <2>2, <2>3 DEF Sound, Seen
<1> QED
  BY <1>1, EitherIsSound, PTL

\* A journal with nothing left to write is on disk, but for newer stamps: the flags of
\* async_flush forget no change that came during a write.
SavedIsOnDisk ==
    up /\ ~pending =>
        \A r \in Region : Same(disk[r], journal[r]) /\ SameTale(disk[r], journal[r])

\* A crash of such a run loses no gap and no episode, on a clock that is never set back.
THEOREM SavedSurvivesCrash == Spec /\ ClockRunsOn => []SavedIsOnDisk
<1>1. IInv /\ TInv => SavedIsOnDisk
  BY DEF IInv, JInv, Synced, TInv, SyncedTales, SavedIsOnDisk
<1> QED
  BY <1>1, InvarianceOfTruth, PTL

\* Of the time it claims to have watched, the journal tells what was seen, whatever
\* crashes, failed writes and damaged files come in between, on a clock that is never set
\* back.
THEOREM EpisodesAreTrue == Spec /\ ClockRunsOn => []EpisodesTellTheTruth
<1>1. IInv /\ TInv => EpisodesTellTheTruth
  <2> SUFFICES ASSUME IInv, TInv, NEW r \in Region, NEW u \in Claimed(r)
               PROVE  IF u \in AlertTold(r) THEN u \in alertSeen[r] ELSE u \in quietSeen[r]
    BY DEF EpisodesTellTheTruth
  <2>1. journal[r] \in Entry /\ beat[r] \in Time \cup {None}
    BY DEF IInv, TypeOK, Stamps
  <2>2. Sound(Backed(r, journal[r]), journal[r])
    BY <2>1, FreshIsMore DEF TInv, Truths
  <2>3. u \in Claim(journal[r])
    BY DEF Claimed, Claim
  <2>4. AlertTold(r) = Tale(journal[r])
    BY DEF AlertTold, Tale
  <2> QED
    BY <2>2, <2>3, <2>4 DEF Sound, Backed
<1> QED
  BY <1>1, InvarianceOfTruth, PTL

\* A complete answer leaves nothing out but short gaps, and tells of those what was
\* seen right after them (history.py:861, "the state on both sides was the same").
THEOREM CompleteWasWatched == Spec /\ ClockRunsOn => []CompleteIsWatched
<1>1. TypeOK /\ EpisodesTellTheTruth => CompleteIsWatched
  <2> SUFFICES ASSUME TypeOK, EpisodesTellTheTruth, NEW r \in Region, NEW lo \in 0 .. now - 1,
                      Complete(r, lo), NEW u \in lo .. journal[r].confirmed - 1
               PROVE  \/ SeenAsTold(r, u, u)
                      \/ \E g \in journal[r].gaps :
                             /\ g.lo <= u /\ u < g.hi /\ g.hi - g.lo <= Bridgeable
                             /\ g.hi \in Claimed(r) => SeenAsTold(r, g.hi, u)
    BY DEF CompleteIsWatched
  <2> DEFINE e == journal[r]
  <2>1. e \in Entry /\ now \in Nat
    BY JournalAssumption DEF TypeOK, Time
  <2>2. /\ e.since # None /\ e.since <= lo /\ e.open = None /\ e.confirmed <= now
        /\ \A g \in Uncertain(e) : g.hi <= lo \/ now < g.lo
    BY DEF Complete
  <2>3. e.since \in Int /\ e.confirmed \in Int /\ e.confirmed <= MaxTime
    BY <2>1, JournalAssumption DEF Entry, Time, None
  <2>4. /\ u \in Int /\ lo \in Int /\ 0 <= lo /\ lo <= u /\ u < e.confirmed /\ u < now
        /\ e.since <= u
    BY <2>1, <2>2, <2>3
  <2>5. u \in Unit
    BY <2>3, <2>4, JournalAssumption DEF Unit
  <2>6. \A v \in Claimed(r) : SeenAsTold(r, v, v)
    BY DEF EpisodesTellTheTruth, SeenAsTold
  <2>7. AlertTold(r) = Tale(e)
    BY DEF AlertTold, Tale
  <2>8. CASE u \notin Holes(e)
    <3>1. u \in Claimed(r)
      BY <2>2, <2>4, <2>5, <2>8 DEF Claimed
    <3> QED
      BY <2>6, <3>1
  <2>9. CASE u \in Holes(e)
    <3>1. PICK g \in e.gaps : g.lo <= u /\ u < g.hi
      BY <2>9 DEF Holes
    <3>2. g \in Gap /\ g.lo \in Int /\ g.hi \in Int
      BY <2>1, JournalAssumption DEF Entry, Gap, Time
    <3>3. ~(g.hi <= lo \/ now < g.lo)
      BY <2>1, <2>4, <3>1, <3>2
    <3>4. Bridged(e, g)
      BY <2>2, <3>3 DEF Uncertain
    <3>5. g.hi - g.lo <= Bridgeable /\ Quiet(e, g)
      BY <3>4 DEF Bridged, Short
    <3>6. ASSUME g.hi \in Claimed(r) PROVE SeenAsTold(r, g.hi, u)
      <4>1. g.hi \in Unit
        BY <3>6 DEF Claimed
      <4>2. u \in Tale(e) <=> g.hi \in Tale(e)
        BY <2>1, <2>5, <3>1, <3>2, <3>5, <4>1, QuietTellsOneState
      <4> QED
        BY <2>6, <2>7, <3>6, <4>2 DEF SeenAsTold
    <3> QED
      BY <3>1, <3>5, <3>6
  <2> QED
    BY <2>8, <2>9
<1> QED
  BY <1>1, TypeCorrect, EpisodesAreTrue, PTL
===============================================================================
